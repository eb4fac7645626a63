-------------------------- MODULE AtomicDeployments --------------------------
(***************************************************************************)
(* What an environment promises its clients: one deployment at a time,     *)
(* each of a model fixed when it begins, made on top of the version that   *)
(* is current then, published as the next version at one moment and ended  *)
(* only after that.  A deployment may never end: its engine may be lost.   *)
(***************************************************************************)
EXTENDS Naturals

CONSTANTS Sessions, Apps, None

VARIABLES
    exists,     \* the environment has not been removed
    version,    \* how many models were published
    published,  \* the model published last
    current,    \* the session being deployed, or None
    target,     \* the model it deploys
    done        \* ... which has been published

promise == <<exists, version, published, current, target, done>>

AtomicInit ==
    /\ exists = TRUE /\ version = 0 /\ published = {}
    /\ current = None /\ target = {} /\ done = FALSE

BeginDeployment ==
    /\ exists /\ current = None
    /\ current' \in Sessions
    /\ target' \in SUBSET Apps
    /\ done' = FALSE
    /\ UNCHANGED <<exists, version, published>>

Publish ==
    /\ exists /\ current # None /\ ~done
    /\ done' = TRUE
    /\ version' = version + 1
    /\ published' = target
    /\ UNCHANGED <<exists, current, target>>

EndDeployment ==
    /\ current # None /\ done
    /\ current' = None /\ target' = {} /\ done' = FALSE
    /\ UNCHANGED <<exists, version, published>>

Remove ==
    /\ exists
    /\ exists' = FALSE
    /\ current' = None /\ target' = {} /\ done' = FALSE
    /\ UNCHANGED <<version, published>>

AtomicNext == BeginDeployment \/ Publish \/ EndDeployment \/ Remove

AtomicSpec == AtomicInit /\ [][AtomicNext]_promise
=============================================================================
