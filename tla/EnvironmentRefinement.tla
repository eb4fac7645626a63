------------------------ MODULE EnvironmentRefinement ------------------------
(***************************************************************************)
(* EnvironmentLifecycle implements AtomicDeployments: the session in the   *)
(* state deploying is the current one, the model it deploys is the one in  *)
(* its row, and that model is published once the environment has a later   *)
(* version than the session.                                               *)
(***************************************************************************)
EXTENDS EnvironmentLifecycle

Current == IF InState("deploying") = {} THEN None
           ELSE CHOOSE s \in Sessions : sessions[s].state = "deploying"

Deployments == INSTANCE AtomicDeployments WITH
    exists <- env.exists,
    version <- env.version,
    published <- env.desc.apps,
    current <- Current,
    target <- IF Current = None THEN {} ELSE sessions[Current].desc.apps,
    done <- Current # None /\ env.version > sessions[Current].version

\* Handlers that do not interleave make deployments one at a time, of the
\* model the session held when it was deployed, published under the next
\* version by process_result, and closed only after that, however sessions
\* are opened, edited, dropped and deployed meanwhile and whatever is lost
\* on the way to the engine and back.  (Without deletions, which are
\* published as versions too.)
DeploymentsAreAtomic == Deployments!AtomicSpec
=============================================================================
