---------------------------- MODULE TaskExecution ----------------------------
(***************************************************************************)
(* What the engine does with the tasks of one environment, which reach it  *)
(* one after the other: it obtains a trust of the user (or goes on with    *)
(* the one the environment has), loads the objects, has them validated,    *)
(* destroys those that were dropped, runs the action, saves the model and, *)
(* when nothing is left, gives the trust back.  Every step may fail.       *)
(***************************************************************************)
EXTENDS FiniteSets

CONSTANTS
    Things,     \* objects that hold resources in the cloud
    Trusts,     \* bound: trusts that Keystone will issue
    UseTrusts,  \* the option use_trusts
    NoTrust

ASSUME TaskAssumption == UseTrusts \in BOOLEAN /\ NoTrust \notin Trusts

\* A model: its Objects entry (None when `deleted'), the ObjectsCopy entry
\* (of no use when not `copied') and TrustId in SystemData.
Models == [objects : SUBSET Things, deleted : BOOLEAN, copy : SUBSET Things,
           copied : BOOLEAN, trust : Trusts \cup {NoTrust}]
NewModel == [objects |-> {}, deleted |-> FALSE, copy |-> {}, copied |-> FALSE,
             trust |-> NoTrust]

Places == {"idle", "trust", "enter", "load", "validate", "collect", "invoke", "finalize",
           "exit", "revoke", "result", "stuck"}

VARIABLES
    environment,  \* the saved model
    exists,       \* there still is an environment
    keystone,     \* trusts issued and not revoked
    issued,       \* all trusts ever issued
    resources,    \* things that exist in the cloud
    token,        \* the token of the task is still good
    task          \* where the engine is, its model, the session's trust_id,
                  \* whether there is an action

tasking == <<environment, exists, keystone, issued, resources, token, task>>

NoTask == [at |-> "idle", model |-> NewModel, trust |-> NoTrust, action |-> FALSE]

TasksInit ==
    /\ environment = NewModel /\ exists = TRUE
    /\ keystone = {} /\ issued = {} /\ resources = {} /\ token = TRUE
    /\ task = NoTask

Goes(place) == task' = [task EXCEPT !.at = place]

-----------------------------------------------------------------------------
(* The API: the objects of a session are deployed, an action runs on one of *)
(* them, or all are to be deleted.                                          *)

Submit ==
    /\ task.at = "idle" /\ exists
    /\ \/ \E objects \in SUBSET Things :
            /\ ~environment.deleted
            /\ task' = [NoTask EXCEPT !.at = "trust", !.action = TRUE,
                                    !.model = [environment EXCEPT !.objects = objects]]
       \/ task' = [NoTask EXCEPT !.at = "trust", !.action = TRUE, !.model = environment]
       \/ /\ environment.copied
          /\ task' = [NoTask EXCEPT !.at = "trust",
                                  !.model = [environment EXCEPT !.objects = {},
                                                                !.deleted = TRUE]]
    /\ token' = TRUE
    /\ UNCHANGED <<environment, exists, keystone, issued, resources>>

\* Tokens live for hours, deployments may take longer.
Expire ==
    /\ token /\ token' = FALSE
    /\ UNCHANGED <<environment, exists, keystone, issued, resources, task>>

-----------------------------------------------------------------------------
(* _create_trust *)

\* With a trust in SystemData no other is created.
HasTrust == task.model.trust # NoTrust

KeepTrust ==
    /\ task.at = "trust" /\ (~UseTrusts \/ HasTrust)
    /\ task' = [task EXCEPT !.at = "enter",
                            !.trust = IF UseTrusts THEN task.model.trust ELSE NoTrust]
    /\ UNCHANGED <<environment, exists, keystone, issued, resources, token>>

\* auth_utils.create_trust, with the token of the user; the answer may be
\* lost.  Without a trust the result has no model, and process_result fails.
CreateTrust ==
    /\ task.at = "trust" /\ UseTrusts /\ ~HasTrust
    /\ \/ \E t \in Trusts \ issued :
            /\ token /\ issued' = issued \cup {t} /\ keystone' = keystone \cup {t}
            /\ \/ task' = [task EXCEPT !.at = "enter", !.trust = t, !.model.trust = t]
               \/ Goes("stuck")
       \/ Goes("stuck") /\ UNCHANGED <<issued, keystone>>
    /\ UNCHANGED <<environment, exists, resources, token>>

\* auth_utils.get_client_session: the clients of the cloud services use the
\* trust when the session has one, and the token otherwise.
Authenticated == IF task.trust # NoTrust THEN task.trust \in keystone ELSE token

-----------------------------------------------------------------------------
(* The objects of the task *)

LoadedThings == task.model.objects \cup (IF task.model.copied THEN task.model.copy ELSE {})

\* MuranoDslExecutor.finalize of what is left in the object store: .destroy
\* of each, whose failures are only logged.
Destroyed(things) ==
    \E gone \in SUBSET (things \cap resources) :
        /\ gone # {} => Authenticated
        /\ resources' = resources \ gone

\* The package loader is entered and left; the table of versions is filled.
\* An exception ends the task without a result.
Enter ==
    /\ task.at = "enter"
    /\ (Goes("load") \/ Goes("stuck"))
    /\ UNCHANGED <<environment, exists, keystone, issued, resources, token>>

\* An object definition that does not load: Objects may have been loaded when
\* it was one of ObjectsCopy.
LoadModel ==
    /\ task.at = "load"
    /\ \/ Goes(IF task.model.deleted THEN "collect" ELSE "validate") /\ UNCHANGED resources
       \/ Goes("exit") /\ Destroyed(task.model.objects)
    /\ UNCHANGED <<environment, exists, keystone, issued, token>>

\* Validation by the policies of Congress.  On an exception the executor is
\* left with all of its objects, and its __exit__ destroys those that remain.
ValidateModel ==
    /\ task.at = "validate"
    /\ (Goes("collect") /\ UNCHANGED resources) \/ (Goes("exit") /\ Destroyed(LoadedThings))
    /\ UNCHANGED <<environment, exists, keystone, issued, token>>

\* object_store.cleanup; ObjectsCopy becomes what Objects is.
Dropped == LoadedThings \ task.model.objects
Collect ==
    /\ task.at = "collect"
    /\ \/ /\ Destroyed(Dropped)
          /\ task' = [task EXCEPT !.at = IF task.action THEN "invoke" ELSE "exit",
                                  !.model.copy = task.model.objects,
                                  !.model.copied = ~task.model.deleted]
       \/ Goes("exit") /\ Destroyed(LoadedThings)
    /\ UNCHANGED <<environment, exists, keystone, issued, token>>

\* The method runs, to its end or to an exception: objects are deployed.
Invoke ==
    /\ task.at = "invoke"
    /\ \E new \in SUBSET task.model.objects :
          /\ new \ resources # {} => Authenticated
          /\ resources' = resources \cup new
    /\ Goes("finalize")
    /\ UNCHANGED <<environment, exists, keystone, issued, token>>

\* finalize: the model is what the root refers to after the method; the rest
\* is destroyed.  It answers None when it fails, or when there is no root
\* (then all is destroyed): the engine fails on that and sends no result.
Finalize ==
    /\ task.at = "finalize"
    /\ \/ /\ ~task.model.deleted
          /\ \E used \in SUBSET task.model.objects :
                /\ Destroyed(task.model.objects \ used)
                /\ task' = [task EXCEPT !.at = "exit", !.model.objects = used,
                                        !.model.copy = used, !.model.copied = TRUE]
       \/ Goes("stuck") /\ Destroyed(LoadedThings)
    /\ UNCHANGED <<environment, exists, keystone, issued, token>>

-----------------------------------------------------------------------------
(* The end of TaskExecutor.execute *)

\* There are neither Objects nor ObjectsCopy.
NothingLeft_mutant(model) == model.deleted
NothingLeft(model) == model.deleted /\ ~model.copied

\* The table of versions is written into SystemData (the loader may fail when
\* it is left).
Exit ==
    /\ task.at = "exit"
    /\ (Goes(IF NothingLeft(task.model) THEN "revoke" ELSE "result") \/ Goes("stuck"))
    /\ UNCHANGED <<environment, exists, keystone, issued, resources, token>>

\* _delete_trust: SystemData is shared with the result.  A failure is only
\* logged, whether Keystone deleted the trust or not.
Revoke ==
    /\ task.at = "revoke"
    /\ \/ keystone' = keystone \ {task.trust}
          /\ task' = [task EXCEPT !.at = "result", !.trust = NoTrust,
                                  !.model.trust = IF task.trust # NoTrust THEN NoTrust ELSE @]
       \/ task.trust # NoTrust /\ Goes("result") /\ keystone' \in {keystone, keystone \ {task.trust}}
    /\ UNCHANGED <<environment, exists, issued, resources, token>>

\* The result reaches process_result, which saves the model or, when nothing
\* is left of it, removes the environment.
Deliver ==
    /\ task.at = "result"
    /\ exists' = ~(task.model.deleted /\ ~task.model.copied)
    /\ environment' = task.model
    /\ task' = NoTask
    /\ UNCHANGED <<keystone, issued, resources, token>>

\* The engine stops, or the result is lost: the session remains as it is,
\* and no other task follows.
Lose ==
    /\ task.at \notin {"idle", "stuck"} /\ Goes("stuck")
    /\ UNCHANGED <<environment, exists, keystone, issued, resources, token>>

TasksNext ==
    \/ Submit \/ Expire \/ KeepTrust \/ CreateTrust
    \/ Enter \/ LoadModel \/ ValidateModel \/ Collect \/ Invoke \/ Finalize
    \/ Exit \/ Revoke \/ Deliver \/ Lose

TasksSpec == TasksInit /\ [][TasksNext]_tasking

-----------------------------------------------------------------------------
\* However long it takes, a task reaches the services of the cloud with the
\* trust of the environment: while objects are destroyed and methods run the
\* trust is one that Keystone knows, also when an earlier deletion failed
\* and is tried again.
TrustOutlivesObjects ==
    UseTrusts =>
        /\ task.at \in {"load", "validate", "collect", "invoke", "finalize"} => Authenticated
        /\ task.at = "idle" /\ exists /\ environment.trust # NoTrust
           => environment.trust \in keystone

\* "Garbage collector destroys all object that are not reachable anymore":
\* before its method runs a task destroys nothing that its model still has.
OnlyDroppedAreDestroyed ==
    [][task.at \in {"load", "validate", "collect"} =>
           resources \cap task.model.objects \subseteq resources']_tasking
=============================================================================
