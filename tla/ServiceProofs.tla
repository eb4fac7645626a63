----------------------------- MODULE ServiceProofs -----------------------------
(***************************************************************************)
(* Proofs about the services around an environment: the trusts of its      *)
(* tasks, the Heat stack, the versions of packages its tasks work with,    *)
(* the service broker of Cloud Foundry, the policies that change a model   *)
(* and those that reject one, the pipeline of requests, the statistics and *)
(* packages that are Heat templates.  They have no state in common; each   *)
(* part gives its inductive invariant, what each step does to it, and the  *)
(* theorem about the specification of that service.                        *)
(***************************************************************************)
EXTENDS TaskExecution, HeatStacks, PackageVersions, ServiceBroker,
        ModelModification, PolicyRules, RestApi, Statistics, HotPackages, Integers,
        SequenceTheorems, FiniteSetTheorems, WellFoundedInduction, TLAPS

-----------------------------------------------------------------------------
(* The tasks of an environment *)

Tasks == [at : Places, model : Models, trust : Trusts \cup {NoTrust}, action : BOOLEAN]

TasksTypeOK ==
    /\ environment \in Models /\ task \in Tasks
    /\ exists \in BOOLEAN /\ token \in BOOLEAN
    /\ issued \subseteq Trusts /\ keystone \subseteq issued

\* Where the objects of a task are used.
AtWork == {"enter", "load", "validate", "collect", "invoke", "finalize", "exit", "revoke"}

\* The trust of a model, if it has one, is one that Keystone knows.
Trusted(model) == model.trust # NoTrust => model.trust \in keystone

\* The session and the model of a task agree on the trust, and it is revoked
\* only once neither objects nor copies of them are left.
TrustsKept ==
    UseTrusts =>
        /\ task.at \in AtWork => task.trust \in keystone /\ task.model.trust = task.trust
        /\ task.at = "trust" => Trusted(task.model)
        /\ task.at = "revoke" => NothingLeft(task.model)
        /\ task.at = "result" => NothingLeft(task.model) \/ Trusted(task.model)
        /\ task.at = "idle" /\ exists => Trusted(environment)

TasksInv == TasksTypeOK /\ TrustsKept

\* What the placeholders are.
LEMMA TaskRecords ==
    /\ NewModel \in Models /\ NoTask \in Tasks
    /\ NewModel.trust = NoTrust /\ NoTask.at = "idle"
  BY DEF NewModel, Models, NoTask, Tasks, Places

\* Going to another place changes nothing else of a task.
LEMMA GoingOn ==
  ASSUME task \in Tasks, NEW p \in Places, Goes(p)
  PROVE  /\ task' \in Tasks /\ task'.at = p
         /\ task'.model = task.model /\ task'.trust = task.trust /\ task'.action = task.action
  BY DEF Tasks, Goes

\* Changing the trust of a model gives a model.
LEMMA ModelFields ==
  ASSUME NEW m \in Models, NEW t \in Trusts \cup {NoTrust}, NEW o \in SUBSET Things,
         NEW c \in BOOLEAN
  PROVE  /\ [m EXCEPT !.trust = t] \in Models /\ [m EXCEPT !.trust = t].trust = t
         /\ [m EXCEPT !.trust = t].deleted = m.deleted /\ [m EXCEPT !.trust = t].copied = m.copied
         /\ [m EXCEPT !.objects = o] \in Models /\ [m EXCEPT !.objects = o].trust = m.trust
         /\ [m EXCEPT !.objects = o, !.deleted = TRUE] \in Models
         /\ [m EXCEPT !.objects = o, !.deleted = TRUE].trust = m.trust
         /\ [m EXCEPT !.copy = o, !.copied = c] \in Models
         /\ [m EXCEPT !.copy = o, !.copied = c].trust = m.trust
         /\ [m EXCEPT !.objects = o, !.copy = o, !.copied = c] \in Models
         /\ [m EXCEPT !.objects = o, !.copy = o, !.copied = c].trust = m.trust
  BY DEF Models

\* A submitted task starts with what the environment has, its trust included.
LEMMA SubmitKeeps ==
  ASSUME TaskAssumption, TasksInv, Submit
  PROVE  TasksInv'
<1>1. /\ environment \in Models /\ task.at = "idle" /\ exists
  BY DEF TasksInv, TasksTypeOK, Submit
<1>2. PICK model \in Models, action \in BOOLEAN :
        /\ model.trust = environment.trust
        /\ task' = [at |-> "trust", model |-> model, trust |-> NoTrust, action |-> action]
  <2>1. CASE \E objects \in SUBSET Things :
                task' = [NoTask EXCEPT !.at = "trust", !.action = TRUE,
                                     !.model = [environment EXCEPT !.objects = objects]]
    <3>1. PICK objects \in SUBSET Things :
             task' = [NoTask EXCEPT !.at = "trust", !.action = TRUE,
                                     !.model = [environment EXCEPT !.objects = objects]]
      BY <2>1
    <3> DEFINE m == [environment EXCEPT !.objects = objects]
    <3>2. m \in Models /\ m.trust = environment.trust
      BY <1>1 DEF Models
    <3>3. task' = [at |-> "trust", model |-> m, trust |-> NoTrust, action |-> TRUE]
      BY <3>1 DEF NoTask
    <3> QED  BY <3>2, <3>3
  <2>2. CASE task' = [NoTask EXCEPT !.at = "trust", !.action = TRUE, !.model = environment]
    <3>1. task' = [at |-> "trust", model |-> environment, trust |-> NoTrust, action |-> TRUE]
      BY <2>2 DEF NoTask
    <3> QED  BY <3>1, <1>1
  <2>3. CASE task' = [NoTask EXCEPT !.at = "trust",
                                  !.model = [environment EXCEPT !.objects = {}, !.deleted = TRUE]]
    <3> DEFINE m == [environment EXCEPT !.objects = {}, !.deleted = TRUE]
    <3>1. m \in Models /\ m.trust = environment.trust
      BY <1>1 DEF Models
    <3>2. task' = [at |-> "trust", model |-> m, trust |-> NoTrust, action |-> FALSE]
      BY <2>3 DEF NoTask
    <3> QED  BY <3>1, <3>2
  <2> QED  BY <2>1, <2>2, <2>3 DEF Submit
<1>3. task' \in Tasks /\ task'.at = "trust" /\ task'.model = model
  BY <1>2 DEF Tasks, Places
<1>4. /\ environment' = environment /\ exists' = exists /\ keystone' = keystone
      /\ issued' = issued /\ token' \in BOOLEAN
  BY DEF Submit
<1>5. TasksTypeOK'
  BY <1>3, <1>4 DEF TasksInv, TasksTypeOK
<1>6. UseTrusts => Trusted(environment)
  BY <1>1 DEF TasksInv, TrustsKept
<1>7. TrustsKept'
  BY <1>2, <1>3, <1>4, <1>6 DEF TrustsKept, Trusted, AtWork
<1> QED  BY <1>5, <1>7 DEF TasksInv

\* Nothing happens to the trusts of a task that only goes from one place of
\* its work to the next.
LEMMA WorkKeeps ==
  ASSUME TasksInv, task' \in Tasks, task'.trust = task.trust,
         task'.model.trust = task.model.trust,
         task.at \in AtWork, task'.at \in {"enter", "load", "validate", "collect", "invoke", "finalize", "exit"},
         UNCHANGED <<environment, exists, keystone, issued, token>>
  PROVE  TasksInv'
<1>1. TasksTypeOK'
  BY DEF TasksInv, TasksTypeOK
<1>2. TrustsKept'
  BY DEF TasksInv, TrustsKept, AtWork
<1> QED  BY <1>1, <1>2 DEF TasksInv

\* Nor when it is given up.
LEMMA StuckKeeps ==
  ASSUME TasksInv, Goes("stuck"), keystone \subseteq keystone', issued \subseteq issued',
         keystone' \subseteq issued', issued' \subseteq Trusts,
         UNCHANGED <<environment, exists, token>>
  PROVE  TasksInv'
<1>1. task' \in Tasks /\ task'.at = "stuck"
  BY GoingOn DEF TasksInv, TasksTypeOK, Places
<1>2. TasksTypeOK'
  BY <1>1 DEF TasksInv, TasksTypeOK
<1>3. TrustsKept'
  BY <1>1 DEF TrustsKept, AtWork
<1> QED  BY <1>2, <1>3 DEF TasksInv

\* A task that goes on in its work and does nothing but go there.
LEMMA GoesKeeps ==
  ASSUME TasksInv, NEW p \in {"enter", "load", "validate", "collect", "invoke", "finalize", "exit"},
         Goes(p), task.at \in AtWork, UNCHANGED <<environment, exists, keystone, issued, token>>
  PROVE  TasksInv'
<1>1. p \in Places
  BY DEF Places
<1>2. /\ task' \in Tasks /\ task'.at = p /\ task'.model = task.model /\ task'.trust = task.trust
  BY <1>1, GoingOn DEF TasksInv, TasksTypeOK
<1> QED  BY <1>2, WorkKeeps

\* A task goes on with the trust of its model, if the engine uses trusts.
LEMMA KeepTrustKeeps ==
  ASSUME TaskAssumption, TasksInv, KeepTrust
  PROVE  TasksInv'
<1> DEFINE t == IF UseTrusts THEN task.model.trust ELSE NoTrust
<1>1. /\ task \in Tasks /\ task.at = "trust" /\ task.model.trust \in Trusts \cup {NoTrust}
  BY DEF TasksInv, TasksTypeOK, KeepTrust, Tasks, Models
<1>2. t \in Trusts \cup {NoTrust} /\ (UseTrusts => t = task.model.trust /\ t # NoTrust)
  BY <1>1 DEF KeepTrust, HasTrust
<1>3. task' = [task EXCEPT !.at = "enter", !.trust = t]
  BY DEF KeepTrust
<1> HIDE DEF t
<1>4. task' \in Tasks /\ task'.at = "enter" /\ task'.trust = t /\ task'.model = task.model
  BY <1>1, <1>2, <1>3 DEF Tasks, Places
<1>5. UNCHANGED <<environment, exists, keystone, issued, token>>
  BY DEF KeepTrust
<1>6. TasksTypeOK'
  BY <1>4, <1>5 DEF TasksInv, TasksTypeOK
<1>7. UseTrusts => task.model.trust \in keystone
  BY <1>1, <1>2 DEF TasksInv, TrustsKept, Trusted
<1>8. TrustsKept'
  BY <1>2, <1>4, <1>5, <1>7 DEF TrustsKept, AtWork
<1> QED  BY <1>6, <1>8 DEF TasksInv

\* Or with a new one, which the session and the model both get.
LEMMA CreateTrustKeeps ==
  ASSUME TaskAssumption, TasksInv, CreateTrust
  PROVE  TasksInv'
<1>1. /\ task \in Tasks /\ task.model \in Models /\ UNCHANGED <<environment, exists, token>>
      /\ issued \subseteq Trusts /\ keystone \subseteq issued
  BY DEF TasksInv, TasksTypeOK, CreateTrust, Tasks
<1>2. CASE \E t \in Trusts \ issued :
             /\ issued' = issued \cup {t} /\ keystone' = keystone \cup {t}
             /\ task' = [task EXCEPT !.at = "enter", !.trust = t, !.model.trust = t]
  <2>1. PICK t \in Trusts \ issued :
             /\ issued' = issued \cup {t} /\ keystone' = keystone \cup {t}
             /\ task' = [task EXCEPT !.at = "enter", !.trust = t, !.model.trust = t]
    BY <1>2
  <2> DEFINE m == [task.model EXCEPT !.trust = t]
  <2>2. m \in Models /\ m.trust = t
    BY <1>1, <2>1 DEF Models
  <2>3. task' = [task EXCEPT !.at = "enter", !.trust = t, !.model = m]
    BY <1>1, <2>1 DEF Tasks
  <2> HIDE DEF m
  <2>4. task' \in Tasks /\ task'.at = "enter" /\ task'.trust = t /\ task'.model = m
    BY <1>1, <2>2, <2>3 DEF Tasks, Places
  <2>5. TasksTypeOK'
    BY <1>1, <2>1, <2>4 DEF TasksInv, TasksTypeOK
  <2>6. TrustsKept'
    BY <2>1, <2>2, <2>4 DEF TrustsKept, AtWork
  <2> QED  BY <2>5, <2>6 DEF TasksInv
<1>3. CASE \E t \in Trusts \ issued :
             issued' = issued \cup {t} /\ keystone' = keystone \cup {t} /\ Goes("stuck")
  BY <1>1, <1>3, StuckKeeps
<1>4. CASE Goes("stuck") /\ UNCHANGED <<issued, keystone>>
  BY <1>1, <1>4, StuckKeeps
<1> QED  BY <1>2, <1>3, <1>4 DEF CreateTrust

\* The work itself leaves trusts alone.
LEMMA EngineKeeps ==
  ASSUME TasksInv, Enter \/ LoadModel \/ ValidateModel \/ Collect \/ Invoke \/ Finalize
  PROVE  TasksInv'
<1>1. /\ task \in Tasks /\ task.model \in Models /\ issued \subseteq Trusts /\ keystone \subseteq issued
      /\ UNCHANGED <<environment, exists, keystone, issued, token>>
      /\ task.at \in AtWork /\ task.model.objects \in SUBSET Things
      /\ task.model.deleted \in BOOLEAN
  BY DEF TasksInv, TasksTypeOK, Enter, LoadModel, ValidateModel, Collect, Invoke, Finalize,
         AtWork, Tasks, Models
<1>2. ASSUME Goes("stuck") PROVE TasksInv'
  BY <1>1, <1>2, StuckKeeps
<1>3. ASSUME NEW p \in {"enter", "load", "validate", "collect", "invoke", "finalize", "exit"}, Goes(p)
      PROVE  TasksInv'
  BY <1>1, <1>3, GoesKeeps
<1>4. CASE Enter
  BY <1>2, <1>3, <1>4 DEF Enter
<1>5. CASE LoadModel
  BY <1>3, <1>5 DEF LoadModel
<1>6. CASE ValidateModel
  BY <1>3, <1>6 DEF ValidateModel
<1>7. CASE Collect
  <2>1. CASE Goes("exit")
    BY <1>3, <2>1
  <2>2. CASE task' = [task EXCEPT !.at = IF task.action THEN "invoke" ELSE "exit",
                                  !.model.copy = task.model.objects,
                                  !.model.copied = ~task.model.deleted]
    <3> DEFINE m == [task.model EXCEPT !.copy = task.model.objects, !.copied = ~task.model.deleted]
               p == IF task.action THEN "invoke" ELSE "exit"
    <3>1. m \in Models /\ m.trust = task.model.trust
      BY <1>1 DEF Models
    <3>2. task' = [task EXCEPT !.at = p, !.model = m]
      BY <1>1, <2>2 DEF Tasks
    <3>3. p \in {"invoke", "exit"}
      OBVIOUS
    <3> HIDE DEF m, p
    <3>4. task' \in Tasks /\ task'.at = p /\ task'.trust = task.trust /\ task'.model = m
      BY <1>1, <3>1, <3>2, <3>3 DEF Tasks, Places
    <3> QED  BY <1>1, <3>1, <3>3, <3>4, WorkKeeps
  <2> QED  BY <1>7, <2>1, <2>2 DEF Collect
<1>8. CASE Invoke
  BY <1>3, <1>8 DEF Invoke
<1>9. CASE Finalize
  <2>1. CASE Goes("stuck")
    BY <1>2, <2>1
  <2>2. CASE \E used \in SUBSET task.model.objects :
                task' = [task EXCEPT !.at = "exit", !.model.objects = used,
                                     !.model.copy = used, !.model.copied = TRUE]
    <3>1. PICK used \in SUBSET task.model.objects :
                task' = [task EXCEPT !.at = "exit", !.model.objects = used,
                                     !.model.copy = used, !.model.copied = TRUE]
      BY <2>2
    <3> DEFINE m == [task.model EXCEPT !.objects = used, !.copy = used, !.copied = TRUE]
    <3>2. m \in Models /\ m.trust = task.model.trust
      BY <1>1 DEF Models
    <3>3. task' = [task EXCEPT !.at = "exit", !.model = m]
      BY <1>1, <3>1 DEF Tasks
    <3> HIDE DEF m
    <3>4. task' \in Tasks /\ task'.at = "exit" /\ task'.trust = task.trust /\ task'.model = m
      BY <1>1, <3>2, <3>3 DEF Tasks, Places
    <3> QED  BY <1>1, <3>2, <3>4, WorkKeeps
  <2> QED  BY <1>9, <2>1, <2>2 DEF Finalize
<1> QED  BY <1>4, <1>5, <1>6, <1>7, <1>8, <1>9

\* Only a task of which nothing is left goes on to revoke its trust.
LEMMA ExitKeeps ==
  ASSUME TasksInv, Exit
  PROVE  TasksInv'
<1> DEFINE p == IF NothingLeft(task.model) THEN "revoke" ELSE "result"
<1>1. /\ task \in Tasks /\ task.at = "exit" /\ issued \subseteq Trusts /\ keystone \subseteq issued
      /\ UNCHANGED <<environment, exists, keystone, issued, token>>
  BY DEF TasksInv, TasksTypeOK, Exit
<1>2. CASE Goes("stuck")
  BY <1>1, <1>2, StuckKeeps
<1>3. CASE Goes(p)
  <2>1. p \in {"revoke", "result"} /\ (p = "revoke" => NothingLeft(task.model))
    OBVIOUS
  <2> HIDE DEF p
  <2>2. p \in Places
    BY <2>1 DEF Places
  <2>3. /\ task' \in Tasks /\ task'.at = p /\ task'.model = task.model /\ task'.trust = task.trust
    BY <1>1, <1>3, <2>2, GoingOn
  <2>4. TasksTypeOK'
    BY <1>1, <2>3 DEF TasksInv, TasksTypeOK
  <2>5. UseTrusts => task.trust \in keystone /\ task.model.trust = task.trust
    BY <1>1 DEF TasksInv, TrustsKept, AtWork
  <2>6. NothingLeft(task.model)' <=> NothingLeft(task.model)
    BY <2>3 DEF NothingLeft
  <2>7. TrustsKept'
    BY <1>1, <2>1, <2>3, <2>5, <2>6 DEF TrustsKept, AtWork, Trusted
  <2> QED  BY <2>4, <2>7 DEF TasksInv
<1> QED  BY <1>2, <1>3 DEF Exit

\* And its environment is gone with its result.
LEMMA RevokeKeeps ==
  ASSUME TaskAssumption, TasksInv, Revoke
  PROVE  TasksInv'
<1>1. /\ task \in Tasks /\ task.model \in Models /\ task.at = "revoke"
      /\ UNCHANGED <<environment, exists, issued, token>> /\ keystone' \subseteq issued
      /\ issued \subseteq Trusts /\ task.model.trust \in Trusts \cup {NoTrust}
  BY DEF TasksInv, TasksTypeOK, Revoke, Tasks, Models
<1>2. UseTrusts => NothingLeft(task.model)
  BY <1>1 DEF TasksInv, TrustsKept
<1>3. /\ task' \in Tasks /\ task'.at = "result" /\ task'.model.deleted = task.model.deleted
      /\ task'.model.copied = task.model.copied
  <2>1. CASE task' = [task EXCEPT !.at = "result", !.trust = NoTrust,
                                  !.model.trust = IF task.trust # NoTrust THEN NoTrust ELSE @]
    <3> DEFINE t == IF task.trust # NoTrust THEN NoTrust ELSE task.model.trust
               m == [task.model EXCEPT !.trust = t]
    <3>1. t \in Trusts \cup {NoTrust}
      BY <1>1
    <3>2. task' = [task EXCEPT !.at = "result", !.trust = NoTrust, !.model = m]
      BY <1>1, <2>1 DEF Tasks
    <3> HIDE DEF t
    <3>3. m \in Models /\ m.deleted = task.model.deleted /\ m.copied = task.model.copied
      BY <1>1, <3>1 DEF Models
    <3> HIDE DEF m
    <3> QED  BY <1>1, <3>2, <3>3 DEF Tasks, Places
  <2>2. CASE Goes("result")
    BY <1>1, <2>2, GoingOn DEF Places
  <2> QED  BY <2>1, <2>2 DEF Revoke
<1>4. TasksTypeOK'
  BY <1>1, <1>3 DEF TasksInv, TasksTypeOK
<1>5. UseTrusts => NothingLeft(task.model)'
  BY <1>2, <1>3 DEF NothingLeft
<1>6. TrustsKept'
  BY <1>3, <1>5 DEF TrustsKept, AtWork
<1> QED  BY <1>4, <1>6 DEF TasksInv

\* What is delivered either goes with the environment or keeps its trust.
LEMMA DeliverKeeps ==
  ASSUME TasksInv, Deliver
  PROVE  TasksInv'
<1>1. /\ task \in Tasks /\ task.model \in Models /\ task.at = "result" /\ task' = NoTask
      /\ environment' = task.model /\ exists' = ~NothingLeft(task.model)
      /\ UNCHANGED <<keystone, issued, token>>
  BY DEF TasksInv, TasksTypeOK, Deliver, Tasks, NothingLeft
<1>2. TasksTypeOK'
  BY <1>1, TaskRecords DEF TasksInv, TasksTypeOK
<1>3. UseTrusts => NothingLeft(task.model) \/ Trusted(task.model)
  BY <1>1 DEF TasksInv, TrustsKept
<1>4. task'.at = "idle"
  BY <1>1, TaskRecords
<1>5. TrustsKept'
  BY <1>1, <1>3, <1>4 DEF TrustsKept, AtWork, Trusted
<1> QED  BY <1>2, <1>5 DEF TasksInv

\* Tasks start from an environment without a trust, and every step of the
\* engine and of those around it keeps what is said of the trusts.
LEMMA TasksInduction ==
    TasksSpec => []TasksInv
<1>1. TasksInit => TasksInv
  <2> SUFFICES ASSUME TasksInit PROVE TasksInv
    OBVIOUS
  <2>1. TasksTypeOK
    BY TaskRecords DEF TasksInit, TasksTypeOK
  <2>2. TrustsKept
    BY TaskRecords DEF TasksInit, TrustsKept, AtWork, Trusted
  <2> QED  BY <2>1, <2>2 DEF TasksInv
<1>2. TasksInv /\ [TasksNext]_tasking => TasksInv'
  <2> SUFFICES ASSUME TasksInv, [TasksNext]_tasking PROVE TasksInv'
    OBVIOUS
  <2>1. TaskAssumption
    BY TaskAssumption DEF TaskAssumption
  <2>2. CASE Expire
    BY <2>2 DEF Expire, TasksInv, TasksTypeOK, TrustsKept, Trusted
  <2>3. CASE Lose
    BY <2>3, StuckKeeps DEF Lose, TasksInv, TasksTypeOK
  <2>4. CASE UNCHANGED tasking
    BY <2>4 DEF tasking, TasksInv, TasksTypeOK, TrustsKept, Trusted
  <2> QED
    BY <2>1, <2>2, <2>3, <2>4, SubmitKeeps, KeepTrustKeeps, CreateTrustKeeps, EngineKeeps,
       ExitKeeps, RevokeKeeps, DeliverKeeps DEF TasksNext
<1> QED  BY <1>1, <1>2, PTL DEF TasksSpec

\* However long it takes, a task reaches the services of the cloud with the
\* trust of the environment (TaskExecutor._execute, _create_trust and
\* _delete_trust, auth_utils.get_client_session): while objects are loaded,
\* validated and destroyed and methods run, Keystone knows the trust, also
\* when a deletion failed and is tried again.
THEOREM TrustsOutliveObjects ==
    TasksSpec => []TrustOutlivesObjects
<1>1. TasksInv => TrustOutlivesObjects
  <2> SUFFICES ASSUME TasksInv, UseTrusts PROVE TrustOutlivesObjects
    BY DEF TrustOutlivesObjects
  <2>1. ASSUME task.at \in {"load", "validate", "collect", "invoke", "finalize"}
        PROVE  Authenticated
    <3>1. task.trust \in keystone /\ task.trust # NoTrust
      BY <2>1, TaskAssumption DEF TasksInv, TasksTypeOK, TrustsKept, AtWork
    <3> QED  BY <3>1 DEF Authenticated
  <2> QED  BY <2>1 DEF TasksInv, TrustsKept, Trusted, TrustOutlivesObjects
<1> QED  BY <1>1, TasksInduction, PTL

-----------------------------------------------------------------------------
(* Heat stacks *)

\* What a template may hold, what a stack may be, and what a thread may do.
Holding == SUBSET (Resources \cup {"version"})
Statuses == Settled \cup {"CREATE_IN_PROGRESS", "UPDATE_IN_PROGRESS", "DELETE_IN_PROGRESS"}
HeatCalls == [in : {"none", "update", "reload", "output", "push", "delete"},
          pc : {"rest", "load", "wait", "status", "send", "finish", "delete", "senddelete",
                "deleted", "done"},
          update : Holding, copy : Holding, status : Statuses \cup {"none"},
          goal : SUBSET Statuses, progress : BOOLEAN, tries : Int,
          next : {"none", "send", "finish", "senddelete", "deleted", "done"}]
Stacks == [status : Statuses, template : Holding, stamp : Nat]

HeatTypeOK ==
    /\ template \in Holding \cup {Unknown} /\ applied \in BOOLEAN /\ raced \in BOOLEAN
    /\ stack \in Stacks /\ operations \in Nat

Waits(w, next) == w.pc = "wait" /\ w.next = next
Deleting(w) == Waits(w, "deleted") \/ w.pc = "deleted"

\* The paths of the methods: only a push asks for the status first and then
\* creates or updates, and it deletes when what it has is empty.
Shape(w) ==
    /\ w.in = "none" <=> w.pc = "rest"
    /\ w.pc = "wait" => w.next # "none"
    /\ w.pc \in {"status", "send", "finish"} \/ Waits(w, "send") \/ Waits(w, "finish") => w.in = "push"
    /\ w.in = "push" => "version" \in w.copy
    /\ /\ w.in = "push"
       /\ w.pc \in {"load", "delete", "senddelete", "deleted"} \/ Waits(w, "senddelete") \/ Waits(w, "deleted")
       => ~HasResources(w.copy)
    /\ Waits(w, "deleted") => w.goal = {"NOT_FOUND"}

InHeat == template \ {"version"} = stack.template \ {"version"}

\* What a thread that nobody disturbed knows of the stack and of the object.
Knows(w) ==
    /\ w.pc \in {"status", "send"} \/ Waits(w, "send") => ~applied
    /\ w.pc = "send" => w.status = stack.status /\ ~InProgress
    /\ Waits(w, "finish") => stack.template = w.copy
    /\ w.pc = "finish" =>
          \/ w.copy \ {"version"} = stack.template \ {"version"}
          \/ "version" \notin template
    /\ w.pc = "deleted" => stack.status = "NOT_FOUND"

\* A deletion that Heat is at work on, and one that it has done, are somebody's
\* who waits for it.
DeletesAreAwaited ==
    stack.status = "DELETE_IN_PROGRESS" => \E c \in Callers : Waits(caller[c], "deleted")
AppliedOrDeleting ==
    applied /\ template # Unknown => InHeat \/ \E c \in Callers : Deleting(caller[c])

HeatInv ==
    /\ HeatTypeOK
    /\ caller \in [Callers -> HeatCalls]
    /\ \A c \in Callers : Shape(caller[c])
    /\ stack.status = "NOT_FOUND" => stack.template = {}
    /\ ~raced =>
          /\ \A c, d \in Callers : caller[c].in # "none" /\ caller[d].in # "none" => c = d
          /\ \A c \in Callers : Knows(caller[c])
          /\ DeletesAreAwaited
          /\ AppliedOrDeleting

\* A thread that waits for Heat undisturbed is the only one that does.
LEMMA OnlyOne ==
  ASSUME HeatInv, ~raced, NEW c \in Callers, caller[c].in # "none" \/ Busy = {}
  PROVE  /\ \A d \in Callers \ {c} : caller[d].in = "none" /\ caller[d].pc = "rest"
         /\ Knows(caller[c])
         /\ stack.status = "DELETE_IN_PROGRESS" => Waits(caller[c], "deleted")
         /\ applied /\ template # Unknown => InHeat \/ Deleting(caller[c])
<1>1. \A d \in Callers \ {c} : caller[d].in = "none" /\ caller[d].pc = "rest"
  BY DEF HeatInv, Shape, Busy
<1>2. \A d \in Callers \ {c} : ~Deleting(caller[d]) /\ ~Waits(caller[d], "deleted")
  BY <1>1 DEF Deleting, Waits
<1> QED  BY <1>1, <1>2 DEF HeatInv, DeletesAreAwaited, AppliedOrDeleting

\* So it is enough to look at it when it takes a step.
LEMMA ThreadStep ==
  ASSUME HeatInv, NEW c \in Callers,
         caller' = [caller EXCEPT ![c] = caller'[c]],
         caller'[c] \in HeatCalls, Shape(caller[c])', HeatTypeOK',
         stack'.status = "NOT_FOUND" => stack'.template = {},
         ~raced' =>
            /\ ~raced /\ (caller[c].in # "none" \/ Busy = {})
            /\ Knows(caller[c])'
            /\ stack'.status = "DELETE_IN_PROGRESS" => Waits(caller[c], "deleted")'
            /\ applied' /\ template' # Unknown => InHeat' \/ Deleting(caller[c])'
  PROVE  HeatInv'
<1>1. caller \in [Callers -> HeatCalls]
  BY DEF HeatInv
<1>2. caller' \in [Callers -> HeatCalls] /\ \A d \in Callers \ {c} : caller'[d] = caller[d]
  BY <1>1
<1>3. \A d \in Callers : Shape(caller[d])'
  <2> TAKE d \in Callers
  <2>1. CASE d = c
    BY <2>1
  <2>2. CASE d # c
    BY <1>2, <2>2 DEF HeatInv, Shape, Waits
  <2> QED  BY <2>1, <2>2
<1>4. ASSUME ~raced'
      PROVE  /\ \A a, b \in Callers : caller'[a].in # "none" /\ caller'[b].in # "none" => a = b
             /\ \A d \in Callers : Knows(caller[d])'
             /\ DeletesAreAwaited'
             /\ AppliedOrDeleting'
  <2>1. \A d \in Callers \ {c} : caller[d].in = "none" /\ caller[d].pc = "rest"
    BY <1>4, OnlyOne
  <2>2. \A d \in Callers \ {c} : caller'[d].in = "none" /\ caller'[d].pc = "rest"
    BY <2>1, <1>2
  <2>3. \A d \in Callers \ {c} : Knows(caller[d])'
    BY <2>2 DEF Knows, Waits
  <2>4. \A d \in Callers : Knows(caller[d])'
    <3> TAKE d \in Callers
    <3>1. CASE d = c
      BY <1>4, <3>1
    <3>2. CASE d # c
      BY <2>3, <3>2
    <3> QED  BY <3>1, <3>2
  <2>5. DeletesAreAwaited'
    BY <1>4 DEF DeletesAreAwaited
  <2>6. AppliedOrDeleting'
    BY <1>4 DEF AppliedOrDeleting
  <2> QED  BY <2>2, <2>4, <2>5, <2>6
<1> QED  BY <1>2, <1>3, <1>4 DEF HeatInv

\* Templates are set and merged by methods that do not wait.
LEMMA SettingKeeps ==
  ASSUME HeatInv, UNCHANGED <<stack, operations, raced>>, caller' = caller,
         template' \in Holding \cup {Unknown}, applied' \in BOOLEAN,
         "version" \in template' => "version" \in template,
         applied' => applied /\ template' = template
  PROVE  HeatInv'
<1>1. HeatTypeOK'
  BY DEF HeatInv, HeatTypeOK
<1>2. \A c \in Callers : Shape(caller[c])'
  BY DEF HeatInv, Shape, Waits
<1>3. ASSUME ~raced'
      PROVE  /\ \A c \in Callers : Knows(caller[c])'
             /\ DeletesAreAwaited' /\ AppliedOrDeleting'
  <2>1. /\ \A c \in Callers : Knows(caller[c])
        /\ DeletesAreAwaited
        /\ AppliedOrDeleting
    BY <1>3 DEF HeatInv
  <2>2. \A c \in Callers : Knows(caller[c])'
    BY <2>1 DEF Knows, Waits, InProgress
  <2>3. DeletesAreAwaited'
    BY <2>1 DEF DeletesAreAwaited, Waits
  <2>4. AppliedOrDeleting'
    BY <2>1 DEF AppliedOrDeleting, InHeat, Deleting, Waits
  <2> QED  BY <2>2, <2>3, <2>4
<1> QED  BY <1>1, <1>2, <1>3 DEF HeatInv

\* What a call that waits for Heat begins with.
LEMMA CallBegins ==
  ASSUME HeatInv, NEW c \in Callers, NEW r \in HeatCalls, Call(c, r), Overlaps, Shape(r),
         r.pc \in {"load", "status", "delete"} \/ (r.pc = "wait" /\ r.next = "done"),
         r.pc = "status" => ~applied,
         UNCHANGED <<applied, stack, operations>>,
         template' \in Holding \cup {Unknown},
         applied /\ template' # Unknown => template' = template
  PROVE  HeatInv'
<1>1. /\ caller \in [Callers -> HeatCalls] /\ caller[c].in = "none" /\ HeatTypeOK
      /\ caller' = [caller EXCEPT ![c] = r]
  BY DEF HeatInv, Call, Become
<1>2. caller'[c] = r
  BY <1>1
<1>3. Shape(caller[c])'
  BY <1>2 DEF Shape, Waits
<1>4. HeatTypeOK' /\ (~raced' => ~raced /\ Busy = {})
  BY <1>1 DEF HeatTypeOK, Overlaps
<1>5. ASSUME ~raced'
      PROVE  /\ Knows(caller[c])'
             /\ stack'.status = "DELETE_IN_PROGRESS" => Waits(caller[c], "deleted")'
             /\ applied' /\ template' # Unknown => InHeat' \/ Deleting(caller[c])'
  <2>1. /\ stack.status = "DELETE_IN_PROGRESS" => Waits(caller[c], "deleted")
        /\ applied /\ template # Unknown => InHeat \/ Deleting(caller[c])
        /\ caller[c].pc = "rest"
    BY <1>1, <1>4, <1>5, OnlyOne DEF HeatInv, Shape
  <2>2. ~Waits(caller[c], "deleted") /\ ~Deleting(caller[c])
    BY <2>1 DEF Deleting, Waits
  <2>3. Knows(caller[c])'
    BY <1>2 DEF Knows, Waits
  <2> QED  BY <2>1, <2>2, <2>3 DEF InHeat
<1>6. stack'.status = "NOT_FOUND" => stack'.template = {}
  BY DEF HeatInv
<1> QED  BY <1>1, <1>2, <1>3, <1>4, <1>5, <1>6, ThreadStep

\* A thread at rest.
LEMMA Rested ==
    /\ Resting \in HeatCalls /\ Shape(Resting)
    /\ Resting.in = "none" /\ Resting.pc = "rest" /\ Resting.next = "none" /\ Resting.copy = {}
  BY DEF Resting, HeatCalls, Shape, Waits, Holding, Statuses, Settled

\* Whoever begins a method finds the invariant and leaves it.
LEMMA BeginKeeps ==
  ASSUME HeatAssumption, HeatInv, NEW c \in Callers,
         Set(c) \/ BeginUpdateTemplate(c) \/ Reload(c) \/ Output(c) \/ BeginPush(c) \/ BeginStackDelete(c)
  PROVE  HeatInv'
<1>1. /\ caller \in [Callers -> HeatCalls] /\ HeatTypeOK /\ Templates \subseteq Holding
      /\ \A t \in Templates : "version" \notin t
  BY DEF HeatInv, Templates, Holding, HeatAssumption
<1>2. [caller EXCEPT ![c] = caller[c]] = caller
  BY <1>1
<1>3. CASE Set(c)
  BY <1>1, <1>2, <1>3, SettingKeeps DEF Set, Call, Become, HeatTypeOK
<1>4. CASE BeginUpdateTemplate(c)
  <2>1. PICK update \in Templates :
          IF template = Unknown
          THEN /\ Call(c, [Resting EXCEPT !.in = "update", !.pc = "load", !.update = update])
               /\ Overlaps /\ UNCHANGED <<template, applied, stamps, stack, operations>>
          ELSE /\ Call(c, caller[c]) /\ Merge(template, update)
               /\ UNCHANGED <<stamps, stack, operations, raced>>
    BY <1>4 DEF BeginUpdateTemplate
  <2>2. CASE template = Unknown
    <3> DEFINE r == [Resting EXCEPT !.in = "update", !.pc = "load", !.update = update]
    <3>1. r \in HeatCalls /\ Shape(r) /\ r.pc = "load"
        <4>1. /\ r \in HeatCalls
              /\ r.in = "update" /\ r.pc = "load" /\ r.next = "none"
          BY Rested, <1>1, <2>1 DEF HeatCalls, Holding, Statuses, Settled
        <4> HIDE DEF r
        <4> QED  BY Rested, <1>1, <2>1, <4>1 DEF Shape, Waits
    <3>2. Call(c, r) /\ Overlaps /\ UNCHANGED <<template, applied, stack, operations>>
      BY <2>1, <2>2
    <3> HIDE DEF r
    <3>3. template' \in Holding \cup {Unknown}
      BY <1>1, <3>2 DEF HeatTypeOK
    <3> QED  BY <3>1, <3>2, <3>3, CallBegins
  <2>3. CASE template # Unknown
    <3>1. /\ caller' = caller /\ template' = template \cup update
          /\ applied' = (template' = template /\ applied)
          /\ UNCHANGED <<stack, operations, raced>>
      BY <1>2, <2>1, <2>3 DEF Call, Become, Merge
    <3>2. template \in Holding /\ update \in Holding /\ "version" \notin update /\ applied \in BOOLEAN
      BY <1>1, <2>1, <2>3 DEF HeatTypeOK
    <3>3. template' \in Holding
      BY <3>1, <3>2 DEF Holding
    <3> QED  BY <3>1, <3>2, <3>3, SettingKeeps
  <2> QED  BY <2>2, <2>3
<1>5. CASE Reload(c)
  <2> DEFINE r == [Resting EXCEPT !.in = "reload", !.pc = "load"]
  <2>1. r \in HeatCalls /\ Shape(r) /\ r.pc = "load"
      <3>1. /\ r \in HeatCalls
            /\ r.in = "reload" /\ r.pc = "load" /\ r.next = "none"
        BY Rested DEF HeatCalls, Holding, Statuses, Settled
      <3> HIDE DEF r
      <3> QED  BY Rested, <3>1 DEF Shape, Waits
  <2>2. Call(c, r) /\ Overlaps /\ template' = Unknown /\ UNCHANGED <<applied, stack, operations>>
    BY <1>5 DEF Reload
  <2> HIDE DEF r
  <2> QED  BY <2>1, <2>2, CallBegins
<1>6. CASE Output(c)
  <2> DEFINE r == [Resting EXCEPT !.in = "output", !.pc = "wait", !.goal = Settled,
                               !.tries = Tries, !.next = "done"]
  <2>1. r \in HeatCalls /\ Shape(r) /\ r.pc = "wait" /\ r.next = "done"
      <3>1. Settled \in SUBSET Statuses /\ Tries \in Int
      BY DEF Statuses, Tries
    <3>2. r \in HeatCalls /\ r.in = "output" /\ r.pc = "wait" /\ r.next = "done"
      BY Rested, <3>1 DEF HeatCalls
    <3> HIDE DEF r
      <3> QED  BY <3>2 DEF Shape, Waits
  <2>2. Call(c, r) /\ Overlaps /\ UNCHANGED <<template, applied, stack, operations>>
    BY <1>6 DEF Output
  <2> HIDE DEF r
  <2>3. template' \in Holding \cup {Unknown}
    BY <1>1, <2>2 DEF HeatTypeOK
  <2> QED  BY <2>1, <2>2, <2>3, CallBegins
<1>7. CASE BeginPush(c)
  <2> DEFINE t == template \cup {"version"}
             r == [Resting EXCEPT !.in = "push", !.copy = t, !.pc = "status"]
  <2>1. ~applied /\ template \in Holding
    BY <1>1, <1>7 DEF BeginPush, HeatTypeOK
  <2>2. t \in Holding /\ "version" \in t
    BY <2>1 DEF Holding
  <2>3. template' = t
    BY <1>7 DEF BeginPush
  <2>4. Call(c, r) /\ Overlaps /\ UNCHANGED <<applied, stack, operations>>
    BY <1>7, <2>3 DEF BeginPush
  <2> HIDE DEF t
  <2>5. r \in HeatCalls /\ Shape(r) /\ r.pc = "status"
      <3>1. /\ r \in HeatCalls
            /\ r.in = "push" /\ r.pc = "status" /\ r.next = "none" /\ r.copy = t
        BY Rested, <2>2 DEF HeatCalls, Holding, Statuses, Settled
      <3> HIDE DEF r
      <3> QED  BY Rested, <2>2, <3>1 DEF Shape, Waits
  <2> HIDE DEF r
  <2> QED  BY <2>1, <2>2, <2>3, <2>4, <2>5, CallBegins
<1>8. CASE BeginStackDelete(c)
  <2> DEFINE r == [Resting EXCEPT !.in = "delete", !.pc = "delete"]
  <2>1. r \in HeatCalls /\ Shape(r) /\ r.pc = "delete"
      <3>1. /\ r \in HeatCalls
            /\ r.in = "delete" /\ r.pc = "delete" /\ r.next = "none"
        BY Rested DEF HeatCalls, Holding, Statuses, Settled
      <3> HIDE DEF r
      <3> QED  BY Rested, <3>1 DEF Shape, Waits
  <2>2. Call(c, r) /\ Overlaps /\ UNCHANGED <<template, applied, stack, operations>>
    BY <1>8 DEF BeginStackDelete
  <2> HIDE DEF r
  <2>3. template' \in Holding \cup {Unknown}
    BY <1>1, <2>2 DEF HeatTypeOK
  <2> QED  BY <2>1, <2>2, <2>3, CallBegins
<1> QED  BY <1>3, <1>4, <1>5, <1>6, <1>7, <1>8

\* What a step of a thread that is busy with Heat may be: to a state r, with
\* the stack, the template and the flag as they were.
LEMMA StateKept ==
  ASSUME HeatInv, NEW c \in Callers, Become(c, caller'[c]), caller'[c] \in HeatCalls, Shape(caller[c])',
         caller[c].in # "none", UNCHANGED <<template, applied, stack, operations>>,
         raced' \in BOOLEAN, raced => raced',
         ~raced' => Knows(caller[c])' /\ (Deleting(caller[c]) => Deleting(caller[c])'),
         ~raced' => (stack.status = "DELETE_IN_PROGRESS" /\ Waits(caller[c], "deleted") => Waits(caller[c], "deleted")')
  PROVE  HeatInv'
<1>1. HeatTypeOK' /\ (stack'.status = "NOT_FOUND" => stack'.template = {})
  BY DEF HeatInv, HeatTypeOK
<1>2. ASSUME ~raced'
      PROVE  /\ ~raced
             /\ stack'.status = "DELETE_IN_PROGRESS" => Waits(caller[c], "deleted")'
             /\ applied' /\ template' # Unknown => InHeat' \/ Deleting(caller[c])'
  <2>1. /\ ~raced
        /\ stack.status = "DELETE_IN_PROGRESS" => Waits(caller[c], "deleted")
        /\ applied /\ template # Unknown => InHeat \/ Deleting(caller[c])
    BY <1>2, OnlyOne
  <2> QED  BY <1>2, <2>1 DEF InHeat
<1> QED  BY <1>1, <1>2, ThreadStep DEF Become

\* The parts of a call that a step may change.
LEMMA CallFields ==
  ASSUME NEW w \in HeatCalls
  PROVE  /\ w.in \in {"none", "update", "reload", "output", "push", "delete"}
         /\ w.copy \in Holding /\ w.goal \in SUBSET Statuses /\ w.tries \in Int
         /\ w.status \in Statuses \cup {"none"}
         /\ w.pc \in {"rest", "load", "wait", "status", "send", "finish", "delete", "senddelete",
                      "deleted", "done"}
         /\ w.next \in {"none", "send", "finish", "senddelete", "deleted", "done"}
  BY DEF HeatCalls

\* To another place in the method.
LEMMA ToAnother ==
  ASSUME HeatInv, NEW c \in Callers,
         NEW p \in {"status", "finish", "delete", "deleted", "load"}
  PROVE  /\ To(c, p) \in HeatCalls
         /\ To(c, p).pc = p /\ To(c, p).in = caller[c].in /\ To(c, p).copy = caller[c].copy
  BY DEF HeatInv, To, HeatCalls

\* To wait for Heat.
LEMMA ToWait ==
  ASSUME HeatInv, NEW c \in Callers, NEW g, g \subseteq Statuses, NEW b, b \in BOOLEAN,
         NEW n, n \in {"send", "finish", "senddelete", "deleted", "done"}
  PROVE  /\ Await(c, g, b, n) \in HeatCalls
         /\ Await(c, g, b, n).pc = "wait" /\ Await(c, g, b, n).next = n
         /\ Await(c, g, b, n).goal = g
         /\ Await(c, g, b, n).in = caller[c].in /\ Await(c, g, b, n).copy = caller[c].copy
<1>1. Tries \in Int
  BY DEF Tries
<1>2. caller[c] \in HeatCalls
  BY DEF HeatInv
<1> DEFINE w == caller[c]
<1>3. Await(c, g, b, n) = [w EXCEPT !.pc = "wait", !.goal = g, !.progress = b, !.tries = Tries,
                                    !.next = n]
  BY DEF Await
<1> HIDE DEF w
<1>4. w \in HeatCalls
  BY <1>2 DEF w
<1>5. Await(c, g, b, n) \in HeatCalls
  BY <1>1, <1>3, <1>4 DEF HeatCalls
<1>6. /\ Await(c, g, b, n).pc = "wait" /\ Await(c, g, b, n).next = n
      /\ Await(c, g, b, n).goal = g
      /\ Await(c, g, b, n).in = w.in /\ Await(c, g, b, n).copy = w.copy
  BY <1>3, <1>4 DEF HeatCalls
<1> QED  BY <1>5, <1>6 DEF w

\* A method that ends with an error: a deletion that was under way counts as
\* given up.
LEMMA RaiseKeeps ==
  ASSUME HeatInv, NEW c \in Callers, caller[c].in # "none", Raise(c), caller[c].pc # "deleted",
         UNCHANGED <<template, applied, stack, operations>>
  PROVE  HeatInv'
<1>1. /\ caller \in [Callers -> HeatCalls] /\ caller' = [caller EXCEPT ![c] = Resting]
      /\ raced' = (raced \/ caller[c].next = "deleted") /\ raced \in BOOLEAN
  BY DEF HeatInv, HeatTypeOK, Raise, Become
<1>2. caller'[c] = Resting /\ Become(c, caller'[c])
  BY <1>1 DEF Become
<1>3. Shape(caller[c])' /\ Knows(caller[c])' /\ caller'[c] \in HeatCalls
  BY <1>2, Rested DEF Shape, Knows, Waits
<1>4. ~raced' => ~Deleting(caller[c]) /\ ~Waits(caller[c], "deleted")
  BY <1>1 DEF Deleting, Waits
<1> QED  BY <1>1, <1>2, <1>3, <1>4, StateKept

\* Steps after which the stack, the template and the flag are as before and
\* the thread is not yet, or no longer, deleting.
LEMMA GoesToKeeps ==
  ASSUME HeatInv, NEW c \in Callers, caller[c].in # "none", ~Deleting(caller[c]),
         Become(c, caller'[c]), caller'[c] \in HeatCalls, Shape(caller[c])',
         UNCHANGED <<template, applied, stack, operations, raced>>,
         ~raced /\ Knows(caller[c]) => Knows(caller[c])'
  PROVE  HeatInv'
<1>1. ~raced' => Knows(caller[c])'
  BY DEF HeatInv
<1>2. raced' \in BOOLEAN /\ (raced => raced')
  BY DEF HeatInv, HeatTypeOK
<1> QED  BY <1>1, <1>2, StateKept DEF Deleting

\* Heat's answers.
LEMMA PollKeeps ==
  ASSUME HeatInv, NEW c \in Callers, Poll(c) \/ PollFails(c)
  PROVE  HeatInv'
<1>1. /\ caller \in [Callers -> HeatCalls] /\ caller[c] \in HeatCalls /\ caller[c].pc = "wait"
      /\ Shape(caller[c]) /\ raced \in BOOLEAN
      /\ UNCHANGED <<template, applied, stack, operations>>
      /\ caller[c].in # "none" /\ caller[c].pc # "deleted"
  BY DEF HeatInv, HeatTypeOK, Poll, PollFails, Shape
<1>2. CASE Raise(c)
  BY <1>1, <1>2, RaiseKeeps
<1>3. ASSUME NEW k \in Int, UNCHANGED raced, Become(c, [caller[c] EXCEPT !.tries = k])
      PROVE  HeatInv'
  <2>1. caller'[c] = [caller[c] EXCEPT !.tries = k]
    BY <1>1, <1>3 DEF Become
  <2>2. /\ caller'[c] \in HeatCalls /\ caller'[c].pc = caller[c].pc /\ caller'[c].in = caller[c].in
        /\ caller'[c].next = caller[c].next /\ caller'[c].goal = caller[c].goal
        /\ caller'[c].copy = caller[c].copy
    BY <1>1, <2>1 DEF HeatCalls
  <2>3. Shape(caller[c])'
    BY <1>1, <2>2 DEF Shape, Waits, HasResources
  <2>4. ~raced' => Knows(caller[c])'
    BY <1>1, <1>3, <2>2 DEF HeatInv, Knows, Waits
  <2>5. /\ Deleting(caller[c]) => Deleting(caller[c])'
        /\ Waits(caller[c], "deleted") => Waits(caller[c], "deleted")'
    BY <2>2 DEF Deleting, Waits
  <2>6. Become(c, caller'[c])
    BY <1>3, <2>1 DEF Become
  <2> QED  BY <1>1, <1>3, <2>2, <2>3, <2>4, <2>5, <2>6, StateKept
<1>4. CASE PollFails(c)
  <2>1. CASE caller[c].tries = 1
    BY <1>2, <1>4, <2>1 DEF PollFails
  <2>2. CASE caller[c].tries # 1
    <3>1. caller[c].tries - 1 \in Int
      BY <1>1, CallFields
    <3>2. UNCHANGED raced /\ Become(c, [caller[c] EXCEPT !.tries = caller[c].tries - 1])
      BY <1>4, <2>2 DEF PollFails
    <3> QED  BY <3>1, <3>2, <1>3
  <2> QED  BY <2>1, <2>2
<1>5. CASE Poll(c)
  <2> DEFINE r == [caller[c] EXCEPT !.pc = caller[c].next, !.status = stack.status, !.next = "none"]
  <2>1. \/ Become(c, [caller[c] EXCEPT !.tries = Tries]) /\ UNCHANGED raced
        \/ ~InProgress /\ stack.status \in caller[c].goal /\ Become(c, r) /\ UNCHANGED raced
        \/ Raise(c)
    BY <1>5 DEF Poll
  <2>2. CASE Become(c, [caller[c] EXCEPT !.tries = Tries]) /\ UNCHANGED raced
    <3>1. Tries \in Int
      BY DEF Tries
    <3> QED  BY <2>2, <3>1, <1>3
  <2>3. CASE ~InProgress /\ stack.status \in caller[c].goal /\ Become(c, r) /\ UNCHANGED raced
    <3>1. caller'[c] = r
      BY <1>1, <2>3 DEF Become
    <3>2. caller[c].next \in {"send", "finish", "senddelete", "deleted", "done"}
      BY <1>1, CallFields DEF Shape
    <3>3. stack.status \in Statuses
      BY DEF HeatInv, HeatTypeOK, Stacks
    <3>4. /\ caller'[c] \in HeatCalls
          /\ caller'[c].pc = caller[c].next /\ caller'[c].status = stack.status
          /\ caller'[c].next = "none" /\ caller'[c].in = caller[c].in
          /\ caller'[c].copy = caller[c].copy /\ caller'[c].goal = caller[c].goal
      BY <1>1, <3>1, <3>2, <3>3 DEF HeatCalls
    <3>5. Shape(caller[c])'
      BY <1>1, <3>2, <3>4 DEF Shape, Waits, HasResources
    <3>6. ASSUME ~raced PROVE Knows(caller[c])'
      <4>1. Knows(caller[c])
        BY <3>6 DEF HeatInv
      <4>2. caller[c].next = "deleted" => stack.status = "NOT_FOUND"
        BY <1>1, <2>3 DEF Shape, Waits
      <4> QED  BY <1>1, <2>3, <3>2, <3>4, <4>1, <4>2 DEF Knows, Waits, InProgress
    <3>7. Deleting(caller[c]) => Deleting(caller[c])'
      BY <1>1, <3>4 DEF Deleting, Waits
    <3>8. Waits(caller[c], "deleted") => stack.status # "DELETE_IN_PROGRESS"
      BY <1>1, <2>3 DEF Shape, InProgress, Settled
    <3>9. Become(c, caller'[c]) /\ raced' = raced
      BY <2>3, <3>1
    <3> QED  BY <1>1, <3>4, <3>5, <3>6, <3>7, <3>8, <3>9, StateKept
  <2> QED  BY <2>1, <2>2, <2>3, <1>2
<1> QED  BY <1>4, <1>5

\* What was loaded is what Heat has.
LEMMA LoadKeeps ==
  ASSUME HeatInv, NEW c \in Callers, Load(c)
  PROVE  HeatInv'
<1>1. /\ caller \in [Callers -> HeatCalls] /\ caller[c] \in HeatCalls /\ caller[c].pc = "load"
      /\ Shape(caller[c]) /\ HeatTypeOK /\ caller[c].in # "none"
      /\ UNCHANGED <<stack, operations, raced>>
      /\ stack.template \in Holding
  BY DEF HeatInv, HeatTypeOK, Load, Shape, Stacks
<1>2. Loaded \in Holding /\ Loaded = stack.template
  BY <1>1 DEF Loaded, Holding, HeatInv
<1>3. /\ template' \in Holding /\ applied' \in BOOLEAN
      /\ applied' => template' = stack.template
  <2>1. caller[c].update \in Holding
    BY <1>1 DEF HeatCalls
  <2> QED  BY <1>1, <1>2, <2>1 DEF Load, Holding
<1>4. \/ Become(c, Resting)
      \/ Become(c, To(c, "delete")) /\ caller[c].in \notin {"update", "reload"}
  BY DEF Load
<1>5. /\ caller' = [caller EXCEPT ![c] = caller'[c]] /\ caller'[c] \in HeatCalls
      /\ caller'[c].pc \in {"rest", "delete"} /\ Shape(caller[c])'
  <2>1. CASE Become(c, Resting)
    <3>1. caller'[c] = Resting /\ caller' = [caller EXCEPT ![c] = caller'[c]]
      BY <1>1, <2>1 DEF Become
    <3> QED  BY <3>1, Rested DEF Shape, Waits
  <2>2. CASE Become(c, To(c, "delete"))
    <3>1. caller'[c] = To(c, "delete") /\ caller' = [caller EXCEPT ![c] = caller'[c]]
      BY <1>1, <2>2 DEF Become
    <3>2. /\ caller'[c] \in HeatCalls
          /\ caller'[c].pc = "delete" /\ caller'[c].in = caller[c].in
          /\ caller'[c].copy = caller[c].copy
      BY <3>1, ToAnother
    <3> QED  BY <1>1, <3>1, <3>2 DEF Shape, Waits, HasResources
  <2> QED  BY <1>4, <2>1, <2>2
<1>6. HeatTypeOK' /\ (stack'.status = "NOT_FOUND" => stack'.template = {})
  BY <1>1, <1>3 DEF HeatInv, HeatTypeOK
<1>7. ASSUME ~raced'
      PROVE  /\ ~raced /\ (caller[c].in # "none" \/ Busy = {})
             /\ Knows(caller[c])'
             /\ stack'.status = "DELETE_IN_PROGRESS" => Waits(caller[c], "deleted")'
             /\ applied' /\ template' # Unknown => InHeat' \/ Deleting(caller[c])'
  <2>1. ~raced /\ (stack.status = "DELETE_IN_PROGRESS" => Waits(caller[c], "deleted"))
    BY <1>1, <1>7, OnlyOne
  <2>2. ~Waits(caller[c], "deleted")
    BY <1>1 DEF Waits
  <2>3. Knows(caller[c])'
    BY <1>5 DEF Knows, Waits
  <2> QED  BY <1>1, <1>3, <2>1, <2>2, <2>3 DEF InHeat
<1> QED  BY <1>5, <1>6, <1>7, ThreadStep

\* A push asks for the status and sends what it has while nothing counts as
\* applied.
LEMMA SendKeeps ==
  ASSUME HeatInv, NEW c \in Callers, GetStatus(c) \/ Send(c)
  PROVE  HeatInv'
<1>1. /\ caller \in [Callers -> HeatCalls] /\ caller[c] \in HeatCalls /\ caller[c].pc \in {"status", "send"}
      /\ Shape(caller[c]) /\ HeatTypeOK /\ caller[c].in = "push" /\ "version" \in caller[c].copy
      /\ ~Deleting(caller[c]) /\ ~Waits(caller[c], "deleted")
  BY DEF HeatInv, GetStatus, Send, Shape, Deleting, Waits
<1>2. ~raced => Knows(caller[c]) /\ ~applied
  BY <1>1 DEF HeatInv, Knows
<1>3. ASSUME NEW p \in {"status", "finish", "delete"}, Become(c, To(c, p)),
             UNCHANGED <<template, applied, stack, operations, raced>>,
             p = "delete" => ~HasResources(caller[c].copy),
             ~raced /\ p = "finish" => caller[c].copy \ {"version"} = stack.template \ {"version"}
      PROVE  HeatInv'
  <2>1. caller'[c] = To(c, p) /\ Become(c, caller'[c])
    BY <1>1, <1>3 DEF Become
  <2>2. /\ caller'[c] \in HeatCalls /\ caller'[c].pc = p /\ caller'[c].in = "push"
        /\ caller'[c].copy = caller[c].copy
    BY <1>1, <1>3, <2>1, ToAnother
  <2>3. Shape(caller[c])'
    BY <1>1, <1>3, <2>2 DEF Shape, Waits, HasResources
  <2>4. ~raced => Knows(caller[c])'
    BY <1>2, <1>3, <2>2 DEF Knows, Waits
  <2> QED  BY <1>1, <1>3, <2>1, <2>2, <2>3, <2>4, GoesToKeeps
<1>4. CASE GetStatus(c)
  <2>0. PICK b \in BOOLEAN : b = FALSE
    OBVIOUS
  <2>1. /\ caller'[c] = Await(c, Settled, b, "send") /\ Become(c, caller'[c])
        /\ UNCHANGED <<template, applied, stack, operations, raced>>
    BY <2>0, <1>1, <1>4 DEF GetStatus, Become
  <2>2. Settled \subseteq Statuses
    BY DEF Statuses
  <2>3. /\ caller'[c] \in HeatCalls /\ caller'[c].pc = "wait" /\ caller'[c].next = "send"
        /\ caller'[c].in = "push" /\ caller'[c].copy = caller[c].copy
    BY <1>1, <2>1, <2>2, <2>0, ToWait
  <2>4. Shape(caller[c])' /\ (~raced => Knows(caller[c])')
    BY <1>1, <1>2, <2>1, <2>3 DEF Shape, Knows, Waits
  <2> QED  BY <1>1, <2>1, <2>3, <2>4, GoesToKeeps
<1>5. ASSUME NEW status \in {"CREATE_IN_PROGRESS", "UPDATE_IN_PROGRESS"},
             NEW g \in {{"CREATE_COMPLETE"}, {"UPDATE_COMPLETE"}}, NEW b \in BOOLEAN,
             Request(c, status, caller[c].copy, Await(c, g, b, "finish"), "status"),
             UNCHANGED raced
      PROVE  HeatInv'
  <2>1. CASE Become(c, To(c, "status")) /\ UNCHANGED <<template, applied, stack, operations>>
    BY <1>3, <1>5, <2>1
  <2>2. CASE /\ operations' = operations + 1
             /\ stack' = [status |-> status, template |-> caller[c].copy, stamp |-> stack.stamp]
             /\ Become(c, Await(c, g, b, "finish"))
             /\ UNCHANGED <<template, applied>>
    <3>1. caller'[c] = Await(c, g, b, "finish") /\ caller' = [caller EXCEPT ![c] = caller'[c]]
      BY <1>1, <2>2 DEF Become
    <3>2. g \subseteq Statuses /\ status \in Statuses
      BY <1>5 DEF Statuses, Settled
    <3>3. /\ caller'[c] \in HeatCalls /\ caller'[c].pc = "wait" /\ caller'[c].next = "finish"
          /\ caller'[c].in = "push" /\ caller'[c].copy = caller[c].copy
      BY <1>1, <1>5, <3>1, <3>2, ToWait
    <3>4. /\ stack'.template = caller[c].copy /\ stack'.status = status /\ stack' \in Stacks
      BY <1>1, <2>2, <3>2, CallFields DEF HeatTypeOK, Stacks
    <3>5. HeatTypeOK'
      BY <1>1, <1>5, <2>2, <3>4 DEF HeatTypeOK
    <3>6. Shape(caller[c])'
      BY <1>1, <3>3 DEF Shape, Waits
    <3>7. Knows(caller[c])'
      BY <3>3, <3>4 DEF Knows, Waits
    <3> QED  BY <1>1, <1>2, <1>5, <2>2, <3>1, <3>3, <3>4, <3>5, <3>6, <3>7, ThreadStep
  <2> QED  BY <1>5, <2>1, <2>2 DEF Request
<1>6. CASE Send(c)
  <2>1. caller[c].pc = "send"
    BY <1>6 DEF Send
  <2>2. CASE caller[c].status = "NOT_FOUND" /\ HasResources(caller[c].copy)
    <3>1. /\ Request(c, "CREATE_IN_PROGRESS", caller[c].copy,
                         Await(c, {"CREATE_COMPLETE"}, FALSE, "finish"), "status")
          /\ UNCHANGED raced
      BY <1>6, <2>2 DEF Send
    <3> QED  BY <3>1, <1>5
  <2>3. CASE caller[c].status # "NOT_FOUND" /\ HasResources(caller[c].copy)
    <3>1. CASE stack.status = "NOT_FOUND"
      <4>1. Raise(c) /\ UNCHANGED <<template, applied, stack, operations>>
        BY <1>6, <2>3, <3>1 DEF Send
      <4> QED  BY <1>1, <4>1, RaiseKeeps
    <3>2. CASE stack.status # "NOT_FOUND"
      <4>1. /\ Request(c, "UPDATE_IN_PROGRESS", caller[c].copy,
                         Await(c, {"UPDATE_COMPLETE"}, TRUE, "finish"), "status")
            /\ UNCHANGED raced
        BY <1>6, <2>3, <3>2 DEF Send
      <4> QED  BY <4>1, <1>5
    <3> QED  BY <3>1, <3>2
  <2>4. CASE ~HasResources(caller[c].copy)
    <3> DEFINE p == IF caller[c].status = "NOT_FOUND" THEN "finish" ELSE "delete"
    <3>1. Become(c, To(c, p)) /\ UNCHANGED <<template, applied, stack, operations, raced>>
      BY <1>6, <2>4 DEF Send
    <3>2. ~raced /\ p = "finish" => stack.template = {}
      BY <1>2, <2>1 DEF Knows, HeatInv
    <3>3. ~raced /\ p = "finish" => caller[c].copy \ {"version"} = stack.template \ {"version"}
      BY <2>4, <3>2 DEF HasResources
    <3>4. p \in {"finish", "delete"}
      OBVIOUS
    <3> HIDE DEF p
    <3> QED  BY <1>3, <2>4, <3>1, <3>3, <3>4
  <2> QED  BY <2>2, <2>3, <2>4
<1> QED  BY <1>4, <1>6

\* What a push found to be in Heat counts as applied when it still is what
\* the object has.
LEMMA FinishKeeps ==
  ASSUME HeatInv, NEW c \in Callers, FinishPush(c)
  PROVE  HeatInv'
<1>1. /\ caller \in [Callers -> HeatCalls] /\ caller[c] \in HeatCalls /\ caller[c].pc = "finish"
      /\ Shape(caller[c]) /\ HeatTypeOK /\ caller[c].in = "push" /\ "version" \in caller[c].copy
      /\ ~Deleting(caller[c]) /\ ~Waits(caller[c], "deleted")
  BY DEF HeatInv, FinishPush, Shape, Deleting, Waits
<1>2. /\ applied' = (template = caller[c].copy) /\ caller' = [caller EXCEPT ![c] = caller'[c]]
      /\ caller'[c] = Resting /\ UNCHANGED <<template, stack, operations, raced>>
  BY <1>1 DEF FinishPush, AppliedBy, Become
<1>3. HeatTypeOK' /\ (stack'.status = "NOT_FOUND" => stack'.template = {})
  BY <1>1, <1>2 DEF HeatInv, HeatTypeOK
<1>4. Shape(caller[c])' /\ Knows(caller[c])' /\ caller'[c] \in HeatCalls
  BY <1>2, Rested DEF Shape, Knows, Waits
<1>5. ASSUME ~raced'
      PROVE  /\ stack'.status # "DELETE_IN_PROGRESS"
             /\ applied' /\ template' # Unknown => InHeat'
  <2>1. ~raced /\ Knows(caller[c]) /\ stack.status # "DELETE_IN_PROGRESS"
    BY <1>1, <1>2, <1>5, OnlyOne
  <2> QED  BY <1>1, <1>2, <2>1 DEF Knows, InHeat
<1> QED  BY <1>1, <1>2, <1>3, <1>4, <1>5, ThreadStep

\* A deletion is over when Heat has nothing, and leaves nothing applied.
LEMMA DeleteKeeps ==
  ASSUME HeatInv, NEW c \in Callers, DeleteKnown(c) \/ SendDelete(c) \/ Deleted(c)
  PROVE  HeatInv'
<1>1. /\ caller \in [Callers -> HeatCalls] /\ caller[c] \in HeatCalls
      /\ caller[c].pc \in {"delete", "senddelete", "deleted"}
      /\ Shape(caller[c]) /\ HeatTypeOK /\ caller[c].in # "none"
      /\ caller[c].in = "push" => "version" \in caller[c].copy /\ ~HasResources(caller[c].copy)
      /\ ~Waits(caller[c], "deleted")
  BY DEF HeatInv, DeleteKnown, SendDelete, Deleted, Shape, Waits
<1>2. /\ StateAfter(c) \in HeatCalls /\ Shape(StateAfter(c))
      /\ StateAfter(c).pc \in {"rest", "finish"}
  <2>1. CASE caller[c].in = "push"
    <3>1. StateAfter(c) = To(c, "finish")
      BY <2>1 DEF StateAfter
    <3>2. /\ StateAfter(c) \in HeatCalls /\ StateAfter(c).pc = "finish" /\ StateAfter(c).in = "push"
          /\ StateAfter(c).copy = caller[c].copy
      BY <2>1, <3>1, ToAnother
    <3> QED  BY <1>1, <2>1, <3>2 DEF Shape, Waits
  <2>2. CASE caller[c].in # "push"
    BY <2>2, Rested DEF StateAfter
  <2> QED  BY <2>1, <2>2
<1>3. CASE DeleteKnown(c)
  <2>1. /\ caller[c].pc = "delete" /\ ~Deleting(caller[c])
        /\ UNCHANGED <<template, applied, stack, operations, raced>>
    BY <1>3 DEF DeleteKnown, Deleting, Waits
  <2>2. CASE Become(c, To(c, "load"))
    <3>1. caller'[c] = To(c, "load") /\ Become(c, caller'[c])
      BY <1>1, <2>2 DEF Become
    <3>2. /\ caller'[c] \in HeatCalls /\ caller'[c].pc = "load" /\ caller'[c].in = caller[c].in
          /\ caller'[c].copy = caller[c].copy
      BY <3>1, ToAnother
    <3>3. Shape(caller[c])' /\ Knows(caller[c])'
      BY <1>1, <3>2 DEF Shape, Knows, Waits, HasResources
    <3> QED  BY <1>1, <2>1, <3>1, <3>2, <3>3, GoesToKeeps
  <2>3. CASE template = {} /\ Become(c, StateAfter(c))
    <3>1. caller'[c] = StateAfter(c) /\ Become(c, caller'[c])
      BY <1>1, <2>3 DEF Become
    <3>2. Shape(caller[c])'
      BY <1>2, <3>1 DEF Shape, Waits, HasResources
    <3>3. Knows(caller[c])'
      BY <1>2, <2>1, <2>3, <3>1 DEF Knows, Waits
    <3> QED  BY <1>1, <1>2, <2>1, <3>1, <3>2, <3>3, GoesToKeeps
  <2>4. CASE Become(c, Await(c, Settled, FALSE, "senddelete"))
    <3>0. PICK b \in BOOLEAN : b = FALSE
      OBVIOUS
    <3>1. caller'[c] = Await(c, Settled, b, "senddelete") /\ Become(c, caller'[c])
      BY <3>0, <1>1, <2>4 DEF Become
    <3>2. Settled \subseteq Statuses
      BY DEF Statuses
    <3>3. /\ caller'[c] \in HeatCalls /\ caller'[c].pc = "wait" /\ caller'[c].next = "senddelete"
          /\ caller'[c].in = caller[c].in /\ caller'[c].copy = caller[c].copy
      BY <3>1, <3>2, <3>0, ToWait
    <3>4. Shape(caller[c])' /\ Knows(caller[c])'
      BY <1>1, <3>3 DEF Shape, Knows, Waits, HasResources
    <3> QED  BY <1>1, <2>1, <3>1, <3>3, <3>4, GoesToKeeps
  <2> QED  BY <1>3, <2>2, <2>3, <2>4 DEF DeleteKnown
<1>4. CASE SendDelete(c)
  <2>1. /\ caller[c].pc = "senddelete" /\ ~Deleting(caller[c]) /\ UNCHANGED raced
    BY <1>4 DEF SendDelete, Deleting, Waits
  <2>2. CASE /\ stack.status = "NOT_FOUND" /\ Become(c, To(c, "deleted"))
             /\ UNCHANGED <<template, applied, stack, operations>>
    <3>1. caller'[c] = To(c, "deleted") /\ Become(c, caller'[c])
      BY <1>1, <2>2 DEF Become
    <3>2. /\ caller'[c] \in HeatCalls /\ caller'[c].pc = "deleted" /\ caller'[c].in = caller[c].in
          /\ caller'[c].copy = caller[c].copy
      BY <3>1, ToAnother
    <3>3. Shape(caller[c])' /\ Knows(caller[c])'
      BY <1>1, <2>2, <3>2 DEF Shape, Knows, Waits, HasResources
    <3> QED  BY <1>1, <2>1, <2>2, <3>1, <3>2, <3>3, GoesToKeeps
  <2>3. CASE Become(c, To(c, "delete")) /\ UNCHANGED <<template, applied, stack, operations>>
    <3>1. caller'[c] = To(c, "delete") /\ Become(c, caller'[c])
      BY <1>1, <2>3 DEF Become
    <3>2. /\ caller'[c] \in HeatCalls /\ caller'[c].pc = "delete" /\ caller'[c].in = caller[c].in
          /\ caller'[c].copy = caller[c].copy
      BY <3>1, ToAnother
    <3>3. Shape(caller[c])' /\ Knows(caller[c])'
      BY <1>1, <3>2 DEF Shape, Knows, Waits, HasResources
    <3> QED  BY <1>1, <2>1, <2>3, <3>1, <3>2, <3>3, GoesToKeeps
  <2>4. CASE /\ operations' = operations + 1
             /\ stack' = [status |-> "DELETE_IN_PROGRESS", template |-> stack.template,
                          stamp |-> stack.stamp]
             /\ Become(c, Await(c, {"NOT_FOUND"}, TRUE, "deleted"))
             /\ UNCHANGED <<template, applied>>
    <3>0. PICK b \in BOOLEAN, g \in SUBSET Statuses : b = TRUE /\ g = {"NOT_FOUND"}
      BY DEF Statuses, Settled
    <3>1. caller'[c] = Await(c, g, b, "deleted") /\ caller' = [caller EXCEPT ![c] = caller'[c]]
      BY <3>0, <1>1, <2>4 DEF Become
    <3>2. g \subseteq Statuses /\ "DELETE_IN_PROGRESS" \in Statuses
      BY <3>0 DEF Statuses, Settled
    <3>3. /\ caller'[c] \in HeatCalls /\ caller'[c].pc = "wait" /\ caller'[c].next = "deleted"
          /\ caller'[c].goal = g
          /\ caller'[c].in = caller[c].in /\ caller'[c].copy = caller[c].copy
      BY <3>1, <3>2, ToWait
    <3>4. /\ stack'.status = "DELETE_IN_PROGRESS" /\ stack' \in Stacks
      BY <1>1, <2>4, <3>2 DEF HeatTypeOK, Stacks
    <3>5. HeatTypeOK'
      BY <1>1, <2>1, <2>4, <3>4 DEF HeatTypeOK
    <3>6. Shape(caller[c])' /\ Knows(caller[c])' /\ Waits(caller[c], "deleted")'
      BY <1>1, <3>0, <3>3 DEF Shape, Knows, Waits, HasResources
    <3> QED  BY <1>1, <2>1, <3>1, <3>3, <3>4, <3>5, <3>6, ThreadStep DEF Deleting
  <2> QED  BY <1>4, <2>2, <2>3, <2>4 DEF SendDelete, Request
<1>5. CASE Deleted(c)
  <2>1. /\ caller[c].pc = "deleted" /\ template' = {} /\ applied' = TRUE
        /\ UNCHANGED <<stack, operations, raced>>
        /\ caller'[c] = StateAfter(c) /\ caller' = [caller EXCEPT ![c] = caller'[c]]
    BY <1>1, <1>5 DEF Deleted, Become
  <2>2. HeatTypeOK' /\ (stack'.status = "NOT_FOUND" => stack'.template = {})
    BY <1>1, <2>1 DEF HeatInv, HeatTypeOK, Holding
  <2>3. Shape(caller[c])' /\ caller'[c] \in HeatCalls
    BY <1>2, <2>1 DEF Shape, Waits, HasResources
  <2>4. Knows(caller[c])'
    BY <1>2, <2>1 DEF Knows, Waits
  <2>5. ASSUME ~raced'
        PROVE  ~raced /\ stack'.status # "DELETE_IN_PROGRESS" /\ InHeat'
    <3>1. ~raced /\ Knows(caller[c])
      BY <1>1, <2>1, <2>5, OnlyOne
    <3>2. stack.status = "NOT_FOUND" /\ stack.template = {}
      BY <2>1, <3>1 DEF Knows, HeatInv
    <3> QED  BY <2>1, <3>1, <3>2 DEF InHeat
  <2> QED  BY <1>1, <2>1, <2>2, <2>3, <2>4, <2>5, ThreadStep
<1> QED  BY <1>3, <1>4, <1>5

\* Heat brings down what somebody waits for, and otherwise leaves the template
\* of a stack alone.
LEMMA HeatWorksKeeps ==
  ASSUME HeatInv, HeatWorks
  PROVE  HeatInv'
<1>1. /\ UNCHANGED <<template, applied, caller, operations, raced>>
      /\ HeatTypeOK /\ stack \in Stacks /\ operations \in Nat
      /\ stack.status \in {"CREATE_IN_PROGRESS", "UPDATE_IN_PROGRESS", "DELETE_IN_PROGRESS"}
  BY DEF HeatInv, HeatTypeOK, HeatWorks, InProgress, Stacks, Statuses
<1>2. \/ stack.status = "DELETE_IN_PROGRESS" /\ stack' = NoStack
      \/ \E s \in {"CREATE_COMPLETE", "CREATE_FAILED", "UPDATE_COMPLETE", "UPDATE_FAILED",
                   "DELETE_FAILED"} : stack' = [stack EXCEPT !.status = s, !.stamp = operations]
  BY <1>1 DEF HeatWorks
<1>3. /\ stack' \in Stacks /\ stack'.status # "DELETE_IN_PROGRESS"
      /\ stack'.status = "NOT_FOUND" => stack'.template = {}
      /\ stack.status # "DELETE_IN_PROGRESS" => stack'.template = stack.template
      /\ stack'.template # stack.template => stack.status = "DELETE_IN_PROGRESS"
  <2>1. CASE stack.status = "DELETE_IN_PROGRESS" /\ stack' = NoStack
    BY <2>1 DEF NoStack, Stacks, Holding, Statuses, Settled
  <2>2. ASSUME NEW s \in {"CREATE_COMPLETE", "CREATE_FAILED", "UPDATE_COMPLETE", "UPDATE_FAILED",
                   "DELETE_FAILED"}, stack' = [stack EXCEPT !.status = s, !.stamp = operations]
        PROVE  stack' \in Stacks /\ stack'.status = s /\ stack'.template = stack.template
    <3>1. s \in Statuses
      BY <2>2 DEF Statuses, Settled
    <3> QED  BY <1>1, <2>2, <3>1 DEF Stacks
  <2> QED  BY <1>2, <2>1, <2>2
<1>4. HeatTypeOK'
  BY <1>1, <1>3 DEF HeatTypeOK
<1>5. \A c \in Callers : Shape(caller[c])'
  BY <1>1 DEF HeatInv, Shape, Waits, HasResources
<1>6. ASSUME ~raced'
      PROVE  (\A c \in Callers : Knows(caller[c])') /\ DeletesAreAwaited' /\ AppliedOrDeleting'
  <2>1. /\ ~raced /\ DeletesAreAwaited /\ AppliedOrDeleting
        /\ \A c, d \in Callers : caller[c].in # "none" /\ caller[d].in # "none" => c = d
        /\ \A c \in Callers : Knows(caller[c]) /\ Shape(caller[c])
    BY <1>1, <1>6 DEF HeatInv
  <2>2. ASSUME NEW c \in Callers PROVE Knows(caller[c])'
    <3>1. CASE stack.status = "DELETE_IN_PROGRESS"
      <4>1. PICK d \in Callers : Waits(caller[d], "deleted")
        BY <2>1, <3>1 DEF DeletesAreAwaited
      <4>2. caller[d].in # "none" /\ caller[d].pc = "wait" /\ caller[d].next = "deleted"
        BY <2>1, <4>1 DEF Shape, Waits
      <4>3. c = d \/ caller[c].pc = "rest"
        BY <2>1, <4>2 DEF Shape
      <4> QED  BY <1>1, <4>2, <4>3 DEF Knows, Waits
    <3>2. CASE stack.status # "DELETE_IN_PROGRESS"
      <4>1. Knows(caller[c]) /\ stack.status # "NOT_FOUND" /\ InProgress
        BY <1>1, <2>1 DEF InProgress, Settled
      <4> QED  BY <1>1, <1>3, <3>2, <4>1 DEF Knows, Waits
    <3> QED  BY <3>1, <3>2
  <2>3. DeletesAreAwaited'
    BY <1>3 DEF DeletesAreAwaited
  <2>4. AppliedOrDeleting'
    <3>1. CASE stack'.template # stack.template
      <4>1. \E c \in Callers : Deleting(caller[c])
        BY <1>3, <2>1, <3>1 DEF DeletesAreAwaited, Deleting
      <4> QED  BY <1>1, <4>1 DEF AppliedOrDeleting, Deleting, Waits
    <3>2. CASE stack'.template = stack.template
      BY <1>1, <2>1, <3>2 DEF AppliedOrDeleting, Deleting, Waits, InHeat
    <3> QED  BY <3>1, <3>2
  <2> QED  BY <2>2, <2>3, <2>4
<1> QED  BY <1>1, <1>3, <1>4, <1>5, <1>6 DEF HeatInv

\* What threads and Heat do keeps what is said of the stack.
LEMMA HeatInduction ==
    HeatSpec => []HeatInv
<1>1. HeatInit => HeatInv
  <2> SUFFICES ASSUME HeatInit PROVE HeatInv
    OBVIOUS
  <2>1. HeatTypeOK /\ stack.template = {} /\ stack.status = "NOT_FOUND"
    BY DEF HeatInit, HeatTypeOK, Unknown, NoStack, Stacks, Holding, Statuses, Settled
  <2>2. caller \in [Callers -> HeatCalls] /\ \A c \in Callers : caller[c] = Resting
    BY Rested DEF HeatInit
  <2>3. \A c \in Callers : Shape(caller[c]) /\ Knows(caller[c]) /\ caller[c].in = "none"
    BY <2>2, Rested DEF Knows, Waits
  <2>4. DeletesAreAwaited /\ AppliedOrDeleting
    BY <2>1 DEF HeatInit, DeletesAreAwaited, AppliedOrDeleting
  <2> QED  BY <2>1, <2>2, <2>3, <2>4 DEF HeatInv
<1>2. HeatInv /\ [HeatNext]_heat => HeatInv'
  <2> SUFFICES ASSUME HeatInv, [HeatNext]_heat PROVE HeatInv'
    OBVIOUS
  <2>1. CASE HeatWorks
    BY <2>1, HeatWorksKeeps
  <2>2. CASE UNCHANGED heat
    <3>1. HeatTypeOK /\ UNCHANGED <<template, applied, stack, operations, raced>> /\ caller' = caller
      BY <2>2 DEF heat, HeatInv
    <3> QED  BY <3>1, SettingKeeps DEF HeatTypeOK
  <2>3. ASSUME NEW c \in Callers, LoadFails(c) \/ SendFails(c) PROVE HeatInv'
    <3>1. /\ Raise(c) /\ UNCHANGED <<template, applied, stack, operations>>
          /\ caller[c].pc \in {"load", "send", "senddelete"} /\ caller[c].in # "none"
      BY <2>3 DEF LoadFails, SendFails, HeatInv, Shape
    <3> QED  BY <3>1, RaiseKeeps
  <2>4. ASSUME NEW c \in Callers, OutputDone(c) PROVE HeatInv'
    <3>1. /\ caller[c].pc = "done" /\ caller[c].in # "none" /\ ~Deleting(caller[c])
          /\ UNCHANGED <<template, applied, stack, operations, raced>>
          /\ caller'[c] = Resting /\ Become(c, caller'[c])
      BY <2>4 DEF OutputDone, HeatInv, Shape, Deleting, Waits, Become
    <3>2. Shape(caller[c])' /\ Knows(caller[c])' /\ caller'[c] \in HeatCalls
      BY <3>1, Rested DEF Shape, Knows, Waits
    <3> QED  BY <3>1, <3>2, GoesToKeeps
  <2> QED
    BY <2>1, <2>2, <2>3, <2>4, HeatAssumption, BeginKeeps, LoadKeeps, PollKeeps, SendKeeps, FinishKeeps,
       DeleteKeeps DEF HeatNext
<1> QED  BY <1>1, <1>2, PTL DEF HeatSpec

\* A template that counts as applied (_applied of HeatStack) is the one that
\* Heat has, so that a push may skip it (HeatStack.push, update_template,
\* delete and _wait_state), whatever is set or merged while a push waits and
\* wherever Heat fails or refuses, as long as two methods do not wait for Heat
\* at the same time and no deletion is given up.
THEOREM AppliedTemplatesAreInHeat ==
    HeatSpec => []AppliedIsInHeat
<1>1. HeatInv => AppliedIsInHeat
  <2> SUFFICES ASSUME HeatInv, applied, template # Unknown, Busy = {}, ~raced
               PROVE  template \ {"version"} = stack.template \ {"version"}
    BY DEF AppliedIsInHeat
  <2>1. AppliedOrDeleting /\ \A c \in Callers : Shape(caller[c])
    BY DEF HeatInv
  <2>2. \A c \in Callers : ~Deleting(caller[c])
    BY <2>1 DEF Shape, Busy, Deleting, Waits
  <2> QED  BY <2>1, <2>2 DEF AppliedOrDeleting, InHeat
<1> QED  BY <1>1, HeatInduction, PTL

-----------------------------------------------------------------------------
(* Versions of packages *)

\* A set of natural numbers has a least one.
LEMMA LeastNatural ==
  ASSUME NEW T \in SUBSET Nat, T # {}
  PROVE  \E m \in T : \A n \in T : m <= n
<1> DEFINE R == OpToRel(<, Nat)
<1>1. IsWellFoundedOn(R, Nat)
  BY NatLessThanWellFounded, Zenon
<1>2. R = {ss \in Nat \X Nat : ss[1] < ss[2]}
  BY DEF OpToRel
<1> HIDE DEF R
<1>3. PICK x \in T : \A y \in T : ~(<<y, x>> \in R)
  BY <1>1, WFMin, Zenon
<1>4. \A y \in T : ~(y < x)
  BY <1>2, <1>3
<1> QED  BY <1>3, <1>4

\* A version is a pair of numbers.
LEMMA VersionPairs ==
  ASSUME VersionAssumption, NEW v \in Versions
  PROVE  v[1] \in Nat /\ v[2] \in Nat /\ v = <<v[1], v[2]>>
<1>1. Majors \subseteq Nat /\ Minors \subseteq Nat
  BY DEF VersionAssumption
<1>2. v \in Majors \X Minors
  BY DEF Versions
<1>3. v[1] \in Majors /\ v[2] \in Minors
  BY <1>2
<1>4. v = <<v[1], v[2]>>
  BY <1>2
<1> QED  BY <1>1, <1>3, <1>4

\* What the comparisons of a normalised specification admit.
LEMMA AdmittedBy ==
  ASSUME NEW v, NEW w, NEW x
  PROVE  /\ Admits({[kind |-> ">=", than |-> w]}, v) <=> ~Less(v, w)
         /\ Admits({[kind |-> "<", than |-> w]}, v) <=> Less(v, w)
         /\ Admits({[kind |-> ">=", than |-> w], [kind |-> "<", than |-> x]}, v)
            <=> ~Less(v, w) /\ Less(v, x)
<1>1. \A y : (Compares(v, ">=", y) <=> ~Less(v, y)) /\ (Compares(v, "<", y) <=> Less(v, y))
  BY DEF Compares
<1>2. /\ Admits({[kind |-> ">=", than |-> w]}, v) <=> Compares(v, ">=", w)
      /\ Admits({[kind |-> "<", than |-> w]}, v) <=> Compares(v, "<", w)
  BY DEF Admits
<1>3. Admits({[kind |-> ">=", than |-> w], [kind |-> "<", than |-> x]}, v)
      <=> Compares(v, ">=", w) /\ Compares(v, "<", x)
  BY DEF Admits
<1> QED  BY <1>1, <1>2, <1>3

\* The order of versions.
LEMMA LessIsAnOrder ==
  ASSUME VersionAssumption, NEW u \in Versions, NEW v \in Versions, NEW w \in Versions
  PROVE  /\ ~Less(u, u)
         /\ Less(u, v) /\ Less(v, w) => Less(u, w)
         /\ ~Less(u, v) /\ ~Less(v, u) => u = v
<1>1. /\ u[1] \in Nat /\ u[2] \in Nat /\ v[1] \in Nat /\ v[2] \in Nat /\ w[1] \in Nat /\ w[2] \in Nat
      /\ u = <<u[1], u[2]>> /\ v = <<v[1], v[2]>>
  BY VersionPairs
<1>2. ~Less(u, u) /\ (Less(u, v) /\ Less(v, w) => Less(u, w))
  BY <1>1 DEF Less
<1>3. ~Less(u, v) /\ ~Less(v, u) => u[1] = v[1] /\ u[2] = v[2]
  BY <1>1 DEF Less
<1> QED  BY <1>1, <1>2, <1>3

\* Finitely many versions have a highest one: take a smallest set of them
\* that has none.
LEMMA HighestVersion ==
  ASSUME VersionAssumption, NEW S \in SUBSET Versions, IsFiniteSet(S), S # {}
  PROVE  \E v \in S : \A w \in S : ~Less(v, w)
<1> DEFINE Highest(U) == \E v \in U : \A w \in U : ~Less(v, w)
           Without == {U \in SUBSET Versions : IsFiniteSet(U) /\ U # {} /\ ~Highest(U)}
           Sizes == {n \in Nat : \E U \in Without : Cardinality(U) = n}
<1>1. SUFFICES ASSUME Sizes # {} PROVE FALSE
  BY FS_CardinalityType
<1>2. PICK m \in Sizes : \A n \in Sizes : m <= n
  <2>1. Sizes \in SUBSET Nat
    OBVIOUS
  <2> HIDE DEF Sizes
  <2> QED  BY <1>1, <2>1, LeastNatural
<1>3. PICK U \in Without : Cardinality(U) = m
  BY <1>2
<1>4. PICK x \in U : TRUE
  BY <1>3
<1>5. /\ IsFiniteSet(U \ {x}) /\ Cardinality(U \ {x}) = m - 1 /\ m \in Nat
      /\ U \in SUBSET Versions /\ ~Highest(U)
  BY <1>2, <1>3, <1>4, FS_RemoveElement
<1>6. U \ {x} # {}
  <2> SUFFICES ASSUME U = {x} PROVE FALSE
    OBVIOUS
  <2>1. ~Less(x, x)
    BY <1>4, <1>5, LessIsAnOrder
  <2> QED  BY <1>5, <2>1
<1>7. Highest(U \ {x})
  <2> SUFFICES ASSUME ~Highest(U \ {x}) PROVE FALSE
    OBVIOUS
  <2>1. U \ {x} \in Without
    BY <1>5, <1>6
  <2>2. Cardinality(U \ {x}) \in Nat
    BY <1>5, FS_CardinalityType
  <2>3. m - 1 \in Sizes
    BY <1>5, <2>1, <2>2
  <2> QED  BY <1>2, <1>5, <2>3
<1>8. PICK v \in U \ {x} : \A w \in U \ {x} : ~Less(v, w)
  BY <1>7
<1>9. CASE Less(v, x)
  <2>1. \A w \in U : ~Less(x, w)
    BY <1>4, <1>5, <1>8, <1>9, LessIsAnOrder
  <2> QED  BY <1>4, <1>5, <2>1
<1>10. CASE ~Less(v, x)
  BY <1>4, <1>5, <1>8, <1>10
<1> QED  BY <1>9, <1>10

\* A normalised specification admits what was asked for, except that it finds
\* nothing below a major version that is to be avoided.
LEMMA NormalizedSpecs ==
  ASSUME VersionAssumption, NEW s \in Specs, NEW v \in Versions
  PROVE  /\ Admits(Normalized(s), v) => AsksFor(s, v)
         /\ AsksFor(s, v) => Admits(Normalized(s), v) \/ (s.kind = "!=" /\ s.partial)
<1>1. /\ v[1] \in Nat /\ v[2] \in Nat /\ v = <<v[1], v[2]>>
      /\ s.kind \in {">", ">=", "<", "<=", "!=", "=="} /\ s.major \in Nat
  <2>1. s \in Comparisons /\ Majors \subseteq Nat
    BY DEF VersionAssumption
  <2>2. s.kind \in {">", ">=", "<", "<=", "!=", "=="} /\ s.major \in Majors
    BY <2>1 DEF Comparisons
  <2> QED  BY <2>1, <2>2, VersionPairs
<1> DEFINE base == <<s.major, s.minor>>
           low == <<s.major, 0>>
           high == <<s.major + 1, 0>>
<1>2. CASE ~s.partial
  <2>1. Normalized(s) = {[kind |-> s.kind, than |-> base]}
    BY <1>2 DEF Normalized
  <2> HIDE DEF base
  <2>2. Admits(Normalized(s), v) <=> Compares(v, s.kind, base)
    BY <2>1 DEF Admits
  <2> QED  BY <1>2, <2>2 DEF AsksFor, base
<1>3. CASE s.partial
  <2>1. /\ Less(v, low) <=> v[1] < s.major
        /\ Less(v, high) <=> v[1] <= s.major
    BY <1>1 DEF Less
  <2>2. Normalized(s) =
          IF s.kind \in {">", "!="} THEN {[kind |-> ">=", than |-> high]}
          ELSE IF s.kind = ">=" THEN {[kind |-> ">=", than |-> low]}
          ELSE IF s.kind = "<" THEN {[kind |-> "<", than |-> low]}
          ELSE IF s.kind = "<=" THEN {[kind |-> "<", than |-> high]}
          ELSE {[kind |-> ">=", than |-> low], [kind |-> "<", than |-> high]}
    BY <1>1, <1>3 DEF Normalized, Coerce, Increment
  <2>3. AsksFor(s, v) <=>
          IF s.kind = "!=" THEN v[1] # s.major
          ELSE IF s.kind = "==" THEN v[1] = s.major
          ELSE IF s.kind = "<" THEN v[1] < s.major
          ELSE IF s.kind = "<=" THEN v[1] <= s.major
          ELSE IF s.kind = ">" THEN v[1] > s.major
          ELSE v[1] >= s.major
    BY <1>1, <1>3 DEF AsksFor
  <2> HIDE DEF low, high
  <2>4. CASE s.kind \in {">", "!="}
    <3>0. Normalized(s) = {[kind |-> ">=", than |-> high]}
      BY <2>2, <2>4
    <3>1. Admits({[kind |-> ">=", than |-> high]}, v) <=> ~Less(v, high)
      BY AdmittedBy
    <3>2. Admits(Normalized(s), v) <=> ~Less(v, high)
      BY <3>0, <3>1
    <3> QED  BY <1>1, <1>3, <2>1, <2>3, <2>4, <3>2
  <2>5. CASE s.kind = ">="
    <3>0. Normalized(s) = {[kind |-> ">=", than |-> low]}
      BY <2>2, <2>5
    <3>1. Admits({[kind |-> ">=", than |-> low]}, v) <=> ~Less(v, low)
      BY AdmittedBy
    <3>2. Admits(Normalized(s), v) <=> ~Less(v, low)
      BY <3>0, <3>1
    <3> QED  BY <1>1, <2>1, <2>3, <2>5, <3>2
  <2>6. CASE s.kind = "<"
    <3>0. Normalized(s) = {[kind |-> "<", than |-> low]}
      BY <2>2, <2>6
    <3>1. Admits({[kind |-> "<", than |-> low]}, v) <=> Less(v, low)
      BY AdmittedBy
    <3>2. Admits(Normalized(s), v) <=> Less(v, low)
      BY <3>0, <3>1
    <3> QED  BY <1>1, <2>1, <2>3, <2>6, <3>2
  <2>7. CASE s.kind = "<="
    <3>0. Normalized(s) = {[kind |-> "<", than |-> high]}
      BY <2>2, <2>7
    <3>1. Admits({[kind |-> "<", than |-> high]}, v) <=> Less(v, high)
      BY AdmittedBy
    <3>2. Admits(Normalized(s), v) <=> Less(v, high)
      BY <3>0, <3>1
    <3> QED  BY <1>1, <2>1, <2>3, <2>7, <3>2
  <2>8. CASE s.kind = "=="
    <3>0. Normalized(s) = {[kind |-> ">=", than |-> low], [kind |-> "<", than |-> high]}
      BY <2>2, <2>8
    <3>1. Admits({[kind |-> ">=", than |-> low], [kind |-> "<", than |-> high]}, v) <=> ~Less(v, low) /\ Less(v, high)
      BY AdmittedBy
    <3>2. Admits(Normalized(s), v) <=> ~Less(v, low) /\ Less(v, high)
      BY <3>0, <3>1
    <3> QED  BY <1>1, <2>1, <2>3, <2>8, <3>2
  <2> QED  BY <1>1, <2>4, <2>5, <2>6, <2>7, <2>8
<1> QED  BY <1>2, <1>3

\* What a table has fixed is saved with the environment, or was needed for
\* something that no saved version fits.
Justified(v) == v \in saved \/ \E k \in loaded : k.version = v /\ Needed(k.spec)

VersionsInv ==
    /\ saved \subseteq Versions /\ IsFiniteSet(saved)
    /\ fixed \in [Loaders -> SUBSET Versions] /\ recent \in [Loaders -> SUBSET Versions]
    /\ \A l \in Loaders : IsFiniteSet(fixed[l]) /\ IsFiniteSet(recent[l])
    /\ published \subseteq Catalogs /\ cached \subseteq Versions
    /\ loaded \subseteq [spec : Specs, version : Versions]
    /\ running => \A l \in Loaders : saved \subseteq fixed[l]
    /\ \A l \in Loaders : \A v \in fixed[l] : Justified(v)
    /\ \A l \in loaded : AsksFor(l.spec, l.version) /\ Justified(l.version)

\* What is selected is among what there is and is admitted, and there is
\* something unless nothing is.
LEMMA Selected ==
  ASSUME VersionAssumption, NEW parts, NEW S \in SUBSET Versions
  PROVE  /\ \A v \in Select(parts, S) : v \in S /\ Admits(parts, v)
         /\ IsFiniteSet(S) /\ Select(parts, S) = {} => \A v \in S : ~Admits(parts, v)
<1>1. \A v \in Select(parts, S) : v \in S /\ Admits(parts, v)
  BY DEF Select, Admitted
<1>2. ASSUME IsFiniteSet(S), Select(parts, S) = {}, NEW v \in S, Admits(parts, v)
      PROVE  FALSE
  <2>1. /\ Admitted(parts, S) \in SUBSET S /\ Admitted(parts, S) # {}
    BY <1>2 DEF Admitted
  <2>2. IsFiniteSet(Admitted(parts, S)) /\ Admitted(parts, S) \in SUBSET Versions
    BY <1>2, <2>1, FS_Subset
  <2>3. PICK w \in Admitted(parts, S) : \A u \in Admitted(parts, S) : ~Less(w, u)
    BY <2>1, <2>2, HighestVersion
  <2> QED  BY <1>2, <2>3 DEF Select
<1> QED  BY <1>1, <1>2

\* Whatever a loader chooses by the narrowed specification was asked for, and
\* is in its table already or needed.
LEMMA NarrowedFits ==
  ASSUME VersionAssumption, VersionsInv, running, NEW s \in Specs, NEW l \in Loaders,
         NEW v \in Versions, Admits(Narrowed(Normalized(s), l), v)
  PROVE  AsksFor(s, v) /\ (v \in fixed[l] \/ Needed(s))
<1> DEFINE parts == Normalized(s)
           chosen == Select(parts, fixed[l])
<1>1. fixed[l] \in SUBSET Versions /\ IsFiniteSet(fixed[l]) /\ saved \subseteq fixed[l]
  BY DEF VersionsInv
<1>2. /\ \A w \in chosen : w \in fixed[l] /\ Admits(parts, w)
      /\ chosen = {} => \A w \in fixed[l] : ~Admits(parts, w)
  BY <1>1, Selected
<1>3. CASE chosen = {}
  <2>1. Admits(parts, v)
    BY <1>3 DEF Narrowed
  <2>2. \A w \in saved : ~AsksFor(s, w) \/ (s.kind = "!=" /\ s.partial)
    BY <1>1, <1>2, <1>3, NormalizedSpecs
  <2> QED  BY <2>1, <2>2, NormalizedSpecs DEF Needed
<1>4. CASE chosen # {}
  <2>1. PICK w \in chosen : TRUE
    BY <1>4
  <2>2. Narrowed(parts, l) = UNION {Exactly(u) : u \in chosen}
    BY <1>4 DEF Narrowed
  <2> HIDE DEF chosen, parts
  <2>3. [kind |-> "==", than |-> w] \in Narrowed(parts, l)
    BY <2>1, <2>2 DEF Exactly
  <2>4. v = w
    BY <2>3 DEF Admits, Compares, parts
  <2> QED  BY <1>1, <1>2, <2>1, <2>4, NormalizedSpecs DEF parts
<1> QED  BY <1>3, <1>4

\* What a load that fixes v in the table of l does.
LEMMA FixKeeps ==
  ASSUME VersionAssumption, VersionsInv, running, NEW s \in Specs, NEW l \in Loaders,
         NEW v \in Versions, Admits(Narrowed(Normalized(s), l), v), Fix(l, v), Gives(s, v),
         cached' \subseteq Versions, UNCHANGED <<published, saved, running>>
  PROVE  VersionsInv'
<1>1. AsksFor(s, v) /\ (v \in fixed[l] \/ Needed(s))
  BY NarrowedFits
<1>2. /\ loaded' = loaded \cup {[spec |-> s, version |-> v]}
      /\ fixed \in [Loaders -> SUBSET Versions] /\ recent \in [Loaders -> SUBSET Versions]
      /\ \A m \in Loaders : IsFiniteSet(fixed[m]) /\ IsFiniteSet(recent[m])
      /\ fixed' = [fixed EXCEPT ![l] = @ \cup {v}]
      /\ recent' = [recent EXCEPT ![l] = @ \cup {v}]
  BY DEF Gives, VersionsInv, Fix
<1>3. \A u : Justified(u) => Justified(u)'
  BY <1>2 DEF Justified, Needed
<1>4. Justified(v)'
  <2>1. CASE v \in fixed[l]
    BY <1>3, <2>1 DEF VersionsInv
  <2>2. CASE Needed(s)
    <3> DEFINE k == [spec |-> s, version |-> v]
    <3>1. k \in loaded' /\ k.version = v /\ k.spec = s
      BY <1>2
    <3>2. Needed(s)'
      BY <2>2 DEF Needed
    <3> HIDE DEF k
    <3>3. Needed(k.spec)'
      BY <3>1, <3>2 DEF Needed
    <3> QED  BY <3>1, <3>3 DEF Justified
  <2> QED  BY <1>1, <2>1, <2>2
<1>5. /\ fixed' \in [Loaders -> SUBSET Versions] /\ recent' \in [Loaders -> SUBSET Versions]
      /\ \A m \in Loaders : fixed[m] \subseteq fixed'[m]
      /\ \A m \in Loaders : \A u \in fixed'[m] : u \in fixed[m] \/ u = v
      /\ \A m \in Loaders : fixed'[m] = fixed[m] \/ fixed'[m] = fixed[m] \cup {v}
      /\ \A m \in Loaders : recent'[m] = recent[m] \/ recent'[m] = recent[m] \cup {v}
  BY <1>2
<1>6. \A m \in Loaders : IsFiniteSet(fixed'[m]) /\ IsFiniteSet(recent'[m])
  <2> TAKE m \in Loaders
  <2>1. IsFiniteSet(fixed[m] \cup {v})
    BY <1>2, FS_AddElement
  <2>2. IsFiniteSet(recent[m] \cup {v})
    BY <1>2, FS_AddElement
  <2> QED  BY <1>2, <1>5, <2>1, <2>2
<1>7. loaded' \subseteq [spec : Specs, version : Versions]
  BY <1>2 DEF VersionsInv
<1>8. \A m \in Loaders : \A u \in fixed'[m] : Justified(u)'
  BY <1>3, <1>4, <1>5 DEF VersionsInv
<1>9. \A k \in loaded' : AsksFor(k.spec, k.version) /\ Justified(k.version)'
  BY <1>1, <1>2, <1>3, <1>4 DEF VersionsInv
<1>10. /\ saved' \subseteq Versions /\ IsFiniteSet(saved') /\ published' \subseteq Catalogs
       /\ running' => \A m \in Loaders : saved' \subseteq fixed'[m]
  BY <1>5 DEF VersionsInv
<1> QED  BY <1>5, <1>6, <1>7, <1>8, <1>9, <1>10 DEF VersionsInv

\* The directory gives what it has installed.
LEMMA DirectoryKeeps ==
  ASSUME VersionAssumption, VersionsInv, NEW s \in Specs, LoadFromDirectory(s)
  PROVE  VersionsInv'
<1>1. PICK v \in InDirectory(s) : Fix("directory", v) /\ Gives(s, v)
  BY DEF LoadFromDirectory
<1>2. v \in Installed /\ Admits(Narrowed(Normalized(s), "directory"), v) /\ Installed \in SUBSET Versions
  BY <1>1, Selected DEF InDirectory, VersionAssumption
<1>3. running /\ cached' \subseteq Versions /\ UNCHANGED <<published, saved, running>>
      /\ "directory" \in Loaders
  BY DEF LoadFromDirectory, MayLoad, VersionsInv, Loaders
<1> QED  BY <1>1, <1>2, <1>3, FixKeeps

\* The best match for a query is one of the packages that it finds.
LEMMA BestMatchIsFound ==
  ASSUME VersionAssumption, published \subseteq Catalogs, NEW parts, NEW v \in BestMatches(parts)
  PROVE  v \in Versions /\ Admits(parts, v)
<1>1. PICK p \in Found(parts) : v = p.version
  BY DEF BestMatches
<1>2. p \in [version : Versions, owner : OwnerKinds] /\ Admits(parts, p.version)
  BY <1>1 DEF Found, VersionAssumption
<1> QED  BY <1>1, <1>2

\* What the catalog gives is fixed, or was cached by this task.
LEMMA CatalogKeeps ==
  ASSUME VersionAssumption, VersionsInv, NEW s \in Specs, LoadFromCatalog(s)
  PROVE  VersionsInv'
<1> DEFINE parts == Narrowed(Normalized(s), "api")
<1>1. running /\ UNCHANGED <<published, saved, running>> /\ "api" \in Loaders
      /\ published \subseteq Catalogs /\ cached \in SUBSET Versions
  BY DEF LoadFromCatalog, MayLoad, VersionsInv, Loaders
<1>2. CASE Select(parts, cached) # {}
  <2>1. PICK v \in Select(parts, cached) : Gives(s, v) /\ UNCHANGED <<fixed, recent, cached>>
    BY <1>2 DEF LoadFromCatalog
  <2>2. v \in Versions /\ Admits(parts, v)
    BY <1>1, <2>1, Selected
  <2>3. AsksFor(s, v) /\ (v \in fixed["api"] \/ Needed(s))
    BY <1>1, <2>2, NarrowedFits
  <2>4. loaded' = loaded \cup {[spec |-> s, version |-> v]}
    BY <2>1 DEF Gives
  <2>5. \A u : Justified(u) => Justified(u)'
    BY <1>1, <2>4 DEF Justified, Needed
  <2>6. Justified(v)'
    <3>1. CASE v \in fixed["api"]
      BY <1>1, <2>5, <3>1 DEF VersionsInv
    <3>2. CASE Needed(s)
      <4> DEFINE k == [spec |-> s, version |-> v]
      <4>1. k \in loaded' /\ k.version = v /\ k.spec = s
        BY <2>4
      <4>2. Needed(s)'
        BY <1>1, <3>2 DEF Needed
      <4> HIDE DEF k
      <4>3. Needed(k.spec)'
        BY <4>1, <4>2 DEF Needed
      <4> QED  BY <4>1, <4>3 DEF Justified
    <3> QED  BY <2>3, <3>1, <3>2
  <2>7. loaded' \subseteq [spec : Specs, version : Versions]
    BY <2>2, <2>4 DEF VersionsInv
  <2>8. \A k \in loaded' : AsksFor(k.spec, k.version) /\ Justified(k.version)'
    BY <2>3, <2>4, <2>5, <2>6 DEF VersionsInv
  <2> QED  BY <1>1, <2>1, <2>5, <2>7, <2>8 DEF VersionsInv
<1>3. CASE Select(parts, cached) = {}
  <2>1. PICK v \in BestMatches(parts) : Fix("api", v) /\ Gives(s, v) /\ cached' = cached \cup {v}
    BY <1>3 DEF LoadFromCatalog
  <2>2. v \in Versions /\ Admits(parts, v)
    BY <1>1, <2>1, BestMatchIsFound
  <2>3. cached' \subseteq Versions
    BY <1>1, <2>1, <2>2
  <2> QED  BY <1>1, <2>1, <2>2, <2>3, FixKeeps
<1> QED  BY <1>2, <1>3

\* A task begins with the saved versions and ends with those of its tables.
LEMMA TaskBoundsKeep ==
  ASSUME VersionsInv, BeginTask \/ End \/ Vanish
  PROVE  VersionsInv'
<1>1. /\ fixed \in [Loaders -> SUBSET Versions] /\ recent \in [Loaders -> SUBSET Versions]
      /\ \A l \in Loaders : IsFiniteSet(fixed[l]) /\ IsFiniteSet(recent[l])
      /\ saved \subseteq Versions /\ IsFiniteSet(saved) /\ IsFiniteSet({})
  BY FS_EmptySet DEF VersionsInv
<1>2. CASE BeginTask
  <2>1. /\ fixed' = [l \in Loaders |-> saved] /\ recent' = [l \in Loaders |-> {}]
        /\ cached' = {} /\ loaded' = {} /\ UNCHANGED <<published, saved>>
    BY <1>2 DEF BeginTask, Imported
  <2>2. \A l \in Loaders : fixed'[l] = saved /\ recent'[l] = {}
    BY <2>1
  <2> QED  BY <1>1, <2>1, <2>2 DEF VersionsInv, Justified
<1>3. ASSUME saved' \subseteq Versions, IsFiniteSet(saved'), ~running',
             fixed' = [l \in Loaders |-> {}], recent' = [l \in Loaders |-> {}],
             cached' = {}, loaded' = {}, UNCHANGED published
      PROVE  VersionsInv'
  <2>1. \A l \in Loaders : fixed'[l] = {} /\ recent'[l] = {}
    BY <1>3
  <2> QED  BY <1>1, <1>3, <2>1 DEF VersionsInv
<1>4. CASE Vanish
  BY <1>1, <1>3, <1>4 DEF Vanish
<1>5. CASE End
  <2>1. PICK table \in {fixed, recent} : saved' = UNION {table[l] : l \in Loaders}
    BY <1>5 DEF End
  <2>2. saved' = table["api"] \cup table["directory"]
    BY <2>1 DEF Loaders
  <2>3. /\ IsFiniteSet(table["api"]) /\ IsFiniteSet(table["directory"])
        /\ table["api"] \subseteq Versions /\ table["directory"] \subseteq Versions
    BY <1>1 DEF Loaders
  <2>4. IsFiniteSet(table["api"] \cup table["directory"])
    BY <2>3, FS_Union
  <2> QED  BY <1>3, <1>5, <2>2, <2>3, <2>4 DEF End
<1> QED  BY <1>2, <1>4, <1>5

\* Tasks, loads and publications keep what is said of the tables.
LEMMA VersionsInduction ==
    VersionsSpec => []VersionsInv
<1>1. VersionsInit => VersionsInv
  <2> SUFFICES ASSUME VersionsInit PROVE VersionsInv
    OBVIOUS
  <2>1. /\ fixed = [l \in Loaders |-> {}] /\ recent = [l \in Loaders |-> {}]
        /\ saved = {} /\ cached = {} /\ loaded = {} /\ running = FALSE
        /\ published \subseteq Catalogs /\ IsFiniteSet({})
    BY FS_EmptySet DEF VersionsInit
  <2>2. \A l \in Loaders : fixed[l] = {} /\ recent[l] = {}
    BY <2>1
  <2> QED  BY <2>1, <2>2 DEF VersionsInv
<1>2. VersionsInv /\ [VersionsNext]_versions => VersionsInv'
  <2> SUFFICES ASSUME VersionsInv, [VersionsNext]_versions PROVE VersionsInv'
    OBVIOUS
  <2>1. CASE UNCHANGED versions
    BY <2>1 DEF versions, VersionsInv, Justified, Needed
  <2>2. CASE Publish
    <3>1. published' \subseteq Catalogs
      BY <2>2 DEF Publish, VersionsInv
    <3> QED  BY <2>2, <3>1 DEF Publish, VersionsInv, Justified, Needed
  <2>3. ASSUME NEW s \in Specs, LoadClassPackage(s) PROVE VersionsInv'
    <3>1. PICK v \in BestMatches(Normalized(s)) : cached' = cached \cup {v}
      BY <2>3 DEF LoadClassPackage
    <3>2. v \in Versions
      BY <3>1, VersionAssumption, BestMatchIsFound DEF VersionsInv
    <3>3. cached' \subseteq Versions
      BY <3>1, <3>2 DEF VersionsInv
    <3> QED  BY <2>3, <3>3 DEF LoadClassPackage, VersionsInv, Justified, Needed
  <2> QED
    BY <2>1, <2>2, <2>3, VersionAssumption, DirectoryKeeps, CatalogKeeps, TaskBoundsKeep
       DEF VersionsNext
<1> QED  BY <1>1, <1>2, PTL DEF VersionsSpec

\* "the engine already loaded version 0.3 it can still use it"
\* (CombinedPackageLoader, its fixation tables and _get_best_package_match):
\* whatever is published meanwhile, a task loads what was asked for, and in a
\* version that is saved with the environment unless that version was needed
\* for something that no saved version fits.  Versions may be any pairs of
\* natural numbers.
THEOREM SavedVersionsAreKept ==
    VersionsSpec => []VersionsAreKept
<1>1. VersionsInv => VersionsAreKept
  BY DEF VersionsInv, VersionsAreKept, Justified
<1> QED  BY <1>1, VersionsInduction, PTL

-----------------------------------------------------------------------------
(* The Cloud Foundry service broker *)

Environments == [there : BOOLEAN, services : SUBSET Nat, version : Nat,
                 status : {"ready", "deploying"}]
Rows == [service : Nat, env : Nat]
BrokerCalls ==
    [pc : {"idle", "space", "verify", "create", "map", "instance", "configure", "call", "deploy"},
     op : {"none", "provision", "deprovision", "bind"},
     instance : ServiceInstances \cup {None}, space : Spaces \cup {None},
     env : Nat, service : Nat, session : [services : SUBSET Nat, version : Nat]]

BrokerTypeOK ==
    /\ spaceRows \in [Spaces -> Nat]
    /\ instanceRows \in [ServiceInstances -> Rows]
    /\ accepted \in [ServiceInstances -> Rows]
    /\ murano \in Seq(Environments)
    /\ broker \in [Brokers -> BrokerCalls]
    /\ calls \in Nat

\* A session whose version is still that of the environment has its services.
SessionFits(c) ==
    /\ c.env \in DOMAIN murano
    /\ c.session.version <= murano[c.env].version
    /\ c.session.version = murano[c.env].version /\ murano[c.env].status = "ready"
       => c.session.services = murano[c.env].services

\* What a request knows: as long as its instance is not provisioned again, the
\* row of it is its own.
Early == {"space", "verify", "create", "map", "instance"}
CallKnows(c) ==
    /\ c.pc # "idle" => c.instance \in ServiceInstances /\ c.service \in 1..calls
    /\ c.pc \in Early =>
          /\ c.op = "provision" /\ c.space \in Spaces
          /\ c.instance \notin repeated => instanceRows[c.instance] = NoRow
    /\ c.pc \in {"configure", "deploy"} /\ c.op = "provision" /\ c.instance \notin repeated
       => instanceRows[c.instance] = [service |-> c.service, env |-> c.env]
    /\ c.pc = "deploy" => c.op \in {"provision", "deprovision"} /\ SessionFits(c)
    /\ c.pc = "idle" <=> c.op = "none"

\* Services that a request or a row has for an instance.
Named(i, k) ==
    \/ \E b \in Brokers : broker[b].pc # "idle" /\ broker[b].instance = i /\ broker[b].service = k
    \/ instanceRows[i] # NoRow /\ instanceRows[i].service = k

\* No service is of two instances.
NamesApart ==
    /\ \A i \in ServiceInstances, k \in Nat : Named(i, k) => k \in 1..calls
    /\ \A i, j \in ServiceInstances, k \in Nat : Named(i, k) /\ Named(j, k) => i = j

\* One request provisions an instance.
ProvisionedOnce ==
    \A b, d \in Brokers :
        broker[b].op = "provision" /\ broker[d].op = "provision" /\ broker[b].instance = broker[d].instance
        => b = d \/ broker[b].instance \in repeated

AcceptedThere(i) ==
    accepted[i] # NoRow =>
        /\ instanceRows[i] = accepted[i] /\ accepted[i].env \in DOMAIN murano
        /\ InMurano(accepted[i].env) => accepted[i].service \in murano[accepted[i].env].services

BrokerInv ==
    /\ BrokerTypeOK
    /\ \A b \in Brokers : CallKnows(broker[b])
    /\ NamesApart
    /\ ProvisionedOnce
    /\ \A i \in ServiceInstances \ repeated : AcceptedThere(i)

\* The environments of Murano only get newer, and are changed while they are
\* being deployed.
MuranoGoesOn ==
    \A e \in DOMAIN murano :
        /\ e \in DOMAIN murano'
        /\ murano[e].version <= murano'[e].version
        /\ murano'[e].version = murano[e].version /\ murano'[e].status = "ready"
           => murano[e].status = "ready" /\ murano'[e].services = murano[e].services

\* What requests that take no step know stays true.
LEMMA OthersKnow ==
  ASSUME BrokerInv, NEW d \in Brokers, broker'[d] = broker[d],
         calls' \in Nat, calls <= calls', MuranoGoesOn, BrokerTypeOK',
         repeated \subseteq repeated',
         broker[d].op = "provision" /\ broker[d].instance \notin repeated'
         => instanceRows'[broker[d].instance] = instanceRows[broker[d].instance]
  PROVE  CallKnows(broker[d])'
<1> DEFINE c == broker[d]
<1>1. CallKnows(c) /\ calls \in Nat /\ c \in BrokerCalls
  BY DEF BrokerInv, BrokerTypeOK
<1>2. c.pc = "deploy" => SessionFits(broker[d])'
  <2> SUFFICES ASSUME c.pc = "deploy" PROVE SessionFits(broker[d])'
    OBVIOUS
  <2>1. SessionFits(c)
    BY <1>1 DEF CallKnows
  <2>2. /\ c.env \in DOMAIN murano' /\ murano[c.env].version <= murano'[c.env].version
        /\ murano'[c.env].version = murano[c.env].version /\ murano'[c.env].status = "ready"
           => murano[c.env].status = "ready" /\ murano'[c.env].services = murano[c.env].services
    BY <2>1 DEF SessionFits, MuranoGoesOn
  <2>3. /\ murano[c.env] \in Environments /\ murano'[c.env] \in Environments
    BY <2>1, <2>2, ElementOfSeq DEF SessionFits, BrokerInv, BrokerTypeOK
  <2>4. /\ murano[c.env].version \in Nat /\ murano'[c.env].version \in Nat
        /\ c.session.version \in Nat
    BY <1>1, <2>3 DEF Environments, BrokerCalls
  <2> QED  BY <2>1, <2>2, <2>4 DEF SessionFits
<1>3. c.service \in Nat
  BY <1>1 DEF BrokerCalls
<1> QED  BY <1>1, <1>2, <1>3 DEF CallKnows, Early

\* Names do not get more.
NamesFewer ==
    \A i \in ServiceInstances, k \in Nat : Named(i, k)' => Named(i, k)
LEMMA NamesStayApart ==
  ASSUME BrokerInv, NamesFewer, calls' \in Nat, calls <= calls'
  PROVE  NamesApart'
<1>1. NamesApart /\ calls \in Nat
  BY DEF BrokerInv, BrokerTypeOK
<1>2. \A i \in ServiceInstances, k \in Nat : Named(i, k)' => k \in 1..calls'
  BY <1>1 DEF NamesApart, NamesFewer
<1>3. \A i, j \in ServiceInstances, k \in Nat : Named(i, k)' /\ Named(j, k)' => i = j
  BY <1>1 DEF NamesApart, NamesFewer
<1> QED  BY <1>2, <1>3 DEF NamesApart

\* The sequence of environments when one of them changes.
LEMMA OneChanges ==
  ASSUME murano \in Seq(Environments), NEW e \in DOMAIN murano, NEW x \in Environments,
         murano' = [murano EXCEPT ![e] = x]
  PROVE  /\ murano' \in Seq(Environments) /\ DOMAIN murano' = DOMAIN murano
         /\ murano'[e] = x
         /\ \A d \in DOMAIN murano \ {e} : murano'[d] = murano[d]
<1>1. DOMAIN murano = 1..Len(murano) /\ Len(murano) \in Nat
  BY LenProperties
<1>2. /\ murano' \in Seq(Environments) /\ Len(murano') = Len(murano)
      /\ \A j \in 1..Len(murano) : murano'[j] = IF j = e THEN x ELSE murano[j]
  BY <1>1, ExceptSeq
<1>3. DOMAIN murano' = 1..Len(murano')
  BY <1>2, LenProperties
<1> QED  BY <1>1, <1>2, <1>3

\* What remains to be shown when one request takes a step.
LEMMA RequestStep ==
  ASSUME BrokerInv, NEW b \in Brokers,
         \A d \in Brokers \ {b} : broker'[d] = broker[d],
         BrokerTypeOK', CallKnows(broker[b])', NamesApart', ProvisionedOnce',
         calls <= calls', MuranoGoesOn, repeated \subseteq repeated',
         \A i \in ServiceInstances :
            instanceRows'[i] = instanceRows[i]
            \/ (broker[b].op = "provision" /\ i = broker[b].instance),
         \A i \in ServiceInstances \ repeated' : AcceptedThere(i)'
  PROVE  BrokerInv'
<1>1. calls' \in Nat
  BY DEF BrokerTypeOK
<1>2. \A d \in Brokers : CallKnows(broker[d])'
  <2> TAKE d \in Brokers
  <2>1. CASE d = b
    BY <2>1
  <2>2. CASE d # b
    <3>1. ASSUME broker[d].op = "provision", broker[d].instance \notin repeated'
          PROVE  instanceRows'[broker[d].instance] = instanceRows[broker[d].instance]
      <4>1. broker[d].instance \in ServiceInstances
        BY <3>1 DEF BrokerInv, CallKnows
      <4>2. ~(broker[b].op = "provision" /\ broker[d].instance = broker[b].instance)
        BY <2>2, <3>1 DEF BrokerInv, ProvisionedOnce
      <4> QED  BY <4>1, <4>2
    <3> QED  BY <1>1, <2>2, <3>1, OthersKnow
  <2> QED  BY <2>1, <2>2
<1> QED  BY <1>2 DEF BrokerInv

\* Nobody provisions who did not before.
LEMMA OnceStays ==
  ASSUME BrokerInv, repeated \subseteq repeated',
         \A d \in Brokers : broker'[d].op = "provision" =>
             broker[d].op = "provision" /\ broker[d].instance = broker'[d].instance
  PROVE  ProvisionedOnce'
BY DEF BrokerInv, ProvisionedOnce

\* What was accepted stays known when the row and the services stay.
LEMMA AcceptedStays ==
  ASSUME BrokerInv, NEW i \in ServiceInstances, i \notin repeated,
         accepted'[i] = accepted[i], instanceRows'[i] = instanceRows[i],
         MuranoGoesOn, 
         \A e \in DOMAIN murano : murano'[e].there =>
             murano[e].there /\ (accepted[i].env = e /\ accepted[i].service \in murano[e].services
                                 => accepted[i].service \in murano'[e].services)
  PROVE  AcceptedThere(i)'
BY DEF BrokerInv, AcceptedThere, MuranoGoesOn, InMurano

\* The fields of a request, of a row and of no request.
LEMMA BrokerRecords ==
    /\ NoCall \in BrokerCalls /\ NoCall.pc = "idle" /\ NoCall.op = "none"
    /\ NoRow \in Rows /\ NoRow.service = 0 /\ Env \in Environments
  BY DEF NoCall, BrokerCalls, NoRow, Rows, Env, None, Environments

\* Nothing happens to Murano.
LEMMA SameMurano ==
  ASSUME BrokerInv, murano' = murano
  PROVE  MuranoGoesOn
<1> SUFFICES ASSUME NEW e \in DOMAIN murano PROVE murano[e].version <= murano[e].version
  BY DEF MuranoGoesOn
<1>1. murano[e] \in Environments
  BY ElementOfSeq DEF BrokerInv, BrokerTypeOK
<1> QED  BY <1>1 DEF Environments

\* A request is given up: nothing but itself is lost.
LEMMA GiveUpKeeps ==
  ASSUME BrokerInv, NEW b \in Brokers, GiveUpCall(b),
         UNCHANGED <<spaceRows, instanceRows, calls, repeated>>
  PROVE  BrokerInv'
<1>1. /\ broker \in [Brokers -> BrokerCalls] /\ BrokerTypeOK
      /\ broker' = [broker EXCEPT ![b] = NoCall] /\ UNCHANGED <<murano, accepted>>
      /\ calls \in Nat
  BY DEF BrokerInv, BrokerTypeOK, GiveUpCall
<1>2. broker'[b] = NoCall /\ \A d \in Brokers \ {b} : broker'[d] = broker[d]
  BY <1>1
<1>3. BrokerTypeOK'
  BY <1>1, BrokerRecords DEF BrokerTypeOK
<1>4. CallKnows(broker[b])'
  BY <1>2, BrokerRecords DEF CallKnows, Early
<1>5. MuranoGoesOn
  BY <1>1, SameMurano
<1>6. NamesFewer
  BY <1>1, <1>2, BrokerRecords DEF NamesFewer, Named
<1>7. NamesApart'
  BY <1>1, <1>6, NamesStayApart
<1>8. ProvisionedOnce'
  BY <1>2, BrokerRecords, OnceStays
<1>9. \A i \in ServiceInstances \ repeated' : AcceptedThere(i)'
  BY <1>1, <1>5, AcceptedStays
<1> QED  BY <1>1, <1>2, <1>3, <1>4, <1>5, <1>7, <1>8, <1>9, RequestStep

\* A request for an instance that was not seen, or was seen before.
LEMMA BeginProvisionKeeps ==
  ASSUME BrokerInv, NEW b \in Brokers, BeginProvision(b)
  PROVE  BrokerInv'
<1>1. PICK i \in ServiceInstances, s \in Spaces :
        /\ Receive(b, [NoCall EXCEPT !.pc = "space", !.op = "provision", !.instance = i,
                                     !.space = s, !.service = calls + 1])
        /\ repeated' = repeated \cup
               IF \/ instanceRows[i] # NoRow
                  \/ \E c \in Brokers : /\ broker[c].op = "provision"
                                        /\ broker[c].instance = i
               THEN {i} ELSE {}
  BY DEF BeginProvision
<1> DEFINE r == [NoCall EXCEPT !.pc = "space", !.op = "provision", !.instance = i,
                                     !.space = s, !.service = calls + 1]
<1>2. /\ broker \in [Brokers -> BrokerCalls] /\ BrokerTypeOK /\ calls \in Nat
      /\ calls' = calls + 1 /\ broker' = [broker EXCEPT ![b] = r]
      /\ UNCHANGED <<spaceRows, instanceRows, murano, accepted>>
      /\ broker[b].pc = "idle"
  BY <1>1 DEF BrokerInv, BrokerTypeOK, Receive
<1>0. PICK k \in Nat : k = calls + 1
  BY <1>2
<1>a. r = [NoCall EXCEPT !.pc = "space", !.op = "provision", !.instance = i, !.space = s, !.service = k]
  BY <1>0
<1> HIDE DEF r
<1>b. NoCall \in BrokerCalls
  BY BrokerRecords
<1>3. /\ r \in BrokerCalls
      /\ r.pc = "space" /\ r.op = "provision" /\ r.instance = i /\ r.space = s /\ r.service = calls + 1
  BY <1>0, <1>a, <1>b DEF BrokerCalls
<1>4. broker'[b] = r /\ \A d \in Brokers \ {b} : broker'[d] = broker[d]
  BY <1>2
<1>5. BrokerTypeOK'
  BY <1>2, <1>3 DEF BrokerTypeOK
<1>6. CallKnows(broker[b])'
  BY <1>1, <1>2, <1>3, <1>4 DEF CallKnows, Early
<1>7. MuranoGoesOn
  BY <1>2, SameMurano
<1>8. NamesApart'
  <2>1. ASSUME NEW j \in ServiceInstances, NEW n \in Nat, Named(j, n)'
        PROVE  Named(j, n) \/ (j = i /\ n = calls + 1)
    BY <1>2, <1>3, <1>4, <2>1 DEF Named
  <2>2. \A j \in ServiceInstances, n \in Nat : Named(j, n) => n # calls + 1 /\ n \in 1..calls
    BY <1>2 DEF BrokerInv, NamesApart
  <2> QED  BY <1>2, <2>1, <2>2 DEF BrokerInv, NamesApart
<1>9. ProvisionedOnce'
  <2> SUFFICES ASSUME NEW c \in Brokers, NEW d \in Brokers, c # d,
                      broker'[c].op = "provision", broker'[d].op = "provision",
                      broker'[c].instance = broker'[d].instance
               PROVE  broker'[c].instance \in repeated'
    BY DEF ProvisionedOnce
  <2>1. CASE c = b \/ d = b
    BY <1>1, <1>3, <1>4, <2>1
  <2>2. CASE c # b /\ d # b
    BY <1>1, <1>4, <2>2 DEF BrokerInv, ProvisionedOnce
  <2> QED  BY <2>1, <2>2
<1>10. \A j \in ServiceInstances \ repeated' : AcceptedThere(j)'
  BY <1>1, <1>2, <1>7, AcceptedStays
<1> QED  BY <1>1, <1>2, <1>4, <1>5, <1>6, <1>7, <1>8, <1>9, <1>10, RequestStep

\* Looking for the environment of the space changes nothing that is known of
\* instances.
LEMMA LookingKeeps ==
  ASSUME BrokerInv, NEW b \in Brokers, broker[b].pc \in Early,
         broker' = [broker EXCEPT ![b] = broker'[b]], broker'[b] \in BrokerCalls,
         broker'[b].pc \in Early, broker'[b].op = broker[b].op,
         broker'[b].instance = broker[b].instance, broker'[b].space = broker[b].space,
         broker'[b].service = broker[b].service,
         UNCHANGED <<instanceRows, calls, accepted, repeated>>,
         spaceRows' \in [Spaces -> Nat], murano' \in Seq(Environments), MuranoGoesOn,
         \A e \in DOMAIN murano : murano'[e] = murano[e]
  PROVE  BrokerInv'
<1>1. /\ broker \in [Brokers -> BrokerCalls] /\ BrokerTypeOK /\ calls \in Nat
      /\ CallKnows(broker[b])
  BY DEF BrokerInv, BrokerTypeOK
<1>2. \A d \in Brokers \ {b} : broker'[d] = broker[d]
  BY <1>1
<1>3. BrokerTypeOK'
  BY <1>1 DEF BrokerTypeOK
<1>4. CallKnows(broker[b])'
  BY <1>1 DEF CallKnows, Early
<1>5. NamesFewer
  BY <1>1, <1>2 DEF NamesFewer, Named, Early
<1>6. NamesApart'
  BY <1>1, <1>5, NamesStayApart
<1>7. ProvisionedOnce'
  BY <1>2, OnceStays
<1>8. \A i \in ServiceInstances \ repeated' : AcceptedThere(i)'
  BY AcceptedStays
<1> QED  BY <1>1, <1>2, <1>3, <1>4, <1>6, <1>7, <1>8, RequestStep

LEMMA EarlyKeeps ==
  ASSUME BrokerInv, NEW b \in Brokers,
         LookUpSpace(b) \/ VerifyEnvironment(b) \/ CreateForSpace(b) \/ MapSpace(b)
  PROVE  BrokerInv'
<1>1. /\ broker \in [Brokers -> BrokerCalls] /\ broker[b] \in BrokerCalls
      /\ spaceRows \in [Spaces -> Nat] /\ murano \in Seq(Environments)
      /\ broker[b].pc \in Early /\ broker[b].space \in Spaces /\ broker[b].env \in Nat
      /\ UNCHANGED <<instanceRows, calls, accepted, repeated>>
  BY DEF BrokerInv, BrokerTypeOK, BrokerCalls, CallKnows, Early,
         LookUpSpace, VerifyEnvironment, CreateForSpace, MapSpace
<1>2. ASSUME NEW e \in Nat, NEW p \in Early, broker' = [broker EXCEPT ![b].env = e, ![b].pc = p]
      PROVE  /\ broker' = [broker EXCEPT ![b] = broker'[b]] /\ broker'[b] \in BrokerCalls
             /\ broker'[b].pc \in Early /\ broker'[b].op = broker[b].op
             /\ broker'[b].instance = broker[b].instance /\ broker'[b].space = broker[b].space
             /\ broker'[b].service = broker[b].service
  <2>1. /\ broker'[b] = [broker[b] EXCEPT !.env = e, !.pc = p]
        /\ broker' = [broker EXCEPT ![b] = broker'[b]]
    BY <1>1, <1>2
  <2>2. p \in {"space", "verify", "create", "map", "instance"}
    BY DEF Early
  <2>3. /\ broker'[b] \in BrokerCalls /\ broker'[b].pc = p /\ broker'[b].op = broker[b].op
        /\ broker'[b].instance = broker[b].instance /\ broker'[b].space = broker[b].space
        /\ broker'[b].service = broker[b].service
    BY <1>1, <2>1, <2>2 DEF BrokerCalls
  <2> QED  BY <2>1, <2>3
<1>3. ASSUME NEW p \in Early, Go(b, p)
      PROVE  broker' = [broker EXCEPT ![b].env = broker[b].env, ![b].pc = p]
  <2>1. broker' = [broker EXCEPT ![b].pc = p]
    BY <1>3 DEF Go
  <2>2. [broker[b] EXCEPT !.env = broker[b].env, !.pc = p] = [broker[b] EXCEPT !.pc = p]
    BY <1>1 DEF BrokerCalls
  <2> QED  BY <1>1, <2>1, <2>2
<1>4. CASE LookUpSpace(b)
  <2> DEFINE p == IF spaceRows[broker[b].space] = None THEN "create" ELSE "verify"
             e == spaceRows[broker[b].space]
  <2>1. e \in Nat /\ p \in Early /\ broker' = [broker EXCEPT ![b].env = e, ![b].pc = p]
        /\ UNCHANGED <<spaceRows, murano>>
    BY <1>1, <1>4 DEF LookUpSpace, Early
  <2> HIDE DEF p, e
  <2>2. MuranoGoesOn
    BY <2>1, SameMurano
  <2> QED  BY <1>1, <1>2, <2>1, <2>2, LookingKeeps
<1>5. CASE VerifyEnvironment(b)
  <2> DEFINE p == IF InMurano(broker[b].env) THEN "instance" ELSE "create"
  <2>1. p \in Early /\ Go(b, p) /\ UNCHANGED <<spaceRows, murano>>
    BY <1>5 DEF VerifyEnvironment, Early
  <2> HIDE DEF p
  <2>2. MuranoGoesOn
    BY <2>1, SameMurano
  <2> QED  BY <1>1, <1>2, <1>3, <2>1, <2>2, LookingKeeps
<1>6. CASE CreateForSpace(b)
  <2>1. /\ murano' = Append(murano, Env) /\ Len(murano) + 1 \in Nat /\ "map" \in Early
        /\ broker' = [broker EXCEPT ![b].env = Len(murano) + 1, ![b].pc = "map"]
        /\ spaceRows' = spaceRows
    BY <1>1, <1>6, LenProperties DEF CreateForSpace, Early
  <2>2. /\ murano' \in Seq(Environments) /\ Len(murano') = Len(murano) + 1
        /\ \A e \in 1..Len(murano) : murano'[e] = murano[e]
    BY <1>1, <2>1, BrokerRecords, AppendProperties
  <2>3. /\ DOMAIN murano = 1..Len(murano) /\ DOMAIN murano' = 1..Len(murano')
        /\ Len(murano) \in Nat
    BY <1>1, <2>2, LenProperties
  <2>4. \A e \in DOMAIN murano : e \in DOMAIN murano' /\ murano'[e] = murano[e]
    BY <2>2, <2>3
  <2>5. \A e \in DOMAIN murano : murano[e].version \in Nat
    <3>1. \A e \in DOMAIN murano : murano[e] \in Environments
      BY <1>1, <2>3, ElementOfSeq
    <3> QED  BY <3>1 DEF Environments
  <2>6. MuranoGoesOn
    BY <2>4, <2>5 DEF MuranoGoesOn
  <2> QED  BY <1>1, <1>2, <2>1, <2>2, <2>4, <2>6, LookingKeeps
<1>7. CASE MapSpace(b)
  <2>1. /\ spaceRows' = [spaceRows EXCEPT ![broker[b].space] = broker[b].env]
        /\ Go(b, "instance") /\ murano' = murano /\ "instance" \in Early
    BY <1>7 DEF MapSpace, Early
  <2>2. spaceRows' \in [Spaces -> Nat]
    BY <1>1, <2>1
  <2>3. MuranoGoesOn
    BY <2>1, SameMurano
  <2> QED  BY <1>1, <1>2, <1>3, <2>1, <2>2, <2>3, LookingKeeps
<1> QED  BY <1>4, <1>5, <1>6, <1>7

\* The row of an instance gets its service the first time, and whoever finds
\* one has provisioned it again.
LEMMA SetInstanceKeeps ==
  ASSUME BrokerInv, NEW b \in Brokers, SetInstance(b)
  PROVE  BrokerInv'
<1> DEFINE i == broker[b].instance
           row == InstanceRow(b)
<1>1. /\ broker \in [Brokers -> BrokerCalls] /\ broker[b] \in BrokerCalls /\ BrokerTypeOK
      /\ instanceRows \in [ServiceInstances -> Rows] /\ calls \in Nat
      /\ broker[b].pc = "instance" /\ broker[b].env \in Nat /\ broker[b].service \in Nat
      /\ UNCHANGED <<spaceRows, murano, calls, accepted, repeated>>
      /\ instanceRows' = [instanceRows EXCEPT ![i] = row]
      /\ broker' = [broker EXCEPT ![b].pc = "configure"]
  BY DEF BrokerInv, BrokerTypeOK, BrokerCalls, SetInstance, Go
<1>2. /\ i \in ServiceInstances /\ broker[b].service \in 1..calls /\ broker[b].op = "provision"
      /\ i \notin repeated => instanceRows[i] = NoRow
  BY <1>1 DEF BrokerInv, CallKnows, Early
<1>3. row \in Rows /\ instanceRows'[i] = row /\ \A j \in ServiceInstances \ {i} : instanceRows'[j] = instanceRows[j]
  <2>1. CASE instanceRows[i] = NoRow
    BY <1>1, <1>2, <2>1 DEF InstanceRow, Rows
  <2>2. CASE instanceRows[i] # NoRow
    <3>1. row = [instanceRows[i] EXCEPT !.env = broker[b].env]
      BY <2>2 DEF InstanceRow
    <3>2. row \in Rows
      BY <1>1, <1>2, <3>1 DEF Rows
    <3> QED  BY <1>1, <1>2, <3>2
  <2> QED  BY <2>1, <2>2
<1>4. /\ instanceRows[i] = NoRow => row = [service |-> broker[b].service, env |-> broker[b].env]
      /\ instanceRows[i] # NoRow => row.service = instanceRows[i].service
  <2>1. instanceRows[i] \in Rows
    BY <1>1, <1>2
  <2> QED  BY <2>1 DEF InstanceRow, Rows
<1> HIDE DEF row
<1>5. /\ broker'[b] = [broker[b] EXCEPT !.pc = "configure"]
      /\ \A d \in Brokers \ {b} : broker'[d] = broker[d]
  BY <1>1
<1>6. /\ broker'[b] \in BrokerCalls /\ broker'[b].pc = "configure" /\ broker'[b].op = "provision"
      /\ broker'[b].instance = i /\ broker'[b].service = broker[b].service
      /\ broker'[b].env = broker[b].env
  BY <1>1, <1>2, <1>5 DEF BrokerCalls
<1> HIDE DEF i
<1>7. BrokerTypeOK'
  <2>1. broker' \in [Brokers -> BrokerCalls]
    BY <1>1, <1>5, <1>6
  <2>2. instanceRows' \in [ServiceInstances -> Rows]
    BY <1>1, <1>3
  <2> QED  BY <1>1, <2>1, <2>2 DEF BrokerTypeOK
<1>8. CallKnows(broker[b])'
  BY <1>1, <1>2, <1>3, <1>4, <1>6 DEF CallKnows, Early
<1>9. NamesFewer
  <2> SUFFICES ASSUME NEW j \in ServiceInstances, NEW k \in Nat, Named(j, k)' PROVE Named(j, k)
    BY DEF NamesFewer
  <2>1. CASE \E d \in Brokers : broker'[d].pc # "idle" /\ broker'[d].instance = j /\ broker'[d].service = k
    BY <1>1, <1>5, <1>6, <2>1 DEF Named, i
  <2>2. CASE instanceRows'[j] # NoRow /\ instanceRows'[j].service = k
    <3>1. CASE j # i
      BY <1>3, <2>2, <3>1 DEF Named
    <3>2. CASE j = i /\ instanceRows[i] = NoRow
      <4>1. k = broker[b].service
        BY <1>3, <1>4, <2>2, <3>2
      <4> QED  BY <1>1, <3>2, <4>1 DEF Named, i
    <3>3. CASE j = i /\ instanceRows[i] # NoRow
      BY <1>3, <1>4, <2>2, <3>3 DEF Named
    <3> QED  BY <3>1, <3>2, <3>3
  <2> QED  BY <2>1, <2>2 DEF Named
<1>10. NamesApart'
  BY <1>1, <1>9, NamesStayApart
<1>11. ProvisionedOnce'
  BY <1>1, <1>2, <1>5, <1>6, OnceStays DEF i
<1>12. MuranoGoesOn
  BY <1>1, SameMurano
<1>13. \A j \in ServiceInstances \ repeated' : AcceptedThere(j)'
  <2> TAKE j \in ServiceInstances \ repeated'
  <2>1. CASE j = i
    <3>1. instanceRows[i] = NoRow /\ AcceptedThere(i)
      BY <1>1, <1>2, <2>1 DEF BrokerInv
    <3>2. accepted[i] = NoRow
      BY <3>1 DEF AcceptedThere
    <3> QED  BY <1>1, <2>1, <3>2 DEF AcceptedThere
  <2>2. CASE j # i
    BY <1>1, <1>3, <1>12, <2>2, AcceptedStays
  <2> QED  BY <2>1, <2>2
<1>14. calls <= calls'
  BY <1>1
<1> QED  BY <1>1, <1>2, <1>3, <1>5, <1>7, <1>8, <1>10, <1>11, <1>12, <1>13, <1>14, RequestStep DEF i

\* A request on a row takes the names from it.
LEMMA BeginOnRowKeeps ==
  ASSUME BrokerInv, NEW b \in Brokers, BeginDeprovision(b) \/ BeginBind(b)
  PROVE  BrokerInv'
<1>1. PICK op \in {"deprovision", "bind"}, i \in ServiceInstances :
        /\ instanceRows[i] # NoRow
        /\ Receive(b, [NoCall EXCEPT !.pc = "configure", !.op = op, !.instance = i,
                                     !.env = instanceRows[i].env,
                                     !.service = instanceRows[i].service])
        /\ UNCHANGED repeated
  BY DEF BeginDeprovision, BeginBind, BeginOnRow
<1> DEFINE r == [NoCall EXCEPT !.pc = "configure", !.op = op, !.instance = i,
                                     !.env = instanceRows[i].env,
                                     !.service = instanceRows[i].service]
<1>2. /\ broker \in [Brokers -> BrokerCalls] /\ BrokerTypeOK /\ calls \in Nat
      /\ calls' = calls + 1 /\ broker' = [broker EXCEPT ![b] = r]
      /\ UNCHANGED <<spaceRows, instanceRows, murano, accepted, repeated>>
      /\ broker[b].pc = "idle" /\ instanceRows[i] \in Rows
  BY <1>1 DEF BrokerInv, BrokerTypeOK, Receive
<1>3. instanceRows[i].env \in Nat /\ instanceRows[i].service \in Nat
  BY <1>2 DEF Rows
<1>4. NoCall \in BrokerCalls
  BY BrokerRecords
<1>5. /\ r \in BrokerCalls
      /\ r.pc = "configure" /\ r.op = op /\ r.instance = i /\ r.service = instanceRows[i].service
  BY <1>1, <1>3, <1>4 DEF BrokerCalls
<1> HIDE DEF r
<1>6. broker'[b] = r /\ \A d \in Brokers \ {b} : broker'[d] = broker[d]
  BY <1>2
<1>7. BrokerTypeOK'
  BY <1>2, <1>5 DEF BrokerTypeOK
<1>8. NamesFewer
  BY <1>1, <1>2, <1>5, <1>6 DEF NamesFewer, Named
<1>9. NamesApart'
  BY <1>2, <1>8, NamesStayApart
<1>10. CallKnows(broker[b])'
  <2>1. Named(i, instanceRows[i].service)
    BY <1>1 DEF Named
  <2>2. instanceRows[i].service \in 1..calls
    BY <1>3, <2>1 DEF BrokerInv, NamesApart
  <2> QED  BY <1>2, <1>5, <1>6, <1>1, <2>2 DEF CallKnows, Early
<1>11. ProvisionedOnce'
  BY <1>1, <1>2, <1>5, <1>6, OnceStays
<1>12. MuranoGoesOn
  BY <1>2, SameMurano
<1>13. \A j \in ServiceInstances \ repeated' : AcceptedThere(j)'
  BY <1>2, <1>12, AcceptedStays
<1>14. calls <= calls'
  BY <1>2
<1> QED  BY <1>2, <1>6, <1>7, <1>9, <1>10, <1>11, <1>12, <1>13, <1>14, RequestStep

\* A session begins with what the environment has.
LEMMA ConfigureKeeps ==
  ASSUME BrokerInv, NEW b \in Brokers, Configure(b)
  PROVE  BrokerInv'
<1> DEFINE e == broker[b].env
           p == IF broker[b].op = "bind" THEN "call" ELSE "deploy"
           session == [services |-> murano[e].services, version |-> murano[e].version]
<1>1. /\ broker \in [Brokers -> BrokerCalls] /\ broker[b] \in BrokerCalls /\ BrokerTypeOK
      /\ broker[b].pc = "configure" /\ UNCHANGED <<spaceRows, instanceRows, calls, repeated>>
      /\ murano \in Seq(Environments) /\ calls \in Nat /\ CallKnows(broker[b])
  BY DEF BrokerInv, BrokerTypeOK, Configure
<1>2. CASE GiveUpCall(b)
  BY <1>1, <1>2, GiveUpKeeps
<1>3. CASE /\ InMurano(e) /\ broker' = [broker EXCEPT ![b].pc = p, ![b].session = session]
           /\ UNCHANGED <<murano, accepted>>
  <2>1. e \in DOMAIN murano /\ murano[e] \in Environments
    BY <1>1, <1>3, ElementOfSeq DEF InMurano
  <2>2. session.services \in SUBSET Nat /\ session.version \in Nat /\ murano[e].version \in Nat
        /\ session.services = murano[e].services /\ session.version = murano[e].version
        /\ session \in [services : SUBSET Nat, version : Nat]
    BY <2>1 DEF Environments
  <2>3. /\ broker'[b] = [broker[b] EXCEPT !.pc = p, !.session = session]
        /\ \A d \in Brokers \ {b} : broker'[d] = broker[d]
        /\ broker' = [broker EXCEPT ![b] = broker'[b]]
    BY <1>1, <1>3
  <2>4. p \in {"call", "deploy"} /\ (p = "deploy" <=> broker[b].op # "bind")
    OBVIOUS
  <2> HIDE DEF p, session
  <2>5. /\ broker'[b] \in BrokerCalls /\ broker'[b].pc = p /\ broker'[b].session = session
        /\ broker'[b].op = broker[b].op /\ broker'[b].instance = broker[b].instance
        /\ broker'[b].service = broker[b].service /\ broker'[b].env = e
    BY <1>1, <2>2, <2>3, <2>4 DEF BrokerCalls
  <2>6. broker[b].op \in {"none", "provision", "deprovision", "bind"}
    BY <1>1 DEF BrokerCalls
  <2>7. BrokerTypeOK'
    <3>1. broker' \in [Brokers -> BrokerCalls]
      BY <1>1, <2>3, <2>5
    <3> QED  BY <1>1, <1>3, <3>1 DEF BrokerTypeOK
  <2>8. SessionFits(broker[b])'
    BY <1>3, <2>1, <2>2, <2>5 DEF SessionFits
  <2>9. broker[b].op # "none"
    BY <1>1 DEF CallKnows
  <2>10. CallKnows(broker[b])'
    BY <1>1, <1>3, <2>4, <2>5, <2>6, <2>8, <2>9 DEF CallKnows, Early
  <2>11. \A d \in Brokers : /\ broker'[d].instance = broker[d].instance
                            /\ broker'[d].service = broker[d].service /\ broker'[d].op = broker[d].op
                            /\ broker'[d].pc # "idle" => broker[d].pc # "idle"
    BY <1>1, <2>3, <2>5
  <2>12. NamesApart'
    <3>1. NamesFewer
      BY <1>1, <2>11 DEF NamesFewer, Named
    <3> QED  BY <1>1, <3>1, NamesStayApart
  <2>13. ProvisionedOnce'
    BY <1>1, <2>11, OnceStays
  <2>14. MuranoGoesOn
    BY <1>3, SameMurano
  <2>15. \A j \in ServiceInstances \ repeated' : AcceptedThere(j)'
    BY <1>1, <1>3, <2>14, AcceptedStays
  <2>16. calls <= calls'
    BY <1>1
  <2> QED  BY <1>1, <2>3, <2>7, <2>10, <2>12, <2>13, <2>14, <2>15, <2>16, RequestStep
<1> QED  BY <1>2, <1>3 DEF Configure

\* A deployment is accepted for the services that the environment has, plus
\* or minus that of the instance, which is no other instance's.
LEMMA DeployKeeps ==
  ASSUME BrokerInv, NEW b \in Brokers, Deploy(b)
  PROVE  BrokerInv'
<1> DEFINE c == broker[b]
           services == IF c.op = "provision" THEN c.session.services \cup {c.service}
                       ELSE c.session.services \ {c.service}
           row == IF c.op = "provision" THEN [service |-> c.service, env |-> c.env] ELSE NoRow
           x == [murano[c.env] EXCEPT !.status = "deploying", !.services = services]
<1>1. /\ broker \in [Brokers -> BrokerCalls] /\ c \in BrokerCalls /\ BrokerTypeOK
      /\ c.pc = "deploy" /\ UNCHANGED <<spaceRows, instanceRows, calls, repeated>>
      /\ murano \in Seq(Environments) /\ calls \in Nat /\ CallKnows(c)
  BY DEF BrokerInv, BrokerTypeOK, Deploy
<1>2. CASE GiveUpCall(b)
  BY <1>1, <1>2, GiveUpKeeps
<1>3. CASE /\ InMurano(c.env) /\ murano[c.env].version = c.session.version
           /\ murano[c.env].status = "ready"
           /\ murano' = [murano EXCEPT ![c.env].status = "deploying", ![c.env].services = services]
           /\ accepted' = [accepted EXCEPT ![c.instance] = row]
           /\ broker' = [broker EXCEPT ![b] = NoCall]
  <2>1. /\ c.env \in DOMAIN murano /\ murano[c.env] \in Environments
        /\ c.session.services = murano[c.env].services /\ c.op \in {"provision", "deprovision"}
        /\ c.instance \in ServiceInstances
        /\ c.op = "provision" /\ c.instance \notin repeated
           => instanceRows[c.instance] = [service |-> c.service, env |-> c.env]
    BY <1>1, <1>3, ElementOfSeq DEF CallKnows, SessionFits
  <2>2. /\ services \in SUBSET Nat /\ row \in Rows /\ c.service \in Nat /\ c.env \in Nat
    BY <1>1, BrokerRecords DEF BrokerCalls, Rows
  <2>3. services \subseteq murano[c.env].services \cup {c.service}
        /\ murano[c.env].services \subseteq services \cup {c.service}
        /\ (c.op = "provision" => c.service \in services)
    BY <2>1
  <2>4. murano' = [murano EXCEPT ![c.env] = x]
    BY <1>1, <1>3, <2>1
  <2>5. /\ c.op = "provision" => row = [service |-> c.service, env |-> c.env]
        /\ c.op # "provision" => row = NoRow
    OBVIOUS
  <2> HIDE DEF services, row
  <2>6. /\ x \in Environments /\ x.status = "deploying" /\ x.services = services
        /\ x.version = murano[c.env].version /\ x.there = murano[c.env].there
    BY <2>1, <2>2 DEF Environments
  <2> HIDE DEF x
  <2>7. /\ murano' \in Seq(Environments) /\ DOMAIN murano' = DOMAIN murano
        /\ murano'[c.env] = x
        /\ \A d \in DOMAIN murano \ {c.env} : murano'[d] = murano[d]
    BY <1>1, <2>1, <2>4, <2>6, OneChanges
  <2>8. \A d \in DOMAIN murano : murano[d].version \in Nat
    <3>1. \A d \in DOMAIN murano : murano[d] \in Environments
      BY <1>1, ElementOfSeq, LenProperties
    <3> QED  BY <3>1 DEF Environments
  <2>9. MuranoGoesOn
    BY <2>6, <2>7, <2>8 DEF MuranoGoesOn
  <2>10. broker'[b] = NoCall /\ \A d \in Brokers \ {b} : broker'[d] = broker[d]
    BY <1>1, <1>3
  <2>11. BrokerTypeOK'
    <3>1. broker' \in [Brokers -> BrokerCalls]
      BY <1>1, <1>3, BrokerRecords
    <3>2. accepted' \in [ServiceInstances -> Rows]
      BY <1>1, <1>3, <2>2 DEF BrokerTypeOK
    <3> QED  BY <1>1, <2>7, <3>1, <3>2 DEF BrokerTypeOK
  <2>12. CallKnows(broker[b])'
    BY <2>10, BrokerRecords DEF CallKnows, Early
  <2>13. NamesApart'
    <3>1. NamesFewer
      BY <1>1, <2>10, BrokerRecords DEF NamesFewer, Named
    <3> QED  BY <1>1, <3>1, NamesStayApart
  <2>14. ProvisionedOnce'
    BY <1>1, <2>10, BrokerRecords, OnceStays
  <2>15. /\ accepted'[c.instance] = row
         /\ \A j \in ServiceInstances \ {c.instance} : accepted'[j] = accepted[j]
    BY <1>1, <1>3, <2>1 DEF BrokerTypeOK
  <2>16. \A j \in ServiceInstances \ repeated' : AcceptedThere(j)'
    <3> TAKE j \in ServiceInstances \ repeated'
    <3>1. CASE j = c.instance /\ c.op = "provision"
      <4>1. accepted'[j] = [service |-> c.service, env |-> c.env] /\ instanceRows'[j] = accepted'[j]
        BY <1>1, <2>1, <2>5, <2>15, <3>1
      <4>2. accepted'[j].env = c.env /\ accepted'[j].service = c.service
        BY <4>1
      <4>3. c.env \in DOMAIN murano' /\ c.service \in murano'[c.env].services
        BY <2>1, <2>3, <2>6, <2>7, <3>1
      <4> QED  BY <4>1, <4>2, <4>3 DEF AcceptedThere
    <3>2. CASE j = c.instance /\ c.op # "provision"
      BY <2>5, <2>15, <3>2 DEF AcceptedThere
    <3>3. CASE j # c.instance
      <4>1. accepted'[j] = accepted[j] /\ instanceRows'[j] = instanceRows[j] /\ j \notin repeated
        BY <1>1, <2>15, <3>3
      <4>2. CASE accepted[j] = NoRow
        BY <4>1, <4>2 DEF AcceptedThere
      <4>3. CASE accepted[j] # NoRow
        <5>1. instanceRows[j] = accepted[j] /\ accepted[j].service \in Nat
          BY <1>1, <4>1, <4>3 DEF BrokerInv, AcceptedThere, BrokerTypeOK, Rows
        <5>2. Named(j, accepted[j].service)
          BY <4>3, <5>1 DEF Named
        <5>3. Named(c.instance, c.service)
          BY <1>1 DEF Named
        <5>4. accepted[j].service # c.service
          BY <2>1, <3>3, <5>1, <5>2, <5>3 DEF BrokerInv, NamesApart
        <5> QED  BY <2>3, <2>6, <2>7, <2>9, <4>1, <5>4, AcceptedStays
      <4> QED  BY <4>2, <4>3
    <3> QED  BY <3>1, <3>2, <3>3
  <2>17. calls <= calls'
    BY <1>1
  <2> QED  BY <1>1, <2>9, <2>10, <2>11, <2>12, <2>13, <2>14, <2>16, <2>17, RequestStep
<1> QED  BY <1>2, <1>3 DEF Deploy

\* What happens in Murano leaves the services of an environment alone.
LEMMA MuranoKeeps ==
  ASSUME BrokerInv, Deployed \/ EnvironmentDeleted
  PROVE  BrokerInv'
<1>0. /\ UNCHANGED <<spaceRows, instanceRows, broker, calls, accepted, repeated>>
      /\ BrokerTypeOK /\ murano \in Seq(Environments) /\ calls \in Nat
  BY DEF BrokerInv, BrokerTypeOK, Deployed, EnvironmentDeleted
<1>1. /\ UNCHANGED <<spaceRows, instanceRows, broker, calls, accepted, repeated>>
      /\ BrokerTypeOK /\ murano \in Seq(Environments) /\ calls \in Nat
      /\ \A d \in DOMAIN murano : murano[d] \in Environments
  BY <1>0, ElementOfSeq, LenProperties
<1>2. PICK e \in DOMAIN murano, x \in Environments :
         /\ murano' = [murano EXCEPT ![e] = x]
         /\ x.services = murano[e].services /\ (x.there => murano[e].there)
         /\ murano[e].version <= x.version
         /\ x.version = murano[e].version => x.status = murano[e].status
  <2>1. CASE Deployed
    <3>1. PICK e \in DOMAIN murano :
             murano' = [murano EXCEPT ![e].status = "ready", ![e].version = @ + 1]
      BY <2>1 DEF Deployed
    <3>2. murano[e].version \in Nat
      BY <1>1 DEF Environments
    <3>3. PICK v \in Nat : v = murano[e].version + 1
      BY <3>2
    <3> DEFINE x == [murano[e] EXCEPT !.status = "ready", !.version = v]
    <3>4. murano' = [murano EXCEPT ![e] = x]
      BY <1>1, <3>1, <3>3
    <3>5. /\ x \in Environments /\ x.version = v
          /\ x.services = murano[e].services /\ (x.there => murano[e].there)
      BY <1>1 DEF Environments
    <3> HIDE DEF x
    <3>6. murano[e].version <= x.version /\ x.version # murano[e].version
      BY <3>2, <3>3, <3>5
    <3> QED  BY <3>4, <3>5, <3>6
  <2>2. CASE EnvironmentDeleted
    <3>1. PICK e \in DOMAIN murano : murano' = [murano EXCEPT ![e].there = FALSE]
      BY <2>2 DEF EnvironmentDeleted
    <3> DEFINE x == [murano[e] EXCEPT !.there = FALSE]
    <3>2. murano' = [murano EXCEPT ![e] = x]
      BY <1>1, <3>1
    <3>3. /\ x \in Environments /\ x.version = murano[e].version /\ ~x.there
          /\ x.services = murano[e].services /\ x.status = murano[e].status
          /\ murano[e].version \in Nat
      BY <1>1 DEF Environments
    <3> HIDE DEF x
    <3>4. murano[e].version <= x.version
      BY <3>3
    <3> QED  BY <3>2, <3>3, <3>4
  <2> QED  BY <2>1, <2>2
<1>3. /\ murano' \in Seq(Environments) /\ DOMAIN murano' = DOMAIN murano
      /\ murano'[e] = x
      /\ \A d \in DOMAIN murano \ {e} : murano'[d] = murano[d]
  BY <1>1, <1>2, OneChanges
<1>4. \A d \in DOMAIN murano : murano[d].version \in Nat
  BY <1>1 DEF Environments
<1>5. MuranoGoesOn
  BY <1>2, <1>3, <1>4 DEF MuranoGoesOn
<1>6. BrokerTypeOK'
  BY <1>1, <1>3 DEF BrokerTypeOK
<1>7. \A d \in Brokers : CallKnows(broker[d])'
  BY <1>1, <1>5, <1>6, OthersKnow
<1>8. NamesApart'
  <2>1. NamesFewer
    BY <1>1 DEF NamesFewer, Named
  <2> QED  BY <1>1, <2>1, NamesStayApart
<1>9. ProvisionedOnce'
  BY <1>1, OnceStays
<1>10. \A j \in ServiceInstances \ repeated' : AcceptedThere(j)'
  BY <1>1, <1>2, <1>3, <1>5, AcceptedStays
<1> QED  BY <1>6, <1>7, <1>8, <1>9, <1>10 DEF BrokerInv

\* Every request, and whatever else happens in Murano, keeps what is said of
\* the tables.
LEMMA BrokerInduction ==
    BrokerSpec => []BrokerInv
<1>1. BrokerInit => BrokerInv
  <2> SUFFICES ASSUME BrokerInit PROVE BrokerInv
    OBVIOUS
  <2>1. /\ BrokerTypeOK /\ \A b \in Brokers : broker[b] = NoCall
    BY BrokerRecords DEF BrokerInit, BrokerTypeOK, None
  <2>2. \A b \in Brokers : CallKnows(broker[b])
    BY <2>1, BrokerRecords DEF CallKnows, Early
  <2>3. \A i \in ServiceInstances : instanceRows[i] = NoRow /\ accepted[i] = NoRow
    BY DEF BrokerInit
  <2>4. \A i \in ServiceInstances, k \in Nat : ~Named(i, k)
    BY <2>1, <2>3, BrokerRecords DEF Named
  <2>5. NamesApart /\ ProvisionedOnce
    BY <2>1, <2>4, BrokerRecords DEF NamesApart, ProvisionedOnce
  <2> QED  BY <2>1, <2>2, <2>3, <2>5 DEF BrokerInv, AcceptedThere
<1>2. BrokerInv /\ [BrokerNext]_brokering => BrokerInv'
  <2> SUFFICES ASSUME BrokerInv, [BrokerNext]_brokering PROVE BrokerInv'
    OBVIOUS
  <2>1. CASE UNCHANGED brokering
    BY <2>1 DEF brokering, BrokerInv, BrokerTypeOK, CallKnows, SessionFits, NamesApart, Named,
                ProvisionedOnce, AcceptedThere, InMurano
  <2>2. ASSUME NEW b \in Brokers, FinishBind(b) PROVE BrokerInv'
    <3>1. GiveUpCall(b) /\ UNCHANGED <<spaceRows, instanceRows, calls, repeated>>
      BY <2>2 DEF FinishBind, GiveUpCall, BrokerInv
    <3> QED  BY <3>1, GiveUpKeeps
  <2> QED
    BY <2>1, <2>2, BeginProvisionKeeps, EarlyKeeps, SetInstanceKeeps, BeginOnRowKeeps,
       ConfigureKeeps, DeployKeeps, MuranoKeeps DEF BrokerNext
<1> QED  BY <1>1, <1>2, PTL DEF BrokerSpec

\* What the broker accepted for an instance it can find again
\* (CFServiceInstance rows of cfapi.provision and deprovision): the row names
\* the service and the environment it is in, though requests for one space may
\* create several environments, and the last operation is not gone while the
\* environment is there.  It holds for any number of requests at a time.
THEOREM AcceptedServicesAreKnown ==
    BrokerSpec => []AcceptedIsKnown
<1>1. BrokerInv => AcceptedIsKnown
  <2> SUFFICES ASSUME BrokerInv, NEW i \in ServiceInstances \ repeated, accepted[i] # NoRow
               PROVE  /\ instanceRows[i] = accepted[i]
                      /\ InMurano(accepted[i].env) =>
                            /\ accepted[i].service \in murano[accepted[i].env].services
                            /\ LastOperation(i) # "gone"
    BY DEF AcceptedIsKnown
  <2>1. AcceptedThere(i)
    BY DEF BrokerInv
  <2> QED  BY <2>1 DEF AcceptedThere, LastOperation
<1> QED  BY <1>1, BrokerInduction, PTL

-----------------------------------------------------------------------------
(* Modification of the model by policies *)

\* What is found is the least set that references do not leave.
LEMMA FoundIsLeast ==
  ASSUME ModificationAssumption, references \subseteq ReferencesOf
  PROVE  /\ ObjectsById \subseteq Members /\ Environment \in ObjectsById
         /\ \A r \in references : r.of \in ObjectsById => r.to \in ObjectsById
         /\ \A known \in SUBSET Members :
               Environment \in known /\ ClosedUnderReferences(known) => ObjectsById \subseteq known
<1>1. Environment \in Members
  BY DEF ModificationAssumption
<1>2. ASSUME NEW r \in references, r.of \in ObjectsById
      PROVE  r.to \in ObjectsById
  <2>1. r.to \in Members
    BY DEF ReferencesOf
  <2> QED  BY <1>2, <2>1 DEF ObjectsById, FoundFrom, ClosedUnderReferences
<1> QED  BY <1>1, <1>2 DEF ObjectsById, FoundFrom

\* The same of the model after a step.
LEMMA FoundIsLeastAfter ==
  ASSUME ModificationAssumption, NEW known \in SUBSET Members, Environment \in known,
         \A r \in references' : r.of \in known => r.to \in known
  PROVE  ObjectsById' \subseteq known
BY DEF ObjectsById, FoundFrom, ClosedUnderReferences

ModificationInv ==
    /\ references \subseteq ReferencesOf /\ removed \subseteq Members
    /\ RemovedStaysOut

\* References that go away, and those between objects that are there, bring
\* nothing into the model.
LEMMA NothingComesBack ==
  ASSUME ModificationAssumption, ModificationInv, references' \subseteq ReferencesOf,
         \A r \in references' : r \in references \/ r.to \in ObjectsById, removed' = removed
  PROVE  ModificationInv'
<1>1. /\ ObjectsById \subseteq Members /\ Environment \in ObjectsById
      /\ \A r \in references : r.of \in ObjectsById => r.to \in ObjectsById
  BY FoundIsLeast DEF ModificationInv
<1>2. \A r \in references' : r.of \in ObjectsById => r.to \in ObjectsById
  BY <1>1
<1>3. ObjectsById' \subseteq ObjectsById
  BY <1>1, <1>2, FoundIsLeastAfter
<1> QED  BY <1>3 DEF ModificationInv, RemovedStaysOut

\* An object that remove-object takes out is not found any more, unless
\* something refers to it from deep inside of a value.
LEMMA RemoveKeeps ==
  ASSUME ModificationAssumption, ModificationInv, NEW a \in ActionSpecs,
         references' = RemoveObject(a), removed' = removed \cup {a.object},
         ~ \E r \in references' : r.to = a.object /\ r.as = "nested"
  PROVE  ModificationInv'
<1>1. /\ ObjectsById \subseteq Members /\ Environment \in ObjectsById
      /\ \A r \in references : r.of \in ObjectsById => r.to \in ObjectsById
  BY FoundIsLeast DEF ModificationInv
<1>2. /\ references' \subseteq references /\ a.object \in Members
      /\ \A r \in references' : ~(r.of \in ObjectsById /\ MatchesObjectId(r, a.object))
  BY DEF RemoveObject, ActionSpecs
<1>3. \A r \in references' : r.of \in ObjectsById => r.to # a.object
  BY <1>2 DEF ModificationInv, ReferencesOf, MatchesObjectId
<1>4. ObjectsById' \subseteq ObjectsById
  BY <1>1, <1>2, FoundIsLeastAfter
<1>5. CASE a.object = Environment
  BY <1>2, <1>4, <1>5 DEF ModificationInv, RemovedStaysOut
<1>6. CASE a.object # Environment
  <2> DEFINE known == ObjectsById \ {a.object}
  <2>1. known \in SUBSET Members /\ Environment \in known
    BY <1>1, <1>6
  <2>2. \A r \in references' : r.of \in known => r.to \in known
    BY <1>1, <1>2, <1>3
  <2>3. ObjectsById' \subseteq known
    BY <2>1, <2>2, FoundIsLeastAfter
  <2> QED  BY <1>2, <2>3 DEF ModificationInv, RemovedStaysOut
<1> QED  BY <1>5, <1>6

\* A new object, to which nothing refers, may come into the model; it was not
\* taken out of it.
LEMMA AddKeeps ==
  ASSUME ModificationAssumption, ModificationInv, NEW a \in ActionSpecs,
         NewObject(a.to), a.to \notin removed, references' = AddObject(a), removed' = removed
  PROVE  ModificationInv'
<1> DEFINE new == [of |-> a.object, field |-> a.field, as |-> "value", to |-> a.to]
           known == ObjectsById \cup {a.to}
<1>1. /\ ObjectsById \subseteq Members /\ Environment \in ObjectsById
      /\ \A r \in references : r.of \in ObjectsById => r.to \in ObjectsById
  BY FoundIsLeast DEF ModificationInv
<1>2. references' \subseteq references \cup {new} /\ a.to \in Members
  BY DEF AddObject, AddRelation, ActionSpecs
<1>3. new \in ReferencesOf /\ new.to = a.to
  BY DEF ReferencesOf, ActionSpecs
<1> HIDE DEF new
<1>4. \A r \in references' : r.of \in known => r.to \in known
  BY <1>1, <1>2, <1>3 DEF NewObject
<1>5. ObjectsById' \subseteq known
  <2>1. known \in SUBSET Members /\ Environment \in known
    BY <1>1, <1>2
  <2> HIDE DEF known
  <2> QED  BY <1>4, <2>1, FoundIsLeastAfter
<1> QED  BY <1>2, <1>3, <1>5 DEF ModificationInv, RemovedStaysOut

LEMMA ApplyKeeps ==
  ASSUME ModificationAssumption, ModificationInv, cache \subseteq ActionNames,
         NEW a \in ActionSpecs, ApplyAction(a)
  PROVE  ModificationInv' /\ cache' \subseteq ActionNames
<1>0. cache' \subseteq ActionNames
  BY DEF ApplyAction, LoadAction
<1> SUFFICES ModificationInv'
  BY <1>0
<1> DEFINE carried ==
              /\ LoadAction(a.name) /\ CheckPresent(Needs(a)) /\ references' = Applied(a)
              /\ removed' = IF a.name = "remove-object"
                               /\ ~ \E r \in references' : r.to = a.object /\ r.as = "nested"
                            THEN removed \cup {a.object} ELSE removed
           refused ==
              /\ references' \in IF a.name = "remove-object"
                                 THEN {references \ gone : gone \in SUBSET (references \ Applied(a))}
                                 ELSE {references}
              /\ removed' = removed
<1>1. \/ carried
      \/ references' = references /\ removed' = removed
      \/ refused
  BY DEF ApplyAction, Fails
<1>2. ASSUME references' \subseteq references, removed' = removed
      PROVE  ModificationInv'
  BY <1>2, NothingComesBack DEF ModificationInv
<1>3. CASE references' = references /\ removed' = removed
  BY <1>2, <1>3
<1>4. CASE refused
  BY <1>2, <1>4
<1>5. CASE carried
  <2>1. a.name \in ActionNames \cup {"unknown"}
    BY DEF ActionSpecs
  <2>2. CASE a.name = "remove-object"
    <3>1. references' = RemoveObject(a)
      BY <1>5, <2>2 DEF Applied
    <3>2. CASE \E r \in references' : r.to = a.object /\ r.as = "nested"
      <4>1. references' \subseteq references /\ removed' = removed
        BY <1>5, <3>1, <3>2 DEF RemoveObject
      <4> QED  BY <1>2, <4>1
    <3>3. CASE ~ \E r \in references' : r.to = a.object /\ r.as = "nested"
      BY <1>5, <2>2, <3>1, <3>3, RemoveKeeps
    <3> QED  BY <3>2, <3>3
  <2>3. CASE a.name \in {"set-property", "remove-relation"}
    <3>1. references' \subseteq references /\ removed' = removed
      BY <1>5, <2>3 DEF Applied, SetProperty
    <3> QED  BY <1>2, <3>1
  <2>4. CASE a.name = "add-relation"
    <3>1. references' = AddRelation(a) /\ removed' = removed
      BY <1>5, <2>4 DEF Applied
    <3>2. a.to \in ObjectsById
      BY <1>5, <2>4 DEF CheckPresent, Needs
    <3> DEFINE new == [of |-> a.object, field |-> a.field, as |-> "value", to |-> a.to]
    <3>3. new \in ReferencesOf /\ new.to = a.to
      BY DEF ReferencesOf, ActionSpecs
    <3>4. references' \subseteq references \cup {new}
      BY <3>1 DEF AddRelation
    <3> HIDE DEF new
    <3>5. /\ references' \subseteq ReferencesOf
          /\ \A r \in references' : r \in references \/ r.to \in ObjectsById
      BY <3>2, <3>3, <3>4 DEF ModificationInv
    <3> QED  BY <3>1, <3>5, NothingComesBack
  <2>5. CASE a.name = "add-object"
    BY <1>5, <2>5, AddKeeps DEF Applied, ApplyAction
  <2>6. a.name # "unknown"
    BY <1>5 DEF LoadAction, ActionNames
  <2> QED  BY <2>1, <2>2, <2>3, <2>4, <2>5, <2>6 DEF ActionNames
<1> QED  BY <1>1, <1>3, <1>4, <1>5

\* An object that remove-object took out of a model, with nothing left that
\* refers to it from deep inside of a value, is not in it again whatever the
\* later actions of the answer relate (RemoveObjectAction.modify,
\* AddRelationAction.modify, _get_objects_by_id): for any model, however its
\* objects refer to each other, and any sequence of actions, also one that
\* fails half-way.
THEOREM ModelsStayCleared == ASSUME ModificationAssumption PROVE ModificationSpec => []RemovedStaysOut
<1> DEFINE Inv == ModificationInv /\ cache \subseteq ActionNames
<1>1. ModificationInit => Inv
  BY DEF ModificationInit, ModificationInv, ModificationAssumption, RemovedStaysOut
<1>2. Inv /\ [ModificationNext]_modification => Inv'
  <2> SUFFICES ASSUME Inv, [ModificationNext]_modification PROVE Inv'
    OBVIOUS
  <2>1. CASE \E a \in ActionSpecs : ApplyAction(a)
    BY <2>1, ApplyKeeps
  <2>2. CASE Modified \/ UNCHANGED modification
    BY <2>2, NothingComesBack DEF Modified, modification, ModificationInv
  <2> QED  BY <2>1, <2>2 DEF ModificationNext
<1>3. Inv => RemovedStaysOut
  BY DEF ModificationInv
<1> QED  BY <1>1, <1>2, <1>3, PTL DEF ModificationSpec

-----------------------------------------------------------------------------
(* Enforcement of policies *)

Ids == Parts \cup {EnvironmentId}

\* The pairs that convert() relates before it joins them.
HeldPairs == Services \cup {<<heldBy[o], o>> : o \in {p \in InModel : Relates(shape[p])}}
MentionedPairs == {<<m.of, m.id>> : m \in {n \in mentions : Mentions(n.as)}}
Related(x, y) ==
    \/ <<x, y>> \in HeldPairs
    \/ <<x, y>> \in MentionedPairs /\ y \in InModel \cup {EnvironmentId}

Closed(known) == EnvironmentId \in known /\ MetFrom(known) \subseteq known
Follows(pairs) == \A known \in SUBSET Ids : Closed(known) =>
                      \A x \in known, y \in Ids : <<x, y>> \in pairs => y \in known
Transitive(pairs) == \A x, y, z \in Ids : <<x, y>> \in pairs /\ <<y, z>> \in pairs => <<x, z>> \in pairs

PolicyTypeOK ==
    /\ heldBy \in [Parts -> Ids \cup {Outside}] /\ shape \in [Parts -> Shapes]
    /\ mentions \subseteq [of : Parts, as : Shapes, id : Ids]
    /\ \A o \in InModel : shape[o] = "applications" => heldBy[o] = EnvironmentId

Stages == {"no", "walked", "joining", "converted", "invalid", "valid"}
PolicyInv ==
    /\ PolicyTypeOK /\ converting \in Stages
    /\ converting = "walked" =>
          /\ relationshipRules = HeldPairs /\ propertyRules = MentionedPairs
          /\ objectRules = {[id |-> o, owner |-> heldBy[o]] : o \in InModel}
                               \cup {[id |-> EnvironmentId, owner |-> Tenant]}
    /\ converting \in Stages \ {"no", "walked"} =>
          /\ connectedRules \subseteq Ids \X Ids /\ Follows(connectedRules)
          /\ \A x, y \in Ids : Related(x, y) => <<x, y>> \in connectedRules
    /\ converting \in {"converted", "invalid", "valid"} => Transitive(connectedRules)
    /\ converting = "invalid" => Messages # {}
    /\ converting = "valid" => Messages = {}

LEMMA RelatedTypes ==
  ASSUME PolicyAssumption, PolicyTypeOK
  PROVE  HeldPairs \subseteq Ids \X Ids /\ MentionedPairs \subseteq Ids \X Ids
<1>1. \A o \in InModel : o \in Parts /\ heldBy[o] \in Ids
  BY DEF InModel, PolicyTypeOK
<1>2. HeldPairs \subseteq Ids \X Ids
  BY <1>1 DEF HeldPairs, Services, Ids
<1>3. \A m \in mentions : m.of \in Ids /\ m.id \in Ids
  BY DEF PolicyTypeOK, Ids
<1>4. MentionedPairs \subseteq Ids \X Ids
  BY <1>3 DEF MentionedPairs
<1> QED  BY <1>2, <1>4

\* Whoever is related to an object in sight is in sight.
LEMMA RelatedInSight ==
  ASSUME PolicyAssumption, PolicyTypeOK, NEW known \in SUBSET Ids, Closed(known),
         NEW x \in known, NEW y \in Ids, Related(x, y)
  PROVE  y \in known
<1>1. CASE <<x, y>> \in Services
  <2>1. y \in InModel /\ shape[y] = "applications"
    BY <1>1 DEF Services
  <2>2. heldBy[y] = EnvironmentId
    BY <2>1 DEF PolicyTypeOK
  <2> QED  BY <2>1, <2>2 DEF Closed, MetFrom
<1>2. CASE <<x, y>> \in {<<heldBy[o], o>> : o \in {p \in InModel : Relates(shape[p])}}
  <2>1. y \in InModel /\ heldBy[y] = x /\ Relates(shape[y])
    BY <1>2
  <2> QED  BY <2>1 DEF Closed, MetFrom, Relates
<1>3. CASE <<x, y>> \in MentionedPairs /\ y \in InModel \cup {EnvironmentId}
  <2>1. PICK m \in mentions : Mentions(m.as) /\ m.of = x /\ m.id = y
    BY <1>3 DEF MentionedPairs
  <2>2. CASE y = EnvironmentId
    BY <2>2 DEF Closed
  <2>3. CASE y \in InModel
    BY <2>1, <2>3 DEF Closed, MetFrom
  <2> QED  BY <1>3, <2>2, <2>3
<1> QED  BY <1>1, <1>2, <1>3 DEF Related, HeldPairs

\* When the pairs are transitive and go nowhere out of sight, what the
\* environment is connected to is what is in sight.
LEMMA ConnectedIsInSight ==
  ASSUME PolicyAssumption, PolicyTypeOK, connectedRules \subseteq Ids \X Ids,
         Follows(connectedRules), Transitive(connectedRules),
         \A x, y \in Ids : Related(x, y) => <<x, y>> \in connectedRules
  PROVE  \A o \in Parts : o \in InSight <=> <<EnvironmentId, o>> \in connectedRules
<1> SUFFICES ASSUME NEW o \in Parts
             PROVE  o \in InSight <=> <<EnvironmentId, o>> \in connectedRules
  OBVIOUS
<1>1. ASSUME <<EnvironmentId, o>> \in connectedRules
      PROVE  o \in InSight
  BY <1>1 DEF InSight, Follows, Closed, Ids
<1>2. ASSUME o \in InSight
      PROVE  <<EnvironmentId, o>> \in connectedRules
  <2> DEFINE known == {EnvironmentId} \cup {p \in Parts : <<EnvironmentId, p>> \in connectedRules}
  <2>1. known \in SUBSET Ids /\ EnvironmentId \in known
    BY DEF Ids
  <2>2. ASSUME NEW p \in MetFrom(known)
        PROVE  p \in known
    <3>1. p \in InModel /\ p \in Parts /\ p \in Ids
      BY DEF MetFrom, InModel, Ids
    <3>2. PICK x \in known : Related(x, p)
      <4>1. CASE heldBy[p] \in known /\ shape[p] = "applications"
        BY <3>1, <4>1 DEF Related, HeldPairs, Services
      <4>2. CASE heldBy[p] \in known /\ shape[p] \in {"value", "dict"}
        BY <3>1, <4>2 DEF Related, HeldPairs, Relates
      <4>3. CASE \E m \in mentions : m.of \in known /\ Mentions(m.as) /\ m.id = p
        BY <3>1, <4>3 DEF Related, MentionedPairs
      <4> QED  BY <4>1, <4>2, <4>3 DEF MetFrom
    <3>3. x \in Ids /\ <<x, p>> \in connectedRules
      BY <2>1, <3>1, <3>2
    <3>4. <<EnvironmentId, p>> \in connectedRules
      BY <3>1, <3>2, <3>3 DEF Transitive, Ids
    <3> QED  BY <3>1, <3>4
  <2>3. o \in known
    <3> HIDE DEF known
    <3> QED  BY <1>2, <2>1, <2>2 DEF InSight, Ids
  <2> QED  BY <2>3 DEF PolicyAssumption
<1> QED  BY <1>1, <1>2

LEMMA PolicyStep ==
  ASSUME PolicyAssumption, PolicyInv, [PolicyNext]_policy
  PROVE  PolicyInv'
<1>0. PolicyTypeOK /\ converting \in Stages
  BY DEF PolicyInv
<1>1. CASE \E o \in Parts, h \in Parts \cup {EnvironmentId}, s \in Shapes : Put(o, h, s)
  <2>1. PICK o \in Parts, h \in Ids, s \in Shapes : Put(o, h, s)
    BY <1>1 DEF Ids
  <2>2. /\ heldBy' \in [Parts -> Ids \cup {Outside}] /\ shape' \in [Parts -> Shapes]
        /\ heldBy'[o] = h /\ shape'[o] = s
        /\ \A p \in Parts \ {o} : heldBy'[p] = heldBy[p] /\ shape'[p] = shape[p]
    BY <1>0, <2>1 DEF Put, PolicyTypeOK
  <2>3. PolicyTypeOK'
    BY <1>0, <2>1, <2>2 DEF Put, PolicyTypeOK, InModel
  <2> QED  BY <2>1, <2>3 DEF Put, ModelChanged, PolicyInv, Stages
<1>2. CASE \E o \in Parts, s \in Shapes, t \in Parts \cup {EnvironmentId} : Write(o, s, t)
  <2>1. PICK o \in Parts, s \in Shapes, t \in Ids : Write(o, s, t)
    BY <1>2 DEF Ids
  <2>2. PolicyTypeOK'
    BY <1>0, <2>1 DEF Write, PolicyTypeOK, InModel
  <2> QED  BY <2>1, <2>2 DEF Write, ModelChanged, PolicyInv, Stages
<1>3. CASE Walk
  BY <1>0, <1>3 DEF Walk, PolicyInv, PolicyTypeOK, HeldPairs, MentionedPairs, Stages, InModel, Services
<1>4. CASE CreateRelationships
  <2>1. /\ relationshipRules = HeldPairs /\ propertyRules = MentionedPairs
        /\ \A r \in MentionedPairs : IsRelationship(r) <=> r[2] \in InModel \cup {EnvironmentId}
    <3>1. /\ relationshipRules = HeldPairs /\ propertyRules = MentionedPairs
          /\ objectRules = {[id |-> o, owner |-> heldBy[o]] : o \in InModel}
                               \cup {[id |-> EnvironmentId, owner |-> Tenant]}
      BY <1>4 DEF CreateRelationships, PolicyInv
    <3>2. \A rule \in objectRules : rule.id \in InModel \cup {EnvironmentId}
      BY <3>1
    <3>3. ASSUME NEW o \in InModel \cup {EnvironmentId}
          PROVE  \E rule \in objectRules : rule.id = o
      <4>1. CASE o = EnvironmentId
        <5>1. [id |-> EnvironmentId, owner |-> Tenant] \in objectRules
          BY <3>1
        <5> QED  BY <4>1, <5>1
      <4>2. CASE o \in InModel
        <5>1. [id |-> o, owner |-> heldBy[o]] \in objectRules
          BY <3>1, <4>2
        <5> QED  BY <5>1
      <4> QED  BY <4>1, <4>2
    <3> QED  BY <3>1, <3>2, <3>3 DEF IsRelationship
  <2>2. /\ UNCHANGED <<heldBy, shape, mentions>> /\ converting' = "joining"
        /\ connectedRules' = HeldPairs \cup {r \in MentionedPairs : r[2] \in InModel \cup {EnvironmentId}}
    BY <1>4, <2>1 DEF CreateRelationships
  <2>3. HeldPairs \subseteq Ids \X Ids /\ MentionedPairs \subseteq Ids \X Ids
    BY <1>0, RelatedTypes
  <2>4. \A x, y \in Ids : <<x, y>> \in connectedRules' <=> Related(x, y)
    BY <2>2 DEF Related
  <2>5. PolicyTypeOK'
    BY <1>0, <2>2 DEF PolicyTypeOK, InModel
  <2>6. Follows(connectedRules)'
    <3>1. ASSUME NEW known \in SUBSET Ids, Closed(known)'
          PROVE  Closed(known)
      BY <2>2, <3>1 DEF Closed, MetFrom, InModel
    <3> QED  BY <1>0, <2>4, <3>1, RelatedInSight DEF Follows
  <2>7. \A x, y \in Ids : Related(x, y)' => <<x, y>> \in connectedRules'
    BY <2>2, <2>4 DEF Related, HeldPairs, MentionedPairs, Services, InModel
  <2> QED  BY <2>2, <2>3, <2>5, <2>6, <2>7 DEF PolicyInv, Stages
<1>5. CASE TransitiveClosure
  <2>1. /\ UNCHANGED <<heldBy, shape, mentions>> /\ converting' \in {"joining", "converted"}
        /\ connectedRules' = Joined(connectedRules)
        /\ converting' = "converted" => Joined(connectedRules) = connectedRules
        /\ connectedRules \subseteq Ids \X Ids /\ Follows(connectedRules)
        /\ \A x, y \in Ids : Related(x, y) => <<x, y>> \in connectedRules
    BY <1>5 DEF TransitiveClosure, Again, PolicyInv, Stages
  <2>2. PolicyTypeOK'
    BY <1>0, <2>1 DEF PolicyTypeOK, InModel
  <2>3. /\ connectedRules \subseteq Joined(connectedRules)
        /\ \A x, y, z \in Ids : <<x, y>> \in connectedRules /\ <<y, z>> \in connectedRules
                                   => <<x, z>> \in Joined(connectedRules)
    <3>1. ASSUME NEW x \in Ids, NEW y \in Ids, NEW z \in Ids,
                 <<x, y>> \in connectedRules, <<y, z>> \in connectedRules
          PROVE  <<x, z>> \in Joined(connectedRules)
      <4> DEFINE p == <<x, y>>
                 q == <<y, z>>
      <4>1. p[1] = x /\ p[2] = y /\ q[1] = y /\ q[2] = z /\ p \in connectedRules /\ q \in connectedRules
        BY <3>1
      <4> HIDE DEF p, q
      <4> QED  BY <4>1 DEF Joined
    <3> QED  BY <3>1 DEF Joined
  <2>4. \A r \in Joined(connectedRules) :
            \/ r \in connectedRules
            \/ \E x, y, z \in Ids : r = <<x, z>> /\ <<x, y>> \in connectedRules /\ <<y, z>> \in connectedRules
    <3> SUFFICES ASSUME NEW r \in Joined(connectedRules), r \notin connectedRules
                 PROVE  \E x, y, z \in Ids : r = <<x, z>> /\ <<x, y>> \in connectedRules
                                                  /\ <<y, z>> \in connectedRules
      OBVIOUS
    <3>1. PICK p \in connectedRules : r \in {<<p[1], q[2]>> : q \in {t \in connectedRules : p[2] = t[1]}}
      BY DEF Joined
    <3>2. PICK q \in connectedRules : p[2] = q[1] /\ r = <<p[1], q[2]>>
      BY <3>1
    <3>3. /\ p[1] \in Ids /\ p[2] \in Ids /\ q[2] \in Ids
          /\ p = <<p[1], p[2]>> /\ q = <<p[2], q[2]>>
      BY <2>1, <3>2
    <3> QED  BY <3>2, <3>3
  <2>5. connectedRules' \subseteq Ids \X Ids
    <3> SUFFICES ASSUME NEW r \in Joined(connectedRules) PROVE r \in Ids \X Ids
      BY <2>1
    <3>1. r \in connectedRules \/ \E x, y, z \in Ids : r = <<x, z>>
      BY <2>4
    <3> QED  BY <2>1, <3>1
  <2>6. ASSUME NEW known \in SUBSET Ids, Closed(known)', NEW u \in known, NEW v \in Ids,
               <<u, v>> \in connectedRules'
        PROVE  v \in known
    <3>1. Closed(known)
      BY <2>1, <2>6 DEF Closed, MetFrom, InModel
    <3>2. \A x \in known, y \in Ids : <<x, y>> \in connectedRules => y \in known
      BY <2>1, <3>1 DEF Follows
    <3> QED  BY <2>1, <2>4, <2>6, <3>2
  <2>7. \A x, y \in Ids : Related(x, y)' => <<x, y>> \in connectedRules'
    <3>1. UNCHANGED <<HeldPairs, MentionedPairs, InModel>>
      BY <2>1 DEF HeldPairs, MentionedPairs, Services, InModel
    <3> QED  BY <2>1, <2>3, <3>1 DEF Related
  <2>8. converting' = "converted" => Transitive(connectedRules)'
    BY <2>1, <2>3 DEF Transitive
  <2> QED  BY <2>1, <2>2, <2>5, <2>6, <2>7, <2>8 DEF PolicyInv, Follows, Stages
<1>6. CASE Validate
  <2>1. /\ UNCHANGED <<heldBy, shape, mentions, connectedRules>> /\ converting = "converted"
        /\ converting' = IF Messages # {} THEN "invalid" ELSE "valid"
    BY <1>6 DEF Validate, converted
  <2>2. PolicyTypeOK'
    BY <1>0, <2>1 DEF PolicyTypeOK, InModel
  <2>3. /\ connectedRules' \subseteq Ids \X Ids /\ Transitive(connectedRules)'
        /\ Messages' = Messages
    BY <2>1 DEF PolicyInv, Transitive, Stages, Messages, Reported
  <2>4. Follows(connectedRules)'
    BY <2>1 DEF PolicyInv, Stages, Follows, Closed, MetFrom, InModel
  <2>5. \A x, y \in Ids : Related(x, y)' => <<x, y>> \in connectedRules'
    BY <2>1 DEF PolicyInv, Stages, Related, HeldPairs, MentionedPairs, Services, InModel
  <2> QED  BY <2>1, <2>2, <2>3, <2>4, <2>5 DEF PolicyInv, Stages
<1>7. CASE EditAgain
  <2>1. PolicyTypeOK'
    BY <1>0, <1>7 DEF EditAgain, PolicyTypeOK, InModel
  <2> QED  BY <1>7, <2>1 DEF EditAgain, PolicyInv, Stages
<1>8. CASE UNCHANGED policy
  <2>1. PolicyTypeOK'
    BY <1>0, <1>8 DEF policy, PolicyTypeOK, InModel
  <2>2. Follows(connectedRules) => Follows(connectedRules)'
    BY <1>8 DEF policy, Follows, Closed, MetFrom, InModel
  <2>3. UNCHANGED <<HeldPairs, MentionedPairs, Messages, InModel>> /\ \A x, y : Related(x, y)' <=> Related(x, y)
    BY <1>8 DEF policy, HeldPairs, MentionedPairs, Services, InModel, Messages, Reported, Related
  <2> QED  BY <1>8, <2>1, <2>2, <2>3 DEF policy, PolicyInv, Transitive
<1> QED  BY <1>1, <1>2, <1>3, <1>4, <1>5, <1>6, <1>7, <1>8 DEF PolicyNext

\* Congress rejects every model with an object that its policies reject in
\* sight of the environment and no other (CongressRulesManager.convert,
\* _create_property_rules and _create_relationship_rules, the transitive
\* closure, ModelPolicyEnforcer.validate): for models of any size, over any
\* number of references, and after any number of edits.
THEOREM PoliciesSeeTheModel == ASSUME PolicyAssumption PROVE PolicySpec => []PolicySeesTheModel
<1>1. PolicyInit => PolicyInv
  BY DEF PolicyInit, PolicyInv, PolicyTypeOK, InModel, Ids, Stages, Shapes
<1>2. PolicyInv /\ [PolicyNext]_policy => PolicyInv'
  BY PolicyStep
<1>3. PolicyInv => PolicySeesTheModel
  <2> SUFFICES ASSUME PolicyInv PROVE PolicySeesTheModel
    OBVIOUS
  <2>1. ASSUME converting \in {"valid", "invalid"}
        PROVE  \A o \in Parts : o \in InSight <=> <<EnvironmentId, o>> \in connectedRules
    BY <2>1, ConnectedIsInSight DEF PolicyInv, Stages
  <2>2. CASE converting = "valid"
    <3>1. ASSUME NEW o \in InSight \cap Bad
          PROVE  FALSE
      <4>1. <<EnvironmentId, o>> \in connectedRules
        BY <2>1, <2>2 DEF InSight
      <4> DEFINE r == <<EnvironmentId, o>>
      <4>2. r[1] = EnvironmentId /\ r[2] = o /\ r \in connectedRules
        BY <4>1
      <4> HIDE DEF r
      <4> QED  BY <2>2, <4>2 DEF PolicyInv, Messages, Reported
    <3> QED  BY <2>2, <3>1 DEF PolicySeesTheModel
  <2>3. CASE converting = "invalid"
    <3>1. PICK r \in connectedRules : r[1] = EnvironmentId /\ r[2] \in Bad
      BY <2>3 DEF PolicyInv, Messages, Reported
    <3>2. r = <<EnvironmentId, r[2]>> /\ r[2] \in Parts
      BY <2>3, <3>1 DEF PolicyInv, PolicyAssumption, Stages
    <3>3. r[2] \in InSight
      BY <2>1, <2>3, <3>1, <3>2
    <3> QED  BY <2>3, <3>1, <3>3 DEF PolicySeesTheModel
  <2> QED  BY <2>2, <2>3 DEF PolicySeesTheModel
<1> QED  BY <1>1, <1>2, <1>3, PTL DEF PolicySpec

-----------------------------------------------------------------------------
(* Handling of requests *)

\* The map of exceptions, without its recursion: a class, its first base.
MappedCode(class) ==
    IF class = "Exception" THEN 500
    ELSE IF class \in DOMAIN ErrorMap THEN ErrorMap[class]
    ELSE IF Base(class) \in DOMAIN ErrorMap THEN ErrorMap[Base(class)] ELSE 500

\* What FaultWrapper answers says that something failed.
LEMMA FaultCodes == \A class \in ExceptionClasses : MapException[class] \in {400, 404, 500}
<1> DEFINE e(f) == [class \in ExceptionClasses |->
                       IF class = "Exception" THEN 500
                       ELSE IF class \in DOMAIN ErrorMap THEN ErrorMap[class] ELSE f[Base(class)]]
           g == [class \in ExceptionClasses |-> MappedCode(class)]
<1>1. \A class \in ExceptionClasses : /\ Base(class) \in {"LookupError", "ValueError", "Exception"}
                            /\ Base(class) \in ExceptionClasses
  <2>1. \A class \in ExceptionClasses : Base(class) \in {"LookupError", "ValueError", "Exception"}
    BY DEF Base
  <2> HIDE DEF Base
  <2> QED  BY <2>1 DEF ExceptionClasses, ErrorMap
<1>2. /\ "LookupError" \in DOMAIN ErrorMap /\ "ValueError" \in DOMAIN ErrorMap
      /\ "Exception" \notin DOMAIN ErrorMap
      /\ \A class \in DOMAIN ErrorMap : ErrorMap[class] \in {400, 404}
  BY DEF ErrorMap
<1>3. \A class \in ExceptionClasses : g[class] = IF class = "Exception" THEN 500
                                       ELSE IF class \in DOMAIN ErrorMap THEN ErrorMap[class]
                                       ELSE g[Base(class)]
  BY <1>1, <1>2 DEF MappedCode
<1>4. g = e(g)
  <2> HIDE DEF g
  <2>1. g = [class \in ExceptionClasses |-> g[class]]
    BY DEF g
  <2> QED  BY <1>3, <2>1
<1>5. MapException = CHOOSE f : f = e(f)
  BY DEF MapException
<1> HIDE DEF g
<1>6. MapException = e(MapException)
  BY <1>4, <1>5
<1> HIDE DEF e
<1>7. \A class \in ExceptionClasses : MapException[class] =
          IF class = "Exception" THEN 500
          ELSE IF class \in DOMAIN ErrorMap THEN ErrorMap[class] ELSE MapException[Base(class)]
  BY <1>6 DEF e
<1> QED  BY <1>1, <1>2, <1>7

LEMMA FaultAnswers ==
  ASSUME NEW class, class \in {"TypeError", "KeyError", "ValueError", "PackageFormatError",
                               "HTTPConflict", "DBError"}
  PROVE  Faults(class) \in {400, 404, 500}
<1>1. class \in ExceptionClasses
  BY DEF ExceptionClasses, ErrorMap
<1> QED  BY <1>1, FaultCodes DEF Faults, FaultCode

\* An unreadable body is not answered with success.
LEMMA BodyErrors == BodyError # 200
<1>1. PICK class : class = "ValueError"
  OBVIOUS
<1>2. Faults("ValueError") \in {400, 404, 500}
  BY <1>1, FaultAnswers
<1>3. PatchError \in {0, 400, 403}
  <2>1. \A ch : ChangeError(ch) \in {0, 400, 403}
    BY DEF ChangeError
  <2> HIDE DEF ChangeError
  <2> QED  BY <2>1 DEF PatchError
<1>4. JsonError \in {0, 400} /\ FormError = 0 /\ XmlError \in {0, 400, 404, 500}
  BY <1>2 DEF JsonError, FormError, XmlError
<1>5. BodyError \in {0, 415, JsonError, PatchError, XmlError, FormError}
  <2>1. CASE ~HasBody \/ call.type \notin BodyTypes
    BY <2>1 DEF BodyError, BodyTypes
  <2>2. CASE HasBody /\ call.type \in BodyTypes
    BY <2>2 DEF BodyError, BodyTypes
  <2> QED  BY <2>1, <2>2
<1> QED  BY <1>3, <1>4, <1>5

BeforeHandler == {"idle", "negotiate", "external", "authtoken", "context", "route",
                  "deserialize", "accept", "execute"}
HandlingInv ==
    /\ stage \in BeforeHandler => done = "nothing"
    /\ stage \in {"context", "route", "deserialize", "accept", "execute", "serialize"} => Known
    /\ stage = "serialize" => done = "all" /\ (call.roles \/ ~Checks(route))
    /\ AnswersTellTruth

LEMMA HandlingStep ==
  ASSUME HandlingInv, [HandlingNext]_handling
  PROVE  HandlingInv'
<1>1. CASE \E c \in Calls : Arrive(c)
  BY <1>1 DEF Arrive, HandlingInv, BeforeHandler, AnswersTellTruth
<1>2. CASE Negotiate
  BY <1>2 DEF Negotiate, VersionsApp, Answers, GoOn, HandlingInv, BeforeHandler, AnswersTellTruth, Known
<1>3. CASE ExternalContext
  BY <1>3 DEF ExternalContext, Answers, GoOn, HandlingInv, BeforeHandler, AnswersTellTruth, Known
<1>4. CASE AuthToken
  BY <1>4 DEF AuthToken, Answers, GoOn, HandlingInv, BeforeHandler, AnswersTellTruth, Known
<1>5. CASE MakeContext
  BY <1>5 DEF MakeContext, GoOn, HandlingInv, BeforeHandler, AnswersTellTruth, Known
<1>6. CASE RouteRequest
  <2>1. /\ stage = "route" /\ UNCHANGED <<call, done>>
        /\ stage' = "deserialize" \/ (stage' = "answered" /\ answer' = 404)
    BY <1>6 DEF RouteRequest, Answers
  <2> QED  BY <2>1 DEF HandlingInv, BeforeHandler, AnswersTellTruth, Known
<1>7. CASE Deserialize
  <2>1. /\ stage = "deserialize" /\ UNCHANGED <<call, route, done>>
        /\ stage' = "accept" \/ (stage' = "answered" /\ answer' # 200)
    BY <1>7, BodyErrors DEF Deserialize, Answers, GoOn, After
  <2> QED  BY <2>1 DEF HandlingInv, BeforeHandler, AnswersTellTruth, Known
<1>8. CASE ExpectType
  <2>1. /\ stage = "accept" /\ UNCHANGED <<call, route, done>>
        /\ stage' = "execute" \/ (stage' = "answered" /\ answer' = 406)
    BY <1>8 DEF ExpectType, Answers, After
  <2> QED  BY <2>1 DEF HandlingInv, BeforeHandler, AnswersTellTruth, Known
<1>9. CASE Execute
  <2>1. ASSUME NEW class \in {"TypeError", "KeyError", "ValueError", "PackageFormatError",
                              "HTTPConflict", "DBError"}
        PROVE  Faults(class) \in {400, 404, 500}
    BY FaultAnswers
  <2>2. /\ stage = "execute" /\ UNCHANGED <<call, route>>
        /\ \/ stage' = "answered" /\ answer' \in {400, 403, 404, 409, 500}
           \/ stage' = "serialize" /\ done' = "all" /\ (call.roles \/ ~Checks(route))
    BY <1>9, <2>1 DEF Execute, Answers, After
  <2> QED  BY <2>2 DEF HandlingInv, BeforeHandler, AnswersTellTruth, Known
<1>10. CASE Serialize
  <2>1. Faults("TypeError") \in {400, 404, 500}
    <3>1. PICK class : class = "TypeError"
      OBVIOUS
    <3> QED  BY <3>1, FaultAnswers
  <2>2. /\ stage = "serialize" /\ stage' = "answered" /\ answer' \in {200, 400, 404, 500}
        /\ UNCHANGED <<call, route, done>>
    BY <1>10, <2>1 DEF Serialize, Answers
  <2> QED  BY <2>2 DEF HandlingInv, BeforeHandler, AnswersTellTruth, Known
<1>11. CASE NextRequest
  BY <1>11 DEF NextRequest, HandlingInv, BeforeHandler, AnswersTellTruth
<1>12. CASE UNCHANGED handling
  BY <1>12 DEF handling, HandlingInv, AnswersTellTruth, Known
<1> QED  BY <1>1, <1>2, <1>3, <1>4, <1>5, <1>6, <1>7, <1>8, <1>9, <1>10, <1>11, <1>12 DEF HandlingNext

\* An answer that blames the request comes before the handler did anything,
\* and what was answered with success was done, for a caller that Keystone
\* knows and the policy lets do it (wsgi.Resource.__call__, its deserializer
\* and serializer, the middleware of murano-paste.ini, policy.check): for every
\* set of requests, wherever one of them fails on its way.
THEOREM AnswersAreTrue == HandlingSpec => []AnswersTellTruth
<1>1. HandlingInit => HandlingInv
  BY DEF HandlingInit, HandlingInv, BeforeHandler, AnswersTellTruth
<1>2. HandlingInv /\ [HandlingNext]_handling => HandlingInv'
  BY HandlingStep
<1>3. HandlingInv => AnswersTellTruth
  BY DEF HandlingInv
<1> QED  BY <1>1, <1>2, <1>3, PTL DEF HandlingSpec

-----------------------------------------------------------------------------
(* Statistics of instances *)

Keys == TrackedEnvs \X TrackedIds
Notes == [kind : {"track", "untrack"}, env : TrackedEnvs, id : TrackedIds, units : Units, at : Nat]
InstanceRows == [there : BOOLEAN, units : Units \cup {0}, created : Nat, destroyed : Nat]

StatisticsTypeOK ==
    /\ notes \subseteq Notes /\ sent \in Nat
    /\ instances \in [Keys -> InstanceRows] /\ lastTracked \in [Keys -> Notes \cup {NoNote}]

\* Times are in order, and a row that is not there has its first values.
RowMakesSense(k) ==
    /\ instances[k].there <=> lastTracked[k] # NoNote
    /\ ~instances[k].there => instances[k] = Missing
    /\ instances[k].created <= sent /\ instances[k].destroyed <= sent
    /\ instances[k].destroyed # 0 => instances[k].created <= instances[k].destroyed

\* Of an identifier that no other environment has, the row is up to date.
Alone(e, i) == \A f \in TrackedEnvs \ {e} : ~instances[<<f, i>>].there
UpToDate == \A e \in TrackedEnvs, i \in TrackedIds :
                Alone(e, i) => instances[<<e, i>>].units = lastTracked[<<e, i>>].units

StatisticsInv == StatisticsTypeOK /\ (\A k \in Keys : RowMakesSense(k)) /\ UpToDate

LEMMA TrackKeeps ==
  ASSUME StatisticsInv, NEW n \in notes, TrackInstance(n), UNCHANGED sent, notes' \subseteq notes
  PROVE  StatisticsInv'
<1> DEFINE key == <<n.env, n.id>>
           row == [there |-> TRUE, units |-> n.units, created |-> sent, destroyed |-> 0]
<1>1. /\ n \in Notes /\ n # NoNote /\ key \in Keys /\ row \in InstanceRows
      /\ row.there /\ row.units = n.units /\ row.created = sent /\ row.destroyed = 0
      /\ sent \in Nat
  BY DEF StatisticsInv, StatisticsTypeOK, Notes, NoNote, Keys, InstanceRows
<1>2. /\ lastTracked' = [lastTracked EXCEPT ![key] = n]
      /\ \/ ~instances[key].there /\ instances' = [instances EXCEPT ![key] = row]
         \/ /\ instances[key].there
            /\ instances' = [k \in Keys |->
                    IF k \in Updated(n) /\ instances[k].there
                    THEN [instances[k] EXCEPT !.units = n.units] ELSE instances[k]]
  BY DEF TrackInstance, Keys
<1>3. \A e \in TrackedEnvs, i \in TrackedIds : (<<e, i>> = key) <=> (e = n.env /\ i = n.id)
  OBVIOUS
<1>a. \A e \in TrackedEnvs, i \in TrackedIds : <<e, i>> \in Keys /\ (<<e, i>> \in Updated(n) <=> i = n.id)
  BY DEF Keys, Updated
<1>b. key \in Updated(n)
  BY <1>1 DEF Updated, Keys
<1> HIDE DEF key, row
<1>4. /\ lastTracked' \in [Keys -> Notes \cup {NoNote}] /\ lastTracked'[key] = n
      /\ \A k \in Keys \ {key} : lastTracked'[k] = lastTracked[k]
  BY <1>1, <1>2 DEF StatisticsInv, StatisticsTypeOK
<1>5. CASE ~instances[key].there /\ instances' = [instances EXCEPT ![key] = row]
  <2>1. /\ instances' \in [Keys -> InstanceRows] /\ instances'[key] = row
        /\ \A k \in Keys \ {key} : instances'[k] = instances[k]
    BY <1>1, <1>5 DEF StatisticsInv, StatisticsTypeOK
  <2>2. StatisticsTypeOK'
    BY <1>4, <2>1 DEF StatisticsInv, StatisticsTypeOK
  <2>3. ASSUME NEW k \in Keys
        PROVE  RowMakesSense(k)'
    <3>1. RowMakesSense(k)
      BY DEF StatisticsInv
    <3>2. CASE k = key
      BY <1>1, <1>4, <2>1, <3>2 DEF RowMakesSense
    <3>3. CASE k # key
      BY <1>4, <2>1, <3>1, <3>3 DEF RowMakesSense
    <3> QED  BY <3>2, <3>3
  <2>4. ASSUME NEW e \in TrackedEnvs, NEW i \in TrackedIds, Alone(e, i)'
        PROVE  instances'[<<e, i>>].units = lastTracked'[<<e, i>>].units
    <3>1. CASE <<e, i>> = key
      BY <1>1, <1>4, <2>1, <3>1
    <3>2. CASE <<e, i>> # key
      <4>1. Alone(e, i)
        BY <1>a, <1>5, <2>1, <2>4 DEF Alone
      <4> QED  BY <1>a, <1>4, <2>1, <3>2, <4>1 DEF StatisticsInv, UpToDate
    <3> QED  BY <3>1, <3>2
  <2> QED  BY <2>2, <2>3, <2>4 DEF StatisticsInv, UpToDate
<1>6. CASE /\ instances[key].there
           /\ instances' = [k \in Keys |->
                    IF k \in Updated(n) /\ instances[k].there
                    THEN [instances[k] EXCEPT !.units = n.units] ELSE instances[k]]
  <2>1. \A k \in Keys : /\ instances[k] \in InstanceRows
                        /\ instances'[k] = IF k \in Updated(n) /\ instances[k].there
                               THEN [instances[k] EXCEPT !.units = n.units] ELSE instances[k]
    BY <1>6 DEF StatisticsInv, StatisticsTypeOK
  <2>2. \A r \in InstanceRows :
            LET s == [r EXCEPT !.units = n.units] IN
            /\ s \in InstanceRows /\ s.there = r.there /\ s.units = n.units
            /\ s.created = r.created /\ s.destroyed = r.destroyed
    BY <1>1 DEF InstanceRows, Notes
  <2>3. \A k \in Keys : /\ instances'[k] \in InstanceRows
                        /\ instances'[k].there = instances[k].there
                        /\ instances'[k].created = instances[k].created
                        /\ instances'[k].destroyed = instances[k].destroyed
                        /\ ~instances[k].there => instances'[k] = instances[k]
                        /\ k \notin Updated(n) => instances'[k] = instances[k]
    BY <2>1, <2>2
  <2>4. StatisticsTypeOK'
    <3>1. instances' \in [Keys -> InstanceRows]
      BY <1>6, <2>3
    <3> QED  BY <1>4, <3>1 DEF StatisticsInv, StatisticsTypeOK
  <2>5. ASSUME NEW k \in Keys
        PROVE  RowMakesSense(k)'
    <3>1. RowMakesSense(k)
      BY DEF StatisticsInv
    <3>2. lastTracked'[k] # NoNote <=> lastTracked[k] # NoNote
      BY <1>1, <1>4, <1>6, <3>1 DEF RowMakesSense
    <3> QED  BY <2>3, <3>1, <3>2 DEF RowMakesSense
  <2>6. ASSUME NEW e \in TrackedEnvs, NEW i \in TrackedIds, Alone(e, i)'
        PROVE  instances'[<<e, i>>].units = lastTracked'[<<e, i>>].units
    <3>1. <<e, i>> \in Keys /\ Alone(e, i)
      BY <1>a, <2>3, <2>6 DEF Alone
    <3>2. CASE <<e, i>> = key
      <4>1. instances'[key].units = n.units
        BY <1>1, <1>6, <1>b, <2>1, <2>2
      <4> QED  BY <1>4, <3>2, <4>1
    <3>3. CASE <<e, i>> # key /\ i = n.id
      <4>1. n.env \in TrackedEnvs \ {e} /\ key = <<n.env, i>>
        BY <1>1, <1>3, <3>3 DEF Notes, key
      <4> QED  BY <1>6, <3>1, <4>1 DEF Alone
    <3>4. CASE <<e, i>> # key /\ i # n.id
      BY <1>a, <1>4, <2>3, <3>1, <3>4 DEF StatisticsInv, UpToDate
    <3> QED  BY <3>2, <3>3, <3>4
  <2> QED  BY <2>4, <2>5, <2>6 DEF StatisticsInv, UpToDate
<1> QED  BY <1>2, <1>5, <1>6

LEMMA DestroyKeeps ==
  ASSUME StatisticsInv, NEW n \in notes, DestroyInstance(n), UNCHANGED sent, notes' \subseteq notes
  PROVE  StatisticsInv'
<1> DEFINE key == <<n.env, n.id>>
<1>1. /\ key \in Keys /\ sent \in Nat /\ UNCHANGED lastTracked
      /\ \/ instances' = instances
         \/ /\ instances[key].there /\ instances[key].destroyed = 0
            /\ instances' = [instances EXCEPT ![key].destroyed = sent]
  BY DEF StatisticsInv, StatisticsTypeOK, Notes, Keys, DestroyInstance
<1> HIDE DEF key
<1>2. CASE instances' = instances
  BY <1>1, <1>2 DEF StatisticsInv, StatisticsTypeOK, RowMakesSense, UpToDate, Alone
<1>3. CASE /\ instances[key].there /\ instances[key].destroyed = 0
           /\ instances' = [instances EXCEPT ![key].destroyed = sent]
  <2> DEFINE r == instances[key]
             s == [r EXCEPT !.destroyed = sent]
  <2>1. r \in InstanceRows
    BY <1>1 DEF StatisticsInv, StatisticsTypeOK
  <2>2. instances'[key] = s /\ \A k \in Keys \ {key} : instances'[k] = instances[k]
    BY <1>1, <1>3 DEF StatisticsInv, StatisticsTypeOK
  <2>3. instances' = [instances EXCEPT ![key] = s]
    BY <1>1, <1>3
  <2> HIDE DEF r, s
  <2>4. /\ s \in InstanceRows /\ s.there = r.there /\ s.units = r.units
        /\ s.created = r.created /\ s.destroyed = sent
    BY <1>1, <2>1 DEF s, InstanceRows
  <2>5. StatisticsTypeOK'
    BY <1>1, <2>3, <2>4 DEF StatisticsInv, StatisticsTypeOK
  <2>6. ASSUME NEW k \in Keys
        PROVE  RowMakesSense(k)'
    <3>1. RowMakesSense(k)
      BY DEF StatisticsInv
    <3>2. CASE k = key
      <4>1. r.there /\ r = instances[k]
        BY <1>3, <3>2 DEF r
      <4>2. /\ lastTracked[k] # NoNote /\ r.created <= sent
        BY <3>1, <4>1 DEF RowMakesSense
      <4>3. instances'[k] = s /\ lastTracked'[k] = lastTracked[k] /\ sent' = sent
        BY <1>1, <2>2, <3>2
      <4>4. sent <= sent
        BY <1>1
      <4> QED  BY <2>4, <4>1, <4>2, <4>3, <4>4 DEF RowMakesSense
    <3>3. CASE k # key
      BY <1>1, <2>2, <3>1, <3>3 DEF RowMakesSense
    <3> QED  BY <3>2, <3>3
  <2>7. \A k \in Keys : instances'[k].there = instances[k].there /\ instances'[k].units = instances[k].units
    BY <2>2, <2>4 DEF r
  <2>8. UpToDate'
    <3>1. \A e \in TrackedEnvs, i \in TrackedIds : <<e, i>> \in Keys
      BY DEF Keys
    <3> QED  BY <1>1, <2>7, <3>1 DEF StatisticsInv, UpToDate, Alone
  <2> QED  BY <2>5, <2>6, <2>8 DEF StatisticsInv
<1> QED  BY <1>1, <1>2, <1>3

LEMMA NotifyKeeps ==
  ASSUME StatisticsInv, Notify
  PROVE  StatisticsInv'
<1>1. PICK kind \in {"track", "untrack"}, e \in TrackedEnvs, i \in TrackedIds, u \in Units :
          notes' = notes \cup {[kind |-> kind, env |-> e, id |-> i, units |-> u, at |-> sent + 1]}
  BY DEF Notify
<1>2. /\ sent \in Nat /\ sent' = sent + 1 /\ UNCHANGED <<instances, lastTracked>>
  BY DEF Notify, StatisticsInv, StatisticsTypeOK
<1>3. [kind |-> kind, env |-> e, id |-> i, units |-> u, at |-> sent + 1] \in Notes
  BY <1>2 DEF Notes
<1>4. StatisticsTypeOK'
  BY <1>1, <1>2, <1>3 DEF StatisticsInv, StatisticsTypeOK
<1>5. ASSUME NEW k \in Keys
      PROVE  RowMakesSense(k)'
  <2>1. RowMakesSense(k) /\ instances[k] \in InstanceRows
    BY DEF StatisticsInv, StatisticsTypeOK
  <2>2. instances[k].created \in Nat /\ instances[k].destroyed \in Nat
    BY <2>1 DEF InstanceRows
  <2> QED  BY <1>2, <2>1, <2>2 DEF RowMakesSense
<1> QED  BY <1>2, <1>4, <1>5 DEF StatisticsInv, UpToDate, Alone

\* An object that lives in one environment has the unit count that was
\* handled last for it, and a row exactly if it was tracked; its time never
\* runs backwards (InstanceStatsServices): for any number of notifications.
THEOREM UnitsAreOfTheLast == StatisticsSpec => []UnitsOfTheLast
<1>1. StatisticsInit => StatisticsInv
  <2> SUFFICES ASSUME StatisticsInit PROVE StatisticsInv
    OBVIOUS
  <2>1. Missing \in InstanceRows /\ ~Missing.there /\ Missing.created = 0 /\ Missing.destroyed = 0
    BY DEF Missing, InstanceRows
  <2>2. \A k \in Keys : instances[k] = Missing /\ lastTracked[k] = NoNote
    BY DEF StatisticsInit, Keys
  <2>3. StatisticsTypeOK
    BY <2>1 DEF StatisticsInit, StatisticsTypeOK, Keys
  <2>4. \A k \in Keys : RowMakesSense(k)
    BY <2>1, <2>2 DEF RowMakesSense, StatisticsInit
  <2>5. UpToDate
    <3>1. Missing.units = NoNote.units
      BY DEF Missing, NoNote
    <3>2. \A e \in TrackedEnvs, i \in TrackedIds : <<e, i>> \in Keys
      BY DEF Keys
    <3> QED  BY <2>2, <3>1, <3>2 DEF UpToDate
  <2> QED  BY <2>3, <2>4, <2>5 DEF StatisticsInv
<1>2. StatisticsInv /\ [StatisticsNext]_counting => StatisticsInv'
  <2> SUFFICES ASSUME StatisticsInv, [StatisticsNext]_counting PROVE StatisticsInv'
    OBVIOUS
  <2>1. CASE Notify
    BY <2>1, NotifyKeeps
  <2>2. CASE HandleNote
    <3>1. PICK n \in notes : (TrackInstance(n) \/ DestroyInstance(n)) /\ notes' \in {notes, notes \ {n}}
      BY <2>2 DEF HandleNote
    <3>2. notes' \subseteq notes /\ UNCHANGED sent
      BY <2>2, <3>1 DEF HandleNote
    <3> QED  BY <3>1, <3>2, TrackKeeps, DestroyKeeps
  <2>3. CASE UNCHANGED instanceCounting
    BY <2>3 DEF instanceCounting, StatisticsInv, StatisticsTypeOK, RowMakesSense, UpToDate, Alone
  <2> QED  BY <2>1, <2>2, <2>3 DEF StatisticsNext, InstancesNext, counting, instanceCounting
<1>3. StatisticsInv => UnitsOfTheLast
  <2> SUFFICES ASSUME StatisticsInv, NEW e \in TrackedEnvs, NEW i \in TrackedIds, Alone(e, i)
               PROVE  /\ instances[<<e, i>>].there <=> lastTracked[<<e, i>>] # NoNote
                      /\ instances[<<e, i>>].units = lastTracked[<<e, i>>].units
                      /\ Duration(e, i) >= 0
    BY DEF UnitsOfTheLast, Alone
  <2>1. RowMakesSense(<<e, i>>) /\ instances[<<e, i>>] \in InstanceRows /\ sent \in Nat
    BY DEF StatisticsInv, StatisticsTypeOK, Keys
  <2>2. instances[<<e, i>>].created \in Nat /\ instances[<<e, i>>].destroyed \in Nat
    BY <2>1 DEF InstanceRows
  <2>3. Duration(e, i) >= 0
    BY <2>1, <2>2 DEF Duration, RowMakesSense
  <2> QED  BY <2>1, <2>3 DEF RowMakesSense, StatisticsInv, UpToDate
<1> QED  BY <1>1, <1>2, <1>3, PTL DEF StatisticsSpec

-----------------------------------------------------------------------------
(* Packages that are Heat templates *)

\* A finite set of integers has a greatest element and a least one: take a
\* smallest set that has none.
LEMMA Extremes ==
  ASSUME NEW S \in SUBSET Int, IsFiniteSet(S), S # {}
  PROVE  (\E x \in S : \A y \in S : x >= y) /\ (\E x \in S : \A y \in S : x <= y)
<1> DEFINE Bounded(U) == (\E x \in U : \A y \in U : x >= y) /\ (\E x \in U : \A y \in U : x <= y)
           Unbounded == {U \in SUBSET Int : IsFiniteSet(U) /\ U # {} /\ ~Bounded(U)}
           Counts == {n \in Nat : \E U \in Unbounded : Cardinality(U) = n}
<1>1. SUFFICES ASSUME Counts # {} PROVE FALSE
  BY FS_CardinalityType
<1>2. PICK m \in Counts : \A n \in Counts : m <= n
  <2>1. Counts \in SUBSET Nat
    OBVIOUS
  <2> HIDE DEF Counts
  <2> QED  BY <1>1, <2>1, LeastNatural
<1>3. PICK U \in Unbounded : Cardinality(U) = m
  BY <1>2
<1>4. PICK z \in U : TRUE
  BY <1>3
<1>5. /\ IsFiniteSet(U \ {z}) /\ Cardinality(U \ {z}) = m - 1 /\ m \in Nat
      /\ U \in SUBSET Int /\ ~Bounded(U)
  BY <1>2, <1>3, <1>4, FS_RemoveElement
<1>6. U \ {z} # {}
  <2> SUFFICES ASSUME U = {z} PROVE FALSE
    OBVIOUS
  <2>1. z \in Int
    BY <1>4, <1>5
  <2> QED  BY <1>5, <2>1
<1>7. Bounded(U \ {z})
  <2> SUFFICES ASSUME ~Bounded(U \ {z}) PROVE FALSE
    OBVIOUS
  <2>1. U \ {z} \in Unbounded
    BY <1>5, <1>6
  <2>2. Cardinality(U \ {z}) \in Nat
    BY <1>5, FS_CardinalityType
  <2>3. m - 1 \in Counts
    BY <1>5, <2>1, <2>2
  <2> QED  BY <1>2, <1>5, <2>3
<1>8. PICK x \in U \ {z} : \A y \in U \ {z} : x >= y
  BY <1>7
<1>9. PICK w \in U \ {z} : \A y \in U \ {z} : w <= y
  BY <1>7
<1>10. x \in Int /\ w \in Int /\ z \in Int /\ x \in U /\ w \in U /\ \A y \in U : y \in Int
  BY <1>4, <1>5, <1>8, <1>9
<1>11. \E a \in U : \A y \in U : a >= y
  <2>1. CASE x >= z
    BY <1>8, <1>10, <2>1
  <2>2. CASE z > x
    BY <1>4, <1>8, <1>10, <2>2
  <2> QED  BY <1>10, <2>1, <2>2
<1>12. \E a \in U : \A y \in U : a <= y
  <2>1. CASE w <= z
    BY <1>9, <1>10, <2>1
  <2>2. CASE z < w
    BY <1>4, <1>9, <1>10, <2>2
  <2> QED  BY <1>10, <2>1, <2>2
<1> QED  BY <1>5, <1>11, <1>12

LEMMA MaxMin ==
  ASSUME NEW S \in SUBSET Int, IsFiniteSet(S), S # {}
  PROVE  Max(S) \in S /\ Min(S) \in S /\ \A y \in S : Max(S) >= y /\ Min(S) <= y
<1>1. \E x \in S : \A y \in S : x >= y
  BY Extremes
<1>2. \E x \in S : \A y \in S : x <= y
  BY Extremes
<1> QED  BY <1>1, <1>2 DEF Max, Min

\* A whole number that keeps a bound in halves keeps the truncated bound.
LEMMA TruncatedBound ==
  ASSUME NEW v \in Int, NEW h \in Int
  PROVE  /\ Truncated(h) \in Int
         /\ 2 * v >= h => v >= Truncated(h)
         /\ 2 * v <= h => v <= Truncated(h)
  BY DEF Truncated

Limits(spec, e) == {Truncated(c.at[e]) : c \in {d \in spec.constraints : d.on = "length" /\ e \in DOMAIN d.at}}

LEMMA FieldOf ==
  ASSUME NEW spec
  PROVE  /\ FormField(spec).required = ~spec.default
         /\ FormField(spec).validators = {c \in spec.constraints : c.on # "length"}
         /\ DOMAIN FormField(spec).length = {f \in {"min", "max"} : Limits(spec, f) # {}}
         /\ Limits(spec, "min") # {} => FormField(spec).length["min"] = Max(Limits(spec, "min"))
         /\ Limits(spec, "max") # {} => FormField(spec).length["max"] = Min(Limits(spec, "max"))
  BY DEF FormField, Limits

\* What the form lets through passes every check of the contract.
LEMMA FieldPasses ==
  ASSUME HotAssumption, NEW spec \in ParameterSpecs, NEW v \in Entries,
         FieldAccepts(FormField(spec), v), NEW check \in ParameterContract(spec)
  PROVE  Passes(v, check)
<1>1. PICK c \in spec.constraints : check = Check(c)
  BY DEF ParameterContract
<1>2. v \in Int /\ v # Empty /\ c \in Constraints /\ IsFiniteSet(spec.constraints)
  BY DEF HotAssumption, Constraints
<1>3. check.on = c.on /\ check.at = IF c.on = "values" THEN c.at ELSE [e \in DOMAIN c.at |-> Truncated(c.at[e])]
  BY <1>1 DEF Check
<1>4. CASE c.on = "values"
  <2>1. c \in FormField(spec).validators
    BY <1>4, FieldOf
  <2> QED  BY <1>2, <1>3, <1>4, <2>1 DEF FieldAccepts, Passes
<1>5. ASSUME c.on # "values"
      PROVE  /\ c.on \in {"range", "length"} /\ check.on # "values" /\ DOMAIN check.at = DOMAIN c.at
             /\ \A e \in DOMAIN c.at : c.at[e] \in Int /\ check.at[e] = Truncated(c.at[e])
  BY <1>2, <1>3, <1>5 DEF HotAssumption
<1>6. CASE c.on = "range"
  <2>1. c \in FormField(spec).validators
    BY <1>6, FieldOf
  <2>2. /\ "min" \in DOMAIN c.at => 2 * v >= c.at["min"]
        /\ "max" \in DOMAIN c.at => 2 * v <= c.at["max"]
    BY <1>2, <1>6, <2>1 DEF FieldAccepts
  <2>3. /\ "min" \in DOMAIN c.at => v >= check.at["min"]
        /\ "max" \in DOMAIN c.at => v <= check.at["max"]
    BY <1>2, <1>5, <1>6, <2>2, TruncatedBound
  <2> QED  BY <1>2, <1>5, <1>6, <2>3 DEF Passes
<1>7. CASE c.on = "length"
  <2>1. ASSUME NEW e \in {"min", "max"}
        PROVE  IsFiniteSet(Limits(spec, e)) /\ Limits(spec, e) \in SUBSET Int
    <3> DEFINE D == {d \in spec.constraints : d.on = "length" /\ e \in DOMAIN d.at}
    <3>1. IsFiniteSet(D)
      BY <1>2, FS_Subset
    <3> DEFINE T == {Truncated(d.at[e]) : d \in D}
               f == [d \in D |-> Truncated(d.at[e])]
    <3>2. IsFiniteSet(T)
      <4> HIDE DEF D
      <4>1. f \in Surjection(D, T)
        BY DEF Surjection
      <4> QED  BY <3>1, <4>1, FS_Surjection
    <3>3. \A d \in D : d.at[e] \in Int
      BY DEF HotAssumption, Constraints
    <3> QED  BY <3>2, <3>3, TruncatedBound DEF Limits
  <2>2. \A e \in DOMAIN c.at : check.at[e] \in Limits(spec, e)
    BY <1>5, <1>7 DEF Limits
  <2>3. ASSUME "min" \in DOMAIN c.at PROVE v >= check.at["min"]
    <3>1. Limits(spec, "min") # {} /\ check.at["min"] \in Limits(spec, "min")
      BY <2>2, <2>3
    <3>2. v >= Max(Limits(spec, "min"))
      BY <1>2, <3>1, FieldOf DEF FieldAccepts
    <3>3. /\ Max(Limits(spec, "min")) >= check.at["min"]
          /\ Max(Limits(spec, "min")) \in Int /\ check.at["min"] \in Int
      BY <2>1, <3>1, MaxMin
    <3> QED  BY <1>2, <3>2, <3>3
  <2>4. ASSUME "max" \in DOMAIN c.at PROVE v <= check.at["max"]
    <3>1. Limits(spec, "max") # {} /\ check.at["max"] \in Limits(spec, "max")
      BY <2>2, <2>4
    <3>2. v <= Min(Limits(spec, "max"))
      BY <1>2, <3>1, FieldOf DEF FieldAccepts
    <3>3. /\ Min(Limits(spec, "max")) <= check.at["max"]
          /\ Min(Limits(spec, "max")) \in Int /\ check.at["max"] \in Int
      BY <2>1, <3>1, MaxMin
    <3> QED  BY <1>2, <3>2, <3>3
  <2> QED  BY <1>2, <1>5, <1>7, <2>3, <2>4 DEF Passes
<1> QED  BY <1>4, <1>5, <1>6, <1>7

Template ==
    /\ DOMAIN hot.parameters \subseteq ParameterNames
    /\ \A p \in DOMAIN hot.parameters : hot.parameters[p] \in ParameterSpecs
    /\ hot.groups \in GroupLists

\* Every parameter is in a form, and the last such form is where it is taken
\* from.
LEMMA Forms ==
  ASSUME HotAssumption, Template
  PROVE  /\ FormGroups \in Seq(SUBSET DOMAIN hot.parameters)
         /\ UNION {FormGroups[i] : i \in DOMAIN FormGroups} = DOMAIN hot.parameters
<1> DEFINE all == DOMAIN hot.parameters
           grouped == [i \in DOMAIN hot.groups |-> hot.groups[i] \cap all]
           rest == all \ UNION {grouped[i] : i \in DOMAIN grouped}
<1>1. hot.groups \in Seq({hot.groups[i] : i \in DOMAIN hot.groups})
  BY DEF HotAssumption, Template
<1>2. Len(hot.groups) \in Nat /\ DOMAIN hot.groups = 1..Len(hot.groups)
  BY <1>1
<1>3. grouped \in Seq(SUBSET all) /\ rest \in SUBSET all
  BY <1>2
<1>4. FormGroups = IF rest = {} THEN grouped ELSE Append(grouped, rest)
  BY DEF FormGroups
<1>5. all = (UNION {grouped[i] : i \in DOMAIN grouped}) \cup rest
  BY <1>3
<1> HIDE DEF grouped, rest, all
<1>6. CASE rest = {}
  BY <1>3, <1>4, <1>5, <1>6 DEF all
<1>7. CASE rest # {}
  <2> DEFINE forms == Append(grouped, rest)
  <2>1. /\ forms \in Seq(SUBSET all) /\ DOMAIN grouped = 1..Len(grouped) /\ Len(grouped) \in Nat
        /\ DOMAIN forms = 1..(Len(grouped) + 1)
        /\ \A i \in DOMAIN grouped : forms[i] = grouped[i]
        /\ forms[Len(grouped) + 1] = rest
    BY <1>3
  <2> HIDE DEF forms
  <2>2. (UNION {forms[i] : i \in DOMAIN forms}) = (UNION {grouped[i] : i \in DOMAIN grouped}) \cup rest
    <3>1. ASSUME NEW x
          PROVE  (\E i \in DOMAIN forms : x \in forms[i])
                 <=> (\E i \in DOMAIN grouped : x \in grouped[i]) \/ x \in rest
      BY <2>1
    <3> QED  BY <3>1
  <2>3. FormGroups = forms
    BY <1>4, <1>7 DEF forms
  <2> QED  BY <1>5, <2>1, <2>2, <2>3 DEF all
<1> QED  BY <1>6, <1>7

LastForm(p) == Max({i \in DOMAIN FormGroups : p \in FormGroups[i]})

LEMMA LastFormHasIt ==
  ASSUME HotAssumption, Template, NEW p \in DOMAIN hot.parameters
  PROVE  <<LastForm(p), p>> \in FormFields
<1> DEFINE In == {i \in DOMAIN FormGroups : p \in FormGroups[i]}
<1>1. /\ DOMAIN FormGroups = 1..Len(FormGroups) /\ Len(FormGroups) \in Nat
      /\ In # {} /\ p \in ParameterNames
  <2>1. FormGroups \in Seq(SUBSET DOMAIN hot.parameters)
    BY Forms
  <2>2. \E i \in DOMAIN FormGroups : p \in FormGroups[i]
    BY Forms
  <2> QED  BY <2>1, <2>2 DEF Template
<1>2. In \in SUBSET Int /\ In \in SUBSET (1..Len(FormGroups))
  BY <1>1
<1>3. IsFiniteSet(In)
  <2>1. IsFiniteSet(1..Len(FormGroups))
    BY <1>1, FS_Interval
  <2> QED  BY <1>2, <2>1, FS_Subset
<1>4. Max(In) \in In
  <2> HIDE DEF In
  <2> QED  BY <1>1, <1>2, <1>3, MaxMin
<1> QED  BY <1>1, <1>4 DEF LastForm, FormFields

\* A deployed application has one stack, of the parameters last entered.
LeftEmpty == \E f \in FormFields : answers[f] = Empty
NotTranslated == \E p \in DOMAIN hot.parameters : hot.parameters[p].type \notin Supported
HotInv ==
    /\ Template
    /\ app = [parameters |-> app.parameters, stack |-> app.stack]
    /\ app.stack \in Nat /\ names \in Nat
    /\ DOMAIN stacks \subseteq {app.stack} \ {NoName}
    /\ phase = "destroyed" => DOMAIN stacks = {}
    /\ phase \in {"loaded", "deployed", "failed"} => app.parameters = ApplicationParameters(answers)
    /\ phase = "deployed" => app.stack \in DOMAIN stacks /\ stacks[app.stack] = SentParameters
    /\ phase = "rejected" => LeftEmpty \/ NotTranslated

LEMMA TakenFromLastForm ==
  ASSUME HotAssumption, Template, NEW entered
  PROVE  /\ DOMAIN ApplicationParameters(entered) = DOMAIN hot.parameters
         /\ \A p \in DOMAIN hot.parameters :
               ApplicationParameters(entered)[p] = entered[<<LastForm(p), p>>]
<1>1. UNION {FormGroups[i] : i \in DOMAIN FormGroups} = DOMAIN hot.parameters
  BY Forms
<1> QED  BY <1>1 DEF ApplicationParameters, LastForm

LEMMA FillInKeeps ==
  ASSUME HotAssumption, HotInv, NEW entered \in [FormFields -> Entries \cup {Empty}], FillIn(entered)
  PROVE  HotInv'
<1>1. /\ UNCHANGED <<hot, stacks, names>> /\ answers' = entered
      /\ app' = [parameters |-> ApplicationParameters(entered), stack |-> app.stack]
      /\ phase' = IF ClassAccepts(app'.parameters) THEN "loaded" ELSE "rejected"
      /\ \A f \in FormFields : FieldAccepts(FormField(hot.parameters[f[2]]), entered[f])
  BY DEF FillIn, HotInv
<1>2. FormGroups' = FormGroups
  BY <1>1 DEF FormGroups
<1>3. FormFields' = FormFields /\ ApplicationParameters(entered)' = ApplicationParameters(entered)
  BY <1>2 DEF FormFields, ApplicationParameters
<1>4. ASSUME ~LeftEmpty', ~NotTranslated'
      PROVE  ClassAccepts(app'.parameters)
  <2>1. \A p \in DOMAIN hot.parameters : hot.parameters[p].type \in Supported
    BY <1>1, <1>4 DEF NotTranslated
  <2>2. \A f \in FormFields : entered[f] \in Entries
    BY <1>1, <1>3, <1>4 DEF LeftEmpty
  <2>3. ASSUME NEW p \in DOMAIN hot.parameters,
               NEW check \in ParameterContract(hot.parameters[p])
        PROVE  p \in DOMAIN app'.parameters /\ Passes(app'.parameters[p], check)
    <3>1. app'.parameters = ApplicationParameters(entered) /\ Template
      BY <1>1 DEF HotInv
    <3>2. p \in DOMAIN app'.parameters /\ app'.parameters[p] = entered[<<LastForm(p), p>>]
      BY <3>1, TakenFromLastForm
    <3>3. <<LastForm(p), p>> \in FormFields
      BY <3>1, LastFormHasIt
    <3>4. /\ entered[<<LastForm(p), p>>] \in Entries
          /\ FieldAccepts(FormField(hot.parameters[p]), entered[<<LastForm(p), p>>])
      BY <1>1, <2>2, <3>3
    <3>5. hot.parameters[p] \in ParameterSpecs
      BY <3>1 DEF Template
    <3> QED  BY <3>2, <3>4, <3>5, FieldPasses
  <2> QED  BY <2>1, <2>3 DEF ClassAccepts
<1>5. Template'
  BY <1>1 DEF HotInv, Template
<1> QED  BY <1>1, <1>3, <1>4, <1>5 DEF HotInv

LEMMA DeployKeepsStack ==
  ASSUME HotAssumption, HotInv, NEW outcome \in {"done", "refused", "failed"}, DeployStack(outcome)
  PROVE  HotInv'
<1> DEFINE name == IF app.stack = NoName THEN names + 1 ELSE app.stack
<1>1. /\ UNCHANGED <<hot, answers>> /\ app' = [parameters |-> app.parameters, stack |-> name]
      /\ name \in Nat \ {NoName} /\ names' \in Nat
  BY DEF DeployStack, HotInv, NoName
<1>2. app'.stack = name /\ app'.parameters = app.parameters
  BY <1>1
<1>3. /\ phase \in {"loaded", "deployed", "failed"}
      /\ phase' = IF outcome = "done" THEN "deployed" ELSE "failed"
      /\ stacks' = IF outcome = "refused" THEN stacks
                   ELSE [n \in DOMAIN stacks \cup {name} |-> IF n = name THEN SentParameters ELSE stacks[n]]
  BY <1>2 DEF DeployStack
<1>4. DOMAIN stacks \subseteq {name} \ {NoName}
  BY <1>1 DEF HotInv
<1>5. /\ DOMAIN stacks' \subseteq {name} \ {NoName}
      /\ phase' = "deployed" => name \in DOMAIN stacks' /\ stacks'[name] = SentParameters
  <2> HIDE DEF name
  <2>1. CASE outcome = "refused"
    BY <1>1, <1>3, <1>4, <2>1
  <2>2. CASE outcome # "refused"
    BY <1>1, <1>3, <1>4, <2>2
  <2> QED  BY <2>1, <2>2
<1>6. FormGroups' = FormGroups
  BY <1>1 DEF FormGroups
<1>7. ApplicationParameters(answers)' = ApplicationParameters(answers)
  BY <1>1, <1>6 DEF ApplicationParameters
<1>8. SentParameters' = SentParameters
  BY <1>1, <1>2 DEF SentParameters
<1>9. Template'
  BY <1>1 DEF HotInv, Template
<1> HIDE DEF name
<1> QED  BY <1>1, <1>2, <1>3, <1>5, <1>7, <1>8, <1>9 DEF HotInv

LEMMA DestroyKeepsStack ==
  ASSUME HotInv, DestroyStack
  PROVE  HotInv'
<1>1. /\ UNCHANGED <<hot, answers, app, names>> /\ phase' = "destroyed"
      /\ DOMAIN stacks' = DOMAIN stacks \ {app.stack}
  BY DEF DestroyStack
<1>2. DOMAIN stacks' = {} /\ Template'
  BY <1>1 DEF HotInv, Template
<1> QED  BY <1>1, <1>2 DEF HotInv

LEMMA HotInduction == ASSUME HotAssumption PROVE HotPackagesSpec => []HotInv
<1>1. ASSUME HotPackagesInit PROVE HotInv
  <2>1. Template
    <3>1. PICK given \in SUBSET ParameterNames, g \in GroupLists, e \in BOOLEAN :
             \E specs \in [given -> ParameterSpecs] :
                hot = [parameters |-> specs, groups |-> g, environments |-> e]
      BY <1>1 DEF HotPackagesInit
    <3>2. PICK specs \in [given -> ParameterSpecs] :
             hot = [parameters |-> specs, groups |-> g, environments |-> e]
      BY <3>1
    <3> QED  BY <3>2 DEF Template
  <2>2. /\ app = [parameters |-> <<>>, stack |-> NoName] /\ names = 0 /\ phase = "new"
        /\ stacks = <<>>
    BY <1>1 DEF HotPackagesInit
  <2>3. DOMAIN stacks = {}
    BY <2>2
  <2> QED  BY <2>1, <2>2, <2>3 DEF HotInv, NoName
<1>2. ASSUME HotInv, UNCHANGED packaging PROVE HotInv'
  <2>1. UNCHANGED <<hot, phase, answers, app, stacks, names>>
    BY <1>2 DEF packaging
  <2>2. FormGroups' = FormGroups /\ SentParameters' = SentParameters
    BY <2>1 DEF FormGroups, SentParameters
  <2>3. FormFields' = FormFields /\ ApplicationParameters(answers)' = ApplicationParameters(answers)
    BY <2>1, <2>2 DEF FormFields, ApplicationParameters
  <2>4. Template' /\ (LeftEmpty' <=> LeftEmpty) /\ (NotTranslated' <=> NotTranslated)
    BY <1>2, <2>1, <2>3 DEF HotInv, Template, LeftEmpty, NotTranslated
  <2> QED  BY <1>2, <2>1, <2>2, <2>3, <2>4 DEF HotInv
<1>3. HotInv /\ [HotPackagesNext]_packaging => HotInv'
  BY <1>2, FillInKeeps, DeployKeepsStack, DestroyKeepsStack DEF HotPackagesNext
<1> QED  BY <1>1, <1>3, PTL DEF HotPackagesSpec

\* The class that is generated from a template takes what its form lets
\* through, since truncating the bounds of a constraint and merging those of
\* several lets no whole number out that the form lets in
\* (HotPackage._translate_constraint, _translate_ui_parameter); Heat gets for
\* every parameter what was entered for it (_generate_application_ui,
\* _generate_workflow); and there is one stack at most, and none after it was
\* destroyed: for templates of any size with any constraints, over any number
\* of deployments that fail.
THEOREM FormsAreDeployed == ASSUME HotAssumption PROVE HotPackagesSpec => []FormsDeploy
<1>1. ASSUME HotInv PROVE FormsDeploy
  <2>1. ASSUME phase = "deployed", NEW p \in DOMAIN hot.parameters
        PROVE  \E f \in FormFields : f[2] = p /\ stacks[app.stack][p] = answers[f]
    <3>1. /\ app.parameters = ApplicationParameters(answers)
          /\ stacks[app.stack] = SentParameters /\ Template
      BY <1>1, <2>1 DEF HotInv
    <3>2. p \in DOMAIN app.parameters /\ app.parameters[p] = answers[<<LastForm(p), p>>]
      BY <2>1, <3>1, TakenFromLastForm
    <3>3. SentParameters[p] = app.parameters[p]
      BY <2>1, <3>2 DEF SentParameters
    <3>4. <<LastForm(p), p>> \in FormFields
      BY <2>1, <3>1, LastFormHasIt
    <3> QED  BY <3>1, <3>2, <3>3, <3>4
  <2>2. Cardinality(DOMAIN stacks) <= IF phase = "destroyed" THEN 0 ELSE 1
    <3>1. DOMAIN stacks = {} \/ (DOMAIN stacks = {app.stack} /\ phase # "destroyed")
      <4>1. DOMAIN stacks \subseteq {app.stack} /\ (phase = "destroyed" => DOMAIN stacks = {})
        BY <1>1 DEF HotInv
      <4>2. DOMAIN stacks = {} \/ DOMAIN stacks = {app.stack}
        BY <4>1
      <4> QED  BY <4>1, <4>2
    <3>2. Cardinality({}) = 0
      BY FS_EmptySet
    <3>3. Cardinality({app.stack}) = 1
      BY FS_Singleton
    <3> QED  BY <3>1, <3>2, <3>3
  <2>3. phase = "rejected" => LeftEmpty \/ NotTranslated
    BY <1>1 DEF HotInv
  <2> QED  BY <2>1, <2>2, <2>3 DEF FormsDeploy, LeftEmpty, NotTranslated
<1> QED  BY <1>1, HotInduction, PTL
================================================================================
