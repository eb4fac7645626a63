--------------------- MODULE EnvironmentLifecycleProofs ---------------------
(* Theorems about EnvironmentLifecycle, and that it implements             *)
(* AtomicDeployments when each handler runs to completion: for every       *)
(* number of sessions, handlers, applications and tasks.                   *)
(*                                                                         *)
(* First the types of what steps compute, type correctness, and what       *)
(* serial handlers preserve (SerialInv).  In either mode then:             *)
(* SubmittedForGood, NoSessionForgotten.                                   *)
(* Handlers that run to completion: DeployedOnceOnly and NothingUndone     *)
(* (from SubmitInv); without deletions, or without calls that do not ask   *)
(* get_status first: ResultsMeetTheirTask, StatusIsTheDeployment and       *)
(* OneAtATime (from DeploymentInv); AtomicDeploymentsImplemented; and      *)
(* NothingLeftBehind (from OrphanInv).                                     *)
EXTENDS EnvironmentLifecycle, EnvironmentRefinement, FiniteSetTheorems, TLAPS

-----------------------------------------------------------------------------
(* Types of the helpers. *)

LEMMA ConstantRecords ==
    /\ EmptyDescription \in Descriptions
    /\ NoRow \in SessionRows
    /\ [NoRow EXCEPT !.state = "gone"] \in SessionRows
    /\ IdleRequest \in RequestRecords
    /\ NoTask \in TaskRecords
  BY DEF EmptyDescription, Descriptions, NoRow, SessionRows, SessionStates,
         IdleRequest, RequestRecords, Locations, AllOperations, NoTask,
         TaskRecords, Stages

LEMMA TouchType ==
    ASSUME TypeOK, NEW s \in Sessions, Touch(s)
    PROVE  newer' \in SUBSET (Sessions \X Sessions)
  BY DEF TypeOK, Touch, Rows

LEMMA RemoveType ==
    ASSUME TypeOK, RemoveEnvironment
    PROVE  /\ env' \in [exists : BOOLEAN, version : Nat, desc : Descriptions]
           /\ sessions' \in [Sessions -> SessionRows]
           /\ newer' \in SUBSET (Sessions \X Sessions)
  BY ConstantRecords DEF TypeOK, RemoveEnvironment

LEMMA CurrentDescriptionType ==
    ASSUME TypeOK, NEW s \in Sessions
    PROVE  CurrentDescription(s) \in Descriptions
  BY DEF TypeOK, CurrentDescription, SessionRows

LEMMA FinishType ==
    ASSUME TypeOK, NEW r \in Requests, Finish(r)
    PROVE  requests' \in [Requests -> RequestRecords]
  BY ConstantRecords DEF TypeOK, Finish

LEMMA GotoType ==
    ASSUME TypeOK, NEW r \in Requests, NEW pc \in Locations, Goto(r, pc)
    PROVE  requests' \in [Requests -> RequestRecords]
  BY DEF TypeOK, Goto, RequestRecords

LEMMA EnterType ==
    ASSUME TypeOK, NEW r \in Requests, NEW op \in AllOperations,
           NEW pc \in Locations, Enter(r, op, pc)
    PROVE  requests' \in [Requests -> RequestRecords]
  BY ConstantRecords DEF TypeOK, Enter, IdleRequest, RequestRecords

LEMMA LoadType ==
    ASSUME TypeOK, NEW r \in Requests, NEW op \in AllOperations \cup {None},
           NEW s \in Sessions, Load(r, op, s)
    PROVE  requests' \in [Requests -> RequestRecords]
  BY DEF TypeOK, Load, RequestRecords, Locations

-----------------------------------------------------------------------------
(* Every action keeps the types. *)

LEMMA OpenType ==
    ASSUME TypeOK, NEW r \in Requests,
           \/ \E op \in {"configure", "delete", "action"} : BeginOpen(r, op)
           \/ ReadEnvironment(r) \/ CreateSession(r) \/ MarkDeleted(r)
    PROVE  TypeOK'
<1>1. ASSUME NEW op \in {"configure", "delete", "action"}, BeginOpen(r, op)
      PROVE  TypeOK'
  <2>1. op \in AllOperations /\ "opening" \in Locations
    BY DEF AllOperations, Locations
  <2>2. requests' \in [Requests -> RequestRecords]
    BY <1>1, <2>1, EnterType DEF BeginOpen
  <2>3. QED
    BY <1>1, <2>2 DEF BeginOpen, TypeOK, database
<1>2. CASE ReadEnvironment(r)
  <2>1. [state |-> "opened", version |-> env.version, desc |-> env.desc]
            \in SessionRows
    BY DEF TypeOK, SessionRows, SessionStates
  <2>2. requests' \in [Requests -> RequestRecords]
    <3>1. CASE env.exists
      BY <1>2, <2>1, <3>1 DEF ReadEnvironment, TypeOK, RequestRecords, Locations
    <3>2. CASE ~env.exists
      BY <1>2, <3>2, FinishType DEF ReadEnvironment
    <3>3. QED
      BY <3>1, <3>2
  <2>3. QED
    BY <1>2, <2>2 DEF ReadEnvironment, TypeOK, database
<1>3. CASE CreateSession(r)
  <2>1. CASE Finish(r) /\ UNCHANGED <<database, known>>
    BY <1>3, <2>1, FinishType DEF CreateSession, TypeOK, database
  <2>2. ASSUME NEW s \in Unborn,
               sessions' = [sessions EXCEPT ![s] = requests[r].seen],
               Touch(s), UNCHANGED env,
               \/ Finish(r) /\ known' = known \cup {s}
               \/ /\ requests' = [requests EXCEPT
                        ![r].session = s,
                        ![r].pc = IF requests[r].op = "delete"
                                  THEN "marking" ELSE "checking"]
                  /\ UNCHANGED known
        PROVE  TypeOK'
    <3>1. s \in Sessions
      BY DEF Unborn
    <3>2. newer' \in SUBSET (Sessions \X Sessions)
      BY <2>2, <3>1, TouchType
    <3>3. sessions' \in [Sessions -> SessionRows]
      BY <2>2 DEF TypeOK, RequestRecords
    <3>4. requests' \in [Requests -> RequestRecords] /\ known' \in SUBSET Sessions
      BY <2>2, <3>1, FinishType DEF TypeOK, RequestRecords, Locations
    <3>5. QED
      BY <1>3, <2>2, <3>2, <3>3, <3>4 DEF CreateSession, TypeOK
  <2>3. QED
    BY <1>3, <2>1, <2>2 DEF CreateSession
<1>4. CASE MarkDeleted(r)
  <2> DEFINE s == requests[r].session
  <2>1. CASE s \in Rows
    <3>1. s \in Sessions
      BY <2>1 DEF Rows
    <3>2. CurrentDescription(s) \in Descriptions
      BY <3>1, CurrentDescriptionType
    <3>3. [CurrentDescription(s) EXCEPT !.deleted = TRUE, !.apps = {}]
              \in Descriptions
      BY <3>2 DEF Descriptions
    <3>4. sessions' \in [Sessions -> SessionRows]
      BY <1>4, <2>1, <3>3 DEF MarkDeleted, TypeOK, SessionRows
    <3>5. newer' \in SUBSET (Sessions \X Sessions)
      BY <1>4, <2>1, <3>1, TouchType DEF MarkDeleted
    <3>6. requests' \in [Requests -> RequestRecords]
      BY <1>4, <2>1, GotoType DEF MarkDeleted, Locations
    <3>7. QED
      BY <1>4, <3>4, <3>5, <3>6 DEF MarkDeleted, TypeOK
  <2>2. CASE s \notin Rows
    BY <1>4, <2>2, FinishType DEF MarkDeleted, TypeOK
  <2>3. QED
    BY <2>1, <2>2
<1>5. QED
  BY <1>1, <1>2, <1>3, <1>4


LEMMA UseType ==
    ASSUME TypeOK, NEW r \in Requests,
           \/ \E op \in {"deploy", "edit"} : BeginUse(r, op)
           \/ ReadSession(r) \/ CheckVersion(r) \/ CheckSessions(r)
           \/ FailToSubmit(r) \/ BeginDrop(r) \/ CrashRequest(r)
    PROVE  TypeOK'
<1>1. requests' \in [Requests -> RequestRecords]
  <2>1. ASSUME NEW op \in {"deploy", "edit"}, BeginUse(r, op)
        PROVE  requests' \in [Requests -> RequestRecords]
    <3>1. op \in AllOperations
      BY DEF AllOperations
    <3>2. QED
      BY <2>1, <3>1, LoadType DEF BeginUse, Rows
  <2>2. CASE ReadSession(r)
    BY <2>2, FinishType, LoadType DEF ReadSession, TypeOK, RequestRecords, Rows
  <2>3. CASE CheckVersion(r)
    BY <2>3, FinishType, GotoType DEF CheckVersion, Locations
  <2>4. CASE CheckSessions(r)
    <3>1. "editing" \in Locations /\ "submitting" \in Locations
      BY DEF Locations
    <3>2. QED
      BY <2>4, <3>1, FinishType, GotoType DEF CheckSessions
  <2>5. CASE FailToSubmit(r) \/ CrashRequest(r)
    BY <2>5, FinishType DEF FailToSubmit, CrashRequest
  <2>6. CASE BeginDrop(r)
    <3>1. PICK s \in Sessions : requests' = [requests EXCEPT ![r] =
              [IdleRequest EXCEPT !.pc = "dropping", !.op = "drop",
                                  !.session = s]]
      BY <2>6 DEF BeginDrop, Rows
    <3>2. [IdleRequest EXCEPT !.pc = "dropping", !.op = "drop",
                              !.session = s] \in RequestRecords
      BY ConstantRecords DEF RequestRecords, Locations, AllOperations
    <3>3. QED
      BY <3>1, <3>2 DEF TypeOK
  <2>7. QED
    BY <2>1, <2>2, <2>3, <2>4, <2>5, <2>6
<1>2. UNCHANGED <<database, known, tasks, created, live>>
  BY DEF BeginUse, ReadSession, CheckVersion, CheckSessions, FailToSubmit,
         BeginDrop, CrashRequest
<1>3. QED
  BY <1>1, <1>2 DEF TypeOK, database

LEMMA SubmitType ==
    ASSUME TypeOK, NEW r \in Requests, Submit(r)
    PROVE  TypeOK'
<1> DEFINE s == requests[r].session
           desc == requests[r].seen.desc
           action == requests[r].op = "action"
           task == [NoTask EXCEPT !.stage = "saved", !.session = s,
                        !.desc = desc, !.action = action \/ ~desc.deleted]
<1>1. s \in Sessions
  BY DEF Submit, Rows
<1>2. desc \in Descriptions
  BY DEF TypeOK, RequestRecords, SessionRows
<1>3. task \in TaskRecords
  BY <1>1, <1>2 DEF NoTask, TaskRecords, Stages, EmptyDescription
<1>4. tasks' \in [Tasks -> TaskRecords]
  <2>1. tasks' = [tasks EXCEPT ![created + 1] = task]
    BY DEF Submit
  <2>2. QED
    BY <1>3, <2>1 DEF TypeOK
<1>5. created' \in 0 .. MaxTasks
  BY ConstantsAssumption DEF TypeOK, Submit
<1>6. sessions' \in [Sessions -> SessionRows]
  <2> DEFINE state == IF desc.deleted THEN "deleting" ELSE "deploying"
             row == [sessions[s] EXCEPT !.state = state]
  <2>1. sessions' = [sessions EXCEPT ![s] = row]
    BY DEF Submit
  <2>2. sessions[s] \in SessionRows
    BY <1>1 DEF TypeOK
  <2>3. state \in SessionStates
    BY DEF SessionStates
  <2>4. row \in SessionRows
    <3> HIDE DEF state
    <3> QED
      BY <2>2, <2>3 DEF SessionRows
  <2>5. QED
    <3> HIDE DEF row
    <3> QED
      BY <2>1, <2>4 DEF TypeOK
<1>7. newer' \in SUBSET (Sessions \X Sessions)
  BY <1>1, TouchType DEF Submit
<1>8. requests' \in [Requests -> RequestRecords]
  BY FinishType DEF Submit
<1>9. QED
  BY <1>4, <1>5, <1>6, <1>7, <1>8 DEF Submit, TypeOK

LEMMA RowType ==
    ASSUME TypeOK, NEW r \in Requests,
           \/ RemoveUndeployed(r) \/ ReadModel(r) \/ SaveModel(r)
           \/ DropSession(r) \/ Abandon(r)
    PROVE  TypeOK'
<1>1. CASE RemoveUndeployed(r)
  BY <1>1, RemoveType, FinishType DEF RemoveUndeployed, TypeOK
<1>2. CASE ReadModel(r)
  <2>1. CASE Finish(r)
    BY <1>2, <2>1, FinishType DEF ReadModel, TypeOK, database
  <2>2. CASE /\ requests[r].session \in Rows
             /\ requests' = [requests EXCEPT
                    ![r].pc = "saving",
                    ![r].seen.desc = CurrentDescription(requests[r].session)]
    <3>1. CurrentDescription(requests[r].session) \in Descriptions
      BY <2>2, CurrentDescriptionType DEF Rows
    <3> DEFINE row == [requests[r].seen EXCEPT
                          !.desc = CurrentDescription(requests[r].session)]
               request == [requests[r] EXCEPT !.pc = "saving", !.seen = row]
    <3>2. requests[r] \in RequestRecords
      BY DEF TypeOK
    <3>3. row \in SessionRows
      BY <3>1, <3>2 DEF RequestRecords, SessionRows
    <3>4. request \in RequestRecords
      BY <3>2, <3>3 DEF RequestRecords, Locations
    <3>5. requests' = [requests EXCEPT ![r] = request]
      BY <2>2, <3>2 DEF TypeOK, RequestRecords
    <3>6. requests' \in [Requests -> RequestRecords]
      BY <3>4, <3>5 DEF TypeOK
    <3>7. QED
      BY <1>2, <3>6 DEF ReadModel, TypeOK, database
  <2>3. QED
    BY <1>2, <2>1, <2>2 DEF ReadModel
<1>3. CASE SaveModel(r)
  <2>1. requests' \in [Requests -> RequestRecords]
    BY <1>3, FinishType DEF SaveModel
  <2>2. /\ sessions' \in [Sessions -> SessionRows]
        /\ newer' \in SUBSET (Sessions \X Sessions)
    <3> DEFINE s == requests[r].session
               apps == requests[r].seen.desc.apps
    <3>1. CASE UNCHANGED <<sessions, newer>>
      BY <3>1 DEF TypeOK
    <3>2. ASSUME s \in Rows, Touch(s), NEW a \in Apps,
                 NEW changed \in {apps \cup {a}, apps \ {a}},
                 sessions' = [sessions EXCEPT ![s] = SavedRow(r, changed)]
          PROVE  /\ sessions' \in [Sessions -> SessionRows]
                 /\ newer' \in SUBSET (Sessions \X Sessions)
      <4>1. s \in Sessions
        BY <3>2 DEF Rows
      <4>2. changed \in SUBSET Apps
        BY DEF TypeOK, RequestRecords, SessionRows, Descriptions
      <4> DEFINE desc == [sessions[s].desc EXCEPT !.deleted = FALSE,
                                                  !.apps = changed]
      <4>3. sessions[s] \in SessionRows
        BY <4>1 DEF TypeOK
      <4>4. desc \in Descriptions
        BY <4>2, <4>3 DEF SessionRows, Descriptions
      <4>5. SavedRow(r, changed) = [sessions[s] EXCEPT !.desc = desc]
        BY <4>3 DEF SavedRow, SessionRows, Descriptions
      <4>6. SavedRow(r, changed) \in SessionRows
        BY <4>3, <4>4, <4>5 DEF SessionRows
      <4>7. QED
        BY <3>2, <4>1, <4>6, TouchType DEF TypeOK
    <3>3. QED
      BY <1>3, <3>1, <3>2 DEF SaveModel
  <2>3. QED
    BY <1>3, <2>1, <2>2 DEF SaveModel, TypeOK
<1>4. CASE DropSession(r)
  BY <1>4, FinishType, ConstantRecords DEF DropSession, TypeOK
<1>5. CASE Abandon(r)
  BY <1>5, RemoveType DEF Abandon, TypeOK
<1>6. QED
  BY <1>1, <1>2, <1>3, <1>4, <1>5

LEMMA EngineType ==
    ASSUME TypeOK, NEW i \in Tasks, Cast(i) \/ EngineStep(i) \/ Lose(i)
    PROVE  TypeOK'
<1>1. tasks[i] \in TaskRecords
  BY DEF TypeOK
<1>2. ASSUME NEW from, NEW to \in Stages, Move(i, from, to)
      PROVE  TypeOK'
  BY <1>2 DEF Move, TypeOK, database, TaskRecords
<1>3. ASSUME NEW desc \in Descriptions, NEW exception \in BOOLEAN,
             NEW reports \in BOOLEAN, NEW model \in BOOLEAN,
             Answer(i, desc, exception, reports, model), live' \in BOOLEAN
      PROVE  TypeOK'
  <2> DEFINE report == IF reports THEN "sent" ELSE "none"
             task == [tasks[i] EXCEPT
                         !.stage = "result", !.desc = desc, !.model = model,
                         !.exception = exception, !.report = report]
  <2>1. task \in TaskRecords
    <3>1. report \in {"none", "sent", "handled"}
      OBVIOUS
    <3> HIDE DEF report
    <3>2. QED
      BY <1>1, <1>3, <3>1 DEF TaskRecords, Stages
  <2>2. tasks' = [tasks EXCEPT ![i] = task]
    BY <1>3 DEF Answer, TypeOK
  <2>3. QED
    BY <1>3, <2>1, <2>2 DEF Answer, TypeOK, database
<1>4. CASE Cast(i) \/ Start(i)
  BY <1>2, <1>4 DEF Cast, Start, Stages
<1>5. CASE Complete(i)
  <2> DEFINE desc == [tasks[i].desc EXCEPT !.copy =
                         IF tasks[i].desc.deleted THEN "none" ELSE "present"]
  <2>1. desc \in Descriptions
    BY <1>1 DEF TaskRecords, Descriptions
  <2>2. PICK exception \in BOOLEAN, reports \in BOOLEAN :
            Answer(i, desc, exception, reports, TRUE)
    BY <1>5 DEF Complete
  <2>3. live' \in BOOLEAN
    BY <1>5 DEF Complete
  <2>4. QED
    BY <1>3, <2>1, <2>2, <2>3
<1>6. CASE FailEarly(i)
  <2>1. tasks[i].desc \in Descriptions /\ live' \in BOOLEAN
    BY <1>1, <1>6 DEF TaskRecords, FailEarly, TypeOK
  <2>2. Answer(i, tasks[i].desc, TRUE, "report" \in Faults, TRUE)
    BY <1>6 DEF FailEarly
  <2>3. ("report" \in Faults) \in BOOLEAN
    OBVIOUS
  <2>4. QED
    BY <1>3, <2>1, <2>2, <2>3
<1>7. CASE FailTrust(i)
  <2>1. tasks[i].desc \in Descriptions /\ live' \in BOOLEAN
    BY <1>1, <1>7 DEF TaskRecords, FailTrust, TypeOK
  <2>2. Answer(i, tasks[i].desc, TRUE, "report" \in Faults, FALSE)
    BY <1>7 DEF FailTrust
  <2>3. ("report" \in Faults) \in BOOLEAN
    OBVIOUS
  <2>4. QED
    BY <1>3, <2>1, <2>2, <2>3
<1>8. CASE FailWithoutModel(i) \/ Lose(i)
  <2>1. tasks' \in [Tasks -> TaskRecords]
    <3>1. tasks' = [tasks EXCEPT ![i].stage = "lost"]
      BY <1>8 DEF FailWithoutModel, Lose
    <3>2. [tasks[i] EXCEPT !.stage = "lost"] \in TaskRecords
      BY <1>1 DEF TaskRecords, Stages
    <3>3. QED
      BY <3>1, <3>2 DEF TypeOK
  <2>2. live' \in BOOLEAN
    BY <1>8 DEF FailWithoutModel, Lose, TypeOK
  <2>3. QED
    BY <1>8, <2>1, <2>2 DEF FailWithoutModel, Lose, TypeOK, database
<1>9. QED
  BY <1>4, <1>5, <1>6, <1>7, <1>8 DEF EngineStep

LEMMA RowUpdateType ==
    ASSUME TypeOK
    PROVE  /\ [tasks EXCEPT ![created].finished = TRUE] \in [Tasks -> TaskRecords]
           /\ [tasks EXCEPT ![created].errors = TRUE] \in [Tasks -> TaskRecords]
<1>1. ASSUME NEW t \in TaskRecords
      PROVE  /\ [t EXCEPT !.finished = TRUE] \in TaskRecords
             /\ [t EXCEPT !.errors = TRUE] \in TaskRecords
  BY DEF TaskRecords
<1>2. QED
  BY <1>1 DEF TypeOK

LEMMA ResultType ==
    ASSUME TypeOK, NEW i \in Tasks, ResultStep(i) \/ HandleReport(i)
    PROVE  TypeOK'
<1>t. tasks[i] \in TaskRecords
  BY DEF TypeOK
<1>s. ASSUME NEW stage \in Stages, tasks' = [tasks EXCEPT ![i].stage = stage]
      PROVE  tasks' \in [Tasks -> TaskRecords]
  <2>1. [tasks[i] EXCEPT !.stage = stage] \in TaskRecords
    BY <1>t DEF TaskRecords
  <2>2. QED
    BY <1>s, <2>1 DEF TypeOK
<1>1. CASE LoadResult(i)
  <2>1. tasks' \in [Tasks -> TaskRecords]
    <3>1. PICK stage \in Stages, version \in Nat :
              tasks' = [tasks EXCEPT ![i].stage = stage, ![i].version = version]
      BY <1>1 DEF LoadResult, TypeOK, Stages
    <3>2. [tasks[i] EXCEPT !.stage = stage, !.version = version] \in TaskRecords
      BY <1>t DEF TaskRecords
    <3>3. tasks' = [tasks EXCEPT ![i] =
                       [tasks[i] EXCEPT !.stage = stage, !.version = version]]
      BY <3>1 DEF TypeOK
    <3>4. QED
      BY <3>2, <3>3 DEF TypeOK
  <2>2. CASE RemoveEnvironment
    BY <1>1, <2>1, <2>2, RemoveType DEF LoadResult, TypeOK
  <2>3. CASE UNCHANGED database
    BY <1>1, <2>1, <2>3 DEF LoadResult, TypeOK, database
  <2>4. QED
    BY <1>1, <2>2, <2>3 DEF LoadResult
<1>2. CASE StoreResult(i)
  <2>1. tasks' \in [Tasks -> TaskRecords]
    BY <1>2, <1>s DEF StoreResult, Stages
  <2>2. env' \in [exists : BOOLEAN, version : Nat, desc : Descriptions]
    <3>1. NextVersion(i) \in Nat /\ tasks[i].desc \in Descriptions
      BY <1>t DEF NextVersion, TaskRecords
    <3>2. QED
      BY <1>2, <3>1 DEF StoreResult, TypeOK
  <2>3. QED
    BY <1>2, <2>1, <2>2 DEF StoreResult, TypeOK
<1>3. CASE FinishTask(i)
  <2>1. tasks' \in [Tasks -> TaskRecords]
    <3>1. CASE tasks' = [tasks EXCEPT ![i].stage = "done"]
      BY <3>1, <1>s DEF Stages
    <3>2. ASSUME NEW failed \in BOOLEAN,
                 tasks' = [tasks EXCEPT ![created].finished = TRUE,
                                        ![i].stage = "closing",
                                        ![i].failed = failed]
          PROVE  tasks' \in [Tasks -> TaskRecords]
      <4> DEFINE finished == [tasks EXCEPT ![created].finished = TRUE]
                 task == [finished[i] EXCEPT !.stage = "closing",
                                             !.failed = failed]
      <4>1. finished \in [Tasks -> TaskRecords]
        BY RowUpdateType
      <4>2. ASSUME NEW t \in TaskRecords
            PROVE  [t EXCEPT !.stage = "closing", !.failed = failed]
                       \in TaskRecords
        BY DEF TaskRecords, Stages
      <4>3. task \in TaskRecords
        BY <4>1, <4>2
      <4>4. tasks' = [finished EXCEPT ![i] = task]
        BY <3>2 DEF TypeOK
      <4>5. QED
        BY <4>1, <4>3, <4>4
    <3>3. (tasks[i].exception \/ tasks[created].errors) \in BOOLEAN
      OBVIOUS
    <3>4. QED
      BY <1>3, <3>1, <3>2, <3>3 DEF FinishTask
  <2>2. QED
    BY <1>3, <2>1 DEF FinishTask, TypeOK, database
<1>4. CASE CloseSession(i)
  <2>1. tasks' \in [Tasks -> TaskRecords]
    BY <1>4, <1>s DEF CloseSession, Stages
  <2>2. /\ sessions' \in [Sessions -> SessionRows]
        /\ newer' \in SUBSET (Sessions \X Sessions)
    <3>1. CASE UNCHANGED <<sessions, newer>>
      BY <3>1 DEF TypeOK
    <3>2. ASSUME NEW s \in Sessions, NEW outcome \in SessionStates,
                 sessions' = [sessions EXCEPT ![s].state = outcome], Touch(s)
          PROVE  /\ sessions' \in [Sessions -> SessionRows]
                 /\ newer' \in SUBSET (Sessions \X Sessions)
      BY <3>2, TouchType DEF TypeOK, SessionRows
    <3>3. QED
      BY <1>4, <3>1, <3>2 DEF CloseSession, InState, SessionStates
  <2>3. QED
    BY <1>4, <2>1, <2>2 DEF CloseSession, TypeOK
<1>5. CASE HandleReport(i)
  <2>1. tasks' \in [Tasks -> TaskRecords]
    <3> DEFINE reported == [tasks EXCEPT ![created].errors = TRUE]
    <3>1. reported \in [Tasks -> TaskRecords]
      BY RowUpdateType
    <3>2. ASSUME NEW f \in [Tasks -> TaskRecords],
                 tasks' = [f EXCEPT ![i].report = "handled"]
          PROVE  tasks' \in [Tasks -> TaskRecords]
      <4>1. [f[i] EXCEPT !.report = "handled"] \in TaskRecords
        BY DEF TaskRecords
      <4>2. QED
        BY <3>2, <4>1
    <3>3. \/ tasks' = [tasks EXCEPT ![i].report = "handled"]
          \/ tasks' = [reported EXCEPT ![i].report = "handled"]
      BY <1>5 DEF HandleReport
    <3>4. QED
      BY <3>1, <3>2, <3>3 DEF TypeOK
  <2>2. QED
    BY <1>5, <2>1 DEF HandleReport, TypeOK, database
<1>6. QED
  BY <1>1, <1>2, <1>3, <1>4, <1>5 DEF ResultStep

LEMMA TypeInit == Init => TypeOK
<1> SUFFICES ASSUME Init
             PROVE  TypeOK
  OBVIOUS
<1>1. env \in [exists : BOOLEAN, version : Nat, desc : Descriptions]
  BY ConstantRecords DEF Init
<1>2. created \in 0 .. MaxTasks
  BY ConstantsAssumption DEF Init
<1>3. QED
  BY <1>1, <1>2, ConstantRecords DEF Init, TypeOK

LEMMA TypeStep == TypeOK /\ [Next]_vars => TypeOK'
<1> SUFFICES ASSUME TypeOK, [Next]_vars
             PROVE  TypeOK'
  OBVIOUS
<1>1. CASE UNCHANGED vars
  BY <1>1 DEF vars, TypeOK
<1>2. ASSUME NEW r \in Requests,
             ClientCall(r) \/ RequestStep(r) \/ CrashRequest(r)
      PROVE  TypeOK'
  BY <1>2, OpenType, UseType, SubmitType, RowType DEF ClientCall, RequestStep
<1>3. ASSUME NEW i \in Tasks,
             Cast(i) \/ EngineStep(i) \/ ResultStep(i) \/ HandleReport(i)
               \/ Lose(i)
      PROVE  TypeOK'
  BY <1>3, EngineType, ResultType
<1>4. QED
  BY <1>1, <1>2, <1>3 DEF Next

\* Every variable keeps its type: in particular versions never fall below
\* zero and a session has a state the program knows.
THEOREM TypeCorrect == Spec => []TypeOK
  BY TypeInit, TypeStep, PTL DEF Spec

-----------------------------------------------------------------------------
(* One deployment at a time, when each handler runs to completion.         *)
(*                                                                         *)
(* OneDeployment is not inductive: it must be known that a handler about   *)
(* to submit still finds no deploying session, which it saw two steps      *)
(* earlier (SubmitsAlone).  That holds because no other handler is active  *)
(* (HandlersExclude) and because what it saw was an opened session         *)
(* (LocalsAgree): validate looks for deploying ones only then.             *)

\* What the records of the handlers say, in either mode.
LocalsAgree ==
    \A r \in Requests :
        /\ requests[r].pc = "creating" => requests[r].seen.state = "opened"
        /\ requests[r].pc \in {"checking", "counting"} /\ requests[r].op = "action"
           => requests[r].seen.state = "opened"
        /\ requests[r].pc \in {"marking", "reading"} => requests[r].op = "delete"

HandlersExclude ==
    /\ \A q, r \in Requests :
           requests[q].pc # "idle" /\ requests[r].pc # "idle" => q = r
    /\ \A i, j \in Tasks :
           tasks[i].stage \in Handling /\ tasks[j].stage \in Handling => i = j
    /\ \A r \in Requests, i \in Tasks :
           ~(requests[r].pc # "idle" /\ tasks[i].stage \in Handling)

SubmitsAlone ==
    \A r \in Requests :
        requests[r].pc = "submitting" => InState("deploying") = {}

\* The version a result handler has read is still that of the environment.
VersionsFresh ==
    \A i \in Tasks : tasks[i].stage = "loaded" => tasks[i].version = env.version

SerialInv ==
    /\ TypeOK
    /\ LocalsAgree
    /\ HandlersExclude
    /\ SubmitsAlone
    /\ OneDeployment
    /\ VersionsFresh


LEMMA OthersUnchanged ==
    ASSUME TypeOK, NEW r \in Requests, RequestStep(r) \/ ClientCall(r) \/ CrashRequest(r)
    PROVE  \A q \in Requests \ {r} : requests'[q] = requests[q]
  BY DEF TypeOK, RequestStep, ClientCall, CrashRequest, BeginOpen, ReadEnvironment,
         CreateSession, MarkDeleted, BeginUse, ReadSession, CheckVersion,
         CheckSessions, RemoveUndeployed, Submit, FailToSubmit, ReadModel,
         SaveModel, BeginDrop, DropSession, Abandon, Finish, Goto, Enter, Load

LEMMA LocalsStep ==
    ASSUME TypeOK, LocalsAgree, [Next]_vars
    PROVE  LocalsAgree'
<1> DEFINE Agrees(x) ==
        /\ x.pc = "creating" => x.seen.state = "opened"
        /\ x.pc \in {"checking", "counting"} /\ x.op = "action"
           => x.seen.state = "opened"
        /\ x.pc \in {"marking", "reading"} => x.op = "delete"
<1>1. \A r \in Requests : requests[r] \in RequestRecords /\ Agrees(requests[r])
  BY DEF TypeOK, LocalsAgree
<1>2. CASE UNCHANGED requests
  BY <1>2 DEF LocalsAgree
<1>3. ASSUME NEW r \in Requests,
             RequestStep(r) \/ ClientCall(r) \/ CrashRequest(r)
      PROVE  Agrees(requests'[r])
  <2> USE <1>1 DEF TypeOK
  <2>1. CASE Finish(r)
    BY <2>1 DEF Finish, IdleRequest
  <2>2. ASSUME NEW op \in {"configure", "delete", "action"}, BeginOpen(r, op)
        PROVE  Agrees(requests'[r])
    BY <2>2 DEF BeginOpen, Enter, IdleRequest
  <2>3. CASE ReadEnvironment(r)
    BY <2>1, <2>3 DEF ReadEnvironment, RequestRecords
  <2>4. CASE CreateSession(r)
    <3>1. ASSUME NEW s \in Sessions,
                 requests' = [requests EXCEPT
                    ![r].session = s,
                    ![r].pc = IF requests[r].op = "delete"
                              THEN "marking" ELSE "checking"]
          PROVE  Agrees(requests'[r])
      <4>1. requests'[r] = [requests[r] EXCEPT
                !.session = s,
                !.pc = IF requests[r].op = "delete"
                       THEN "marking" ELSE "checking"]
        BY <3>1
      <4>2. requests[r].seen.state = "opened"
        BY <2>4 DEF CreateSession
      <4>3. QED
        BY <4>1, <4>2 DEF RequestRecords
    <3>2. QED
      BY <2>1, <2>4, <3>1 DEF CreateSession, Unborn
  <2>5. CASE MarkDeleted(r)
    BY <2>1, <2>5 DEF MarkDeleted, Goto, RequestRecords
  <2>6. ASSUME NEW op \in {"deploy", "edit"}, BeginUse(r, op)
        PROVE  Agrees(requests'[r])
    BY <2>6 DEF BeginUse, Load
  <2>7. CASE ReadSession(r)
    BY <2>1, <2>7 DEF ReadSession, Load
  <2>8. CASE CheckVersion(r)
    BY <2>1, <2>8 DEF CheckVersion, Goto, RequestRecords
  <2>9. CASE CheckSessions(r)
    BY <2>1, <2>9 DEF CheckSessions, Goto, RequestRecords
  <2>10. CASE RemoveUndeployed(r) \/ Submit(r) \/ FailToSubmit(r)
             \/ SaveModel(r) \/ DropSession(r) \/ CrashRequest(r)
    BY <2>1, <2>10 DEF RemoveUndeployed, Submit, FailToSubmit, SaveModel,
       DropSession, CrashRequest
  <2>11. CASE ReadModel(r)
    BY <2>1, <2>11 DEF ReadModel, RequestRecords
  <2>12. CASE BeginDrop(r)
    BY <2>12 DEF BeginDrop, IdleRequest
  <2>13. CASE Abandon(r)
    BY <2>13 DEF Abandon
  <2>14. QED
    BY <1>3, <2>2, <2>3, <2>4, <2>5, <2>6, <2>7, <2>8, <2>9, <2>10, <2>11,
       <2>12, <2>13 DEF RequestStep, ClientCall
<1>4. ASSUME NEW i \in Tasks,
             Cast(i) \/ EngineStep(i) \/ ResultStep(i) \/ HandleReport(i) \/ Lose(i)
      PROVE  UNCHANGED requests
  BY <1>4 DEF Cast, EngineStep, Start, Move, Complete, FailEarly, FailTrust,
     Answer, FailWithoutModel, ResultStep, LoadResult, StoreResult, FinishTask,
     CloseSession, HandleReport, Lose
<1>5. QED
  <2>1. CASE UNCHANGED vars
    BY <1>2, <2>1 DEF vars
  <2>2. ASSUME NEW r \in Requests,
               RequestStep(r) \/ ClientCall(r) \/ CrashRequest(r)
        PROVE  LocalsAgree'
    <3>1. \A q \in Requests : Agrees(requests'[q])
      BY <1>1, <1>3, <2>2, OthersUnchanged
    <3>2. QED
      BY <3>1 DEF LocalsAgree
  <2>3. QED
    BY <1>2, <1>4, <2>1, <2>2 DEF Next


\* Only LoadResult makes a task one whose result is being handled.
LEMMA HandlingStep ==
    ASSUME TypeOK
    PROVE  /\ \A r \in Requests :
                RequestStep(r) \/ ClientCall(r) \/ CrashRequest(r) =>
                    \A i \in Tasks : tasks'[i].stage \in Handling =>
                                         tasks'[i] = tasks[i]
           /\ \A i \in Tasks :
                \/ Cast(i) \/ EngineStep(i) \/ HandleReport(i) \/ Lose(i)
                \/ StoreResult(i) \/ FinishTask(i) \/ CloseSession(i)
                => \A j \in Tasks : tasks'[j].stage \in Handling =>
                                        tasks[j].stage \in Handling
           /\ \A i \in Tasks : LoadResult(i) =>
                    \A j \in Tasks \ {i} : tasks'[j] = tasks[j]
<1>1. ASSUME NEW r \in Requests,
             RequestStep(r) \/ ClientCall(r) \/ CrashRequest(r),
             NEW i \in Tasks, tasks'[i].stage \in Handling
      PROVE  tasks'[i] = tasks[i]
  <2>1. CASE Submit(r)
    BY <1>1, <2>1 DEF Submit, TypeOK, Handling, NoTask
  <2>2. CASE UNCHANGED tasks
    BY <2>2
  <2>3. QED
    BY <1>1, <2>1, <2>2 DEF RequestStep, ClientCall, CrashRequest, BeginOpen,
       ReadEnvironment, CreateSession, MarkDeleted, BeginUse, ReadSession,
       CheckVersion, CheckSessions, RemoveUndeployed, FailToSubmit, ReadModel,
       SaveModel, BeginDrop, DropSession, Abandon
<1>2. ASSUME NEW i \in Tasks,
             \/ Cast(i) \/ EngineStep(i) \/ HandleReport(i) \/ Lose(i)
             \/ StoreResult(i) \/ FinishTask(i) \/ CloseSession(i),
             NEW j \in Tasks, tasks'[j].stage \in Handling
      PROVE  tasks[j].stage \in Handling
  <2>1. CASE StoreResult(i) \/ FinishTask(i) \/ CloseSession(i)
    <3>1. tasks[i].stage \in Handling
      BY <2>1 DEF StoreResult, FinishTask, CloseSession, Handling
    <3>2. CASE j # i /\ ~FinishTask(i)
      <4>1. tasks'[j] = tasks[j]
        BY <2>1, <3>2 DEF StoreResult, CloseSession, TypeOK
      <4>2. QED
        BY <1>2, <4>1
    <3>3. CASE j # i /\ FinishTask(i)
      <4>1. tasks'[j].stage = tasks[j].stage
        BY <3>3 DEF FinishTask, TypeOK, TaskRecords
      <4>2. QED
        BY <1>2, <4>1
    <3>4. QED
      BY <3>1, <3>2, <3>3
  <2>2. CASE Cast(i) \/ EngineStep(i) \/ Lose(i)
    <3>1. tasks[i] \in TaskRecords
      BY DEF TypeOK
    <3>2. CASE Cast(i) \/ Start(i)
      BY <1>2, <3>1, <3>2 DEF Cast, Start, Move, TypeOK, TaskRecords, Handling
    <3>3. CASE FailWithoutModel(i) \/ Lose(i)
      <4>1. tasks' = [tasks EXCEPT ![i].stage = "lost"]
        BY <3>3 DEF FailWithoutModel, Lose
      <4>2. QED
        BY <1>2, <3>1, <4>1 DEF TypeOK, TaskRecords, Handling
    <3>4. ASSUME NEW desc, NEW exception, NEW reports, NEW model,
                 Answer(i, desc, exception, reports, model)
          PROVE  tasks[j].stage \in Handling
      BY <1>2, <3>1, <3>4 DEF Answer, TypeOK, TaskRecords, Handling
    <3>5. QED
      BY <2>2, <3>2, <3>3, <3>4 DEF EngineStep, Complete, FailEarly, FailTrust
  <2>3. CASE HandleReport(i)
    <3>1. ASSUME NEW f \in [Tasks -> TaskRecords], f[j].stage = tasks[j].stage,
                 tasks' = [f EXCEPT ![i].report = "handled"]
          PROVE  tasks'[j].stage = tasks[j].stage
      BY <3>1 DEF TaskRecords
    <3> DEFINE reported == [tasks EXCEPT ![created].errors = TRUE]
    <3>2. reported[j].stage = tasks[j].stage /\ reported \in [Tasks -> TaskRecords]
      BY RowUpdateType DEF TypeOK, TaskRecords
    <3>3. CASE tasks' = [tasks EXCEPT ![i].report = "handled"]
      BY <1>2, <3>1, <3>3 DEF TypeOK
    <3>4. CASE tasks' = [reported EXCEPT ![i].report = "handled"]
      <4> HIDE DEF reported
      <4>1. QED
        BY <1>2, <3>1, <3>2, <3>4
    <3>5. \/ tasks' = [tasks EXCEPT ![i].report = "handled"]
          \/ tasks' = [reported EXCEPT ![i].report = "handled"]
      BY <2>3 DEF HandleReport
    <3>6. QED
      BY <3>3, <3>4, <3>5
  <2>4. QED
    BY <1>2, <2>1, <2>2, <2>3
<1>3. ASSUME NEW i \in Tasks, LoadResult(i), NEW j \in Tasks \ {i}
      PROVE  tasks'[j] = tasks[j]
  BY <1>3 DEF LoadResult, TypeOK
<1>4. QED
  BY <1>1, <1>2, <1>3

LEMMA ExclusionStep ==
    ASSUME TypeOK, HandlersExclude, ~Interleaved, [Next]_vars
    PROVE  HandlersExclude'
<1>1. CASE UNCHANGED vars
  BY <1>1 DEF vars, HandlersExclude
<1>2. ASSUME NEW r \in Requests,
             RequestStep(r) \/ ClientCall(r) \/ CrashRequest(r)
      PROVE  HandlersExclude'
  <2>1. \A i \in Tasks : tasks'[i].stage \in Handling =>
                             tasks[i].stage \in Handling
    BY <1>2, HandlingStep
  <2>2. \A q \in Requests \ {r} : requests'[q] = requests[q]
    BY <1>2, OthersUnchanged
  <2>3. requests[r].pc # "idle" \/ ~MidHandler
    BY <1>2 DEF RequestStep, ClientCall, CrashRequest, BeginOpen, MayStart,
       ReadEnvironment, CreateSession, MarkDeleted, BeginUse, ReadSession,
       CheckVersion, CheckSessions, RemoveUndeployed, Submit, FailToSubmit,
       ReadModel, SaveModel, BeginDrop, DropSession, Abandon
  <2>4. QED
    BY <2>1, <2>2, <2>3 DEF HandlersExclude, MidHandler
<1>3. ASSUME NEW i \in Tasks,
             Cast(i) \/ EngineStep(i) \/ ResultStep(i) \/ HandleReport(i) \/ Lose(i)
      PROVE  HandlersExclude'
  <2>1. UNCHANGED requests
    BY <1>3 DEF Cast, EngineStep, Start, Move, Complete, FailEarly, FailTrust,
       Answer, FailWithoutModel, ResultStep, LoadResult, StoreResult,
       FinishTask, CloseSession, HandleReport, Lose
  <2>2. CASE LoadResult(i)
    <3>1. ~MidHandler
      BY <2>2 DEF LoadResult, MayStart
    <3>2. \A j \in Tasks \ {i} : tasks'[j] = tasks[j]
      BY <2>2, HandlingStep
    <3>3. QED
      BY <2>1, <3>1, <3>2 DEF HandlersExclude, MidHandler
  <2>3. CASE ~LoadResult(i)
    <3>1. \A j \in Tasks : tasks'[j].stage \in Handling =>
                               tasks[j].stage \in Handling
      BY <1>3, <2>3, HandlingStep DEF ResultStep
    <3>2. QED
      BY <2>1, <3>1 DEF HandlersExclude
  <2>4. QED
    BY <2>2, <2>3
<1>4. QED
  BY <1>1, <1>2, <1>3 DEF Next

\* Only update_task makes a session deploying.
LEMMA DeployingStep ==
    ASSUME TypeOK, LocalsAgree, [Next]_vars, \A r \in Requests : ~Submit(r)
    PROVE  InState("deploying")' \subseteq InState("deploying")
<1>1. CASE UNCHANGED sessions
  BY <1>1 DEF InState
<1>2. CASE RemoveEnvironment
  BY <1>2 DEF RemoveEnvironment, InState, TypeOK, NoRow
<1>3. ASSUME NEW s, NEW row, sessions' = [sessions EXCEPT ![s] = row],
             row.state = "deploying" => s \in InState("deploying")
      PROVE  InState("deploying")' \subseteq InState("deploying")
  BY <1>3 DEF InState, TypeOK
<1>4. ASSUME NEW r \in Requests,
             RequestStep(r) \/ ClientCall(r) \/ CrashRequest(r)
      PROVE  InState("deploying")' \subseteq InState("deploying")
  <2> DEFINE s == requests[r].session
  <2>1. CASE CreateSession(r)
    <3>1. requests[r].seen.state = "opened"
      BY <2>1 DEF CreateSession, LocalsAgree
    <3>2. CASE UNCHANGED sessions
      BY <1>1, <3>2
    <3>3. ASSUME NEW t \in Unborn,
                 sessions' = [sessions EXCEPT ![t] = requests[r].seen]
          PROVE  InState("deploying")' \subseteq InState("deploying")
      BY <1>3, <3>1, <3>3
    <3>4. QED
      BY <2>1, <3>2, <3>3 DEF CreateSession, database
  <2>2. CASE MarkDeleted(r)
    BY <1>1, <2>2 DEF MarkDeleted, InState, TypeOK, SessionRows, Rows
  <2>3. CASE SaveModel(r)
    <3>1. CASE UNCHANGED sessions
      BY <1>1, <3>1
    <3>2. ASSUME s \in Rows, NEW apps,
                 sessions' = [sessions EXCEPT ![s] = SavedRow(r, apps)]
          PROVE  InState("deploying")' \subseteq InState("deploying")
      <4>1. SavedRow(r, apps).state = sessions[s].state
        BY <3>2 DEF SavedRow, Rows, TypeOK, SessionRows
      <4>2. QED
        BY <1>3, <3>2, <4>1 DEF InState, Rows
    <3>3. QED
      BY <2>3, <3>1, <3>2 DEF SaveModel
  <2>4. CASE DropSession(r)
    BY <1>3, <2>4 DEF DropSession, NoRow
  <2>5. CASE UNCHANGED sessions \/ RemoveEnvironment
    BY <1>1, <1>2, <2>5
  <2>6. QED
    BY <1>4, <2>1, <2>2, <2>3, <2>4, <2>5 DEF RequestStep, ClientCall,
       CrashRequest, BeginOpen, ReadEnvironment, BeginUse, ReadSession,
       CheckVersion, CheckSessions, RemoveUndeployed, FailToSubmit, ReadModel,
       BeginDrop, Abandon, database
<1>5. ASSUME NEW i \in Tasks,
             Cast(i) \/ EngineStep(i) \/ ResultStep(i) \/ HandleReport(i) \/ Lose(i)
      PROVE  InState("deploying")' \subseteq InState("deploying")
  <2>1. CASE CloseSession(i)
    <3>1. CASE UNCHANGED sessions
      BY <1>1, <3>1
    <3>2. ASSUME NEW s \in Sessions,
                 NEW outcome \in {"deployed", "delete failure", "deploy failure"},
                 sessions' = [sessions EXCEPT ![s].state = outcome]
          PROVE  InState("deploying")' \subseteq InState("deploying")
      BY <3>2 DEF InState, TypeOK, SessionRows
    <3>3. QED
      BY <2>1, <3>1, <3>2 DEF CloseSession, InState
  <2>2. CASE UNCHANGED sessions \/ RemoveEnvironment
    BY <1>1, <1>2, <2>2
  <2>3. QED
    BY <1>5, <2>1, <2>2 DEF Cast, EngineStep, Start, Move, Complete, FailEarly,
       FailTrust, Answer, FailWithoutModel, ResultStep, LoadResult, StoreResult,
       FinishTask, HandleReport, Lose, database
<1>6. QED
  BY <1>1, <1>4, <1>5 DEF Next, vars


\* A handler goes on to submit only from its count of deploying sessions.
LEMMA SubmittingStep ==
    ASSUME TypeOK, LocalsAgree, [Next]_vars, NEW r \in Requests,
           requests'[r].pc = "submitting"
    PROVE  \/ requests[r].pc = "submitting"
           \/ InState("deploying") = {} /\ UNCHANGED sessions
<1>1. CASE UNCHANGED requests
  BY <1>1
<1>2. CASE CheckSessions(r)
  <2>1. CASE Finish(r)
    BY <2>1 DEF Finish, TypeOK, IdleRequest
  <2>2. CASE CountValid(requests[r].seen)
             /\ Accepts(requests[r].op, requests[r].seen.state)
             /\ requests[r].op # "edit"
    <3>1. requests[r].seen.state = "opened"
      BY <1>2, <2>2 DEF CheckSessions, Accepts, LocalsAgree
    <3>2. InState("deploying") = {}
      BY <2>2, <3>1 DEF CountValid
    <3>3. QED
      BY <1>2, <3>2 DEF CheckSessions, database
  <2>3. CASE requests[r].op = "edit" /\ Goto(r, "editing")
    BY <2>3 DEF Goto, TypeOK, RequestRecords
  <2>4. QED
    BY <1>2, <2>1, <2>2, <2>3 DEF CheckSessions
<1>3. ASSUME NEW q \in Requests \ {r},
             RequestStep(q) \/ ClientCall(q) \/ CrashRequest(q)
      PROVE  requests[r].pc = "submitting"
  BY <1>3, OthersUnchanged
<1>4. ASSUME (RequestStep(r) /\ ~CheckSessions(r)) \/ ClientCall(r)
                \/ CrashRequest(r)
      PROVE  requests[r].pc = "submitting"
  <2> USE DEF TypeOK
  <2>1. CASE Finish(r) \/ UNCHANGED requests
    BY <2>1 DEF Finish, IdleRequest
  <2>2. ASSUME NEW pc \in {"reading", "counting"}, Goto(r, pc)
        PROVE  FALSE
    BY <2>2 DEF Goto, RequestRecords
  <2>3. ASSUME NEW op, NEW s, Load(r, op, s)
        PROVE  FALSE
    BY <2>3 DEF Load
  <2>4. CASE ReadEnvironment(r)
    BY <2>1, <2>4 DEF ReadEnvironment, RequestRecords
  <2>5. CASE CreateSession(r)
    <3>1. ASSUME NEW s \in Sessions, NEW pc \in {"marking", "checking"},
                 requests' = [requests EXCEPT ![r].session = s, ![r].pc = pc]
          PROVE  requests'[r].pc # "submitting"
      BY <3>1 DEF RequestRecords
    <3>2. CASE ~env.exists
      BY <2>1, <2>5, <3>2 DEF CreateSession
    <3>3. CASE env.exists
      <4>1. PICK s \in Unborn :
                IF requests[r].op = "configure"
                THEN Finish(r)
                ELSE requests' = [requests EXCEPT
                         ![r].session = s,
                         ![r].pc = IF requests[r].op = "delete"
                                   THEN "marking" ELSE "checking"]
        BY <2>5, <3>3 DEF CreateSession
      <4>2. QED
        BY <1>4, <2>1, <3>1, <4>1 DEF Unborn
    <3>4. QED
      BY <3>2, <3>3
  <2>6. CASE ReadModel(r)
    BY <2>1, <2>6 DEF ReadModel, RequestRecords
  <2>7. ASSUME NEW op, BeginOpen(r, op)
        PROVE  FALSE
    BY <2>7 DEF BeginOpen, Enter, IdleRequest
  <2>8. CASE BeginDrop(r)
    BY <2>8 DEF BeginDrop, IdleRequest
  <2>9. CASE MarkDeleted(r) \/ ReadSession(r) \/ CheckVersion(r)
    BY <2>1, <2>2, <2>3, <2>9 DEF MarkDeleted, ReadSession, CheckVersion
  <2>10. CASE RemoveUndeployed(r) \/ Submit(r) \/ FailToSubmit(r)
             \/ SaveModel(r) \/ DropSession(r) \/ Abandon(r) \/ CrashRequest(r)
    BY <2>1, <2>10 DEF RemoveUndeployed, Submit, FailToSubmit, SaveModel,
       DropSession, Abandon, CrashRequest
  <2>11. ASSUME NEW op, BeginUse(r, op)
         PROVE  FALSE
    BY <2>3, <2>11 DEF BeginUse
  <2>12. QED
    BY <1>4, <2>4, <2>5, <2>6, <2>7, <2>8, <2>9, <2>10, <2>11
       DEF RequestStep, ClientCall
<1>6. ASSUME NEW i \in Tasks,
             Cast(i) \/ EngineStep(i) \/ ResultStep(i) \/ HandleReport(i) \/ Lose(i)
      PROVE  UNCHANGED requests
  BY <1>6 DEF Cast, EngineStep, Start, Move, Complete, FailEarly, FailTrust,
     Answer, FailWithoutModel, ResultStep, LoadResult, StoreResult, FinishTask,
     CloseSession, HandleReport, Lose
<1>7. QED
  BY <1>1, <1>2, <1>3, <1>4, <1>6 DEF Next, vars

LEMMA DeploymentStep ==
    ASSUME SerialInv, ~Interleaved, [Next]_vars
    PROVE  SubmitsAlone' /\ OneDeployment'
<1> USE DEF SerialInv
<1>1. CASE \A r \in Requests : ~Submit(r)
  <2>1. InState("deploying")' \subseteq InState("deploying")
    BY <1>1, DeployingStep
  <2>2. OneDeployment'
    BY <2>1 DEF OneDeployment
  <2>3. ASSUME NEW r \in Requests, requests'[r].pc = "submitting"
        PROVE  InState("deploying")' = {}
    BY <2>1, <2>3, SubmittingStep DEF SubmitsAlone
  <2>4. QED
    BY <2>2, <2>3 DEF SubmitsAlone
<1>2. ASSUME NEW r \in Requests, Submit(r)
      PROVE  SubmitsAlone' /\ OneDeployment'
  <2>1. InState("deploying") = {} /\ requests[r].pc = "submitting"
    BY <1>2 DEF SubmitsAlone, Submit
  <2>2. InState("deploying")' \subseteq {requests[r].session}
    BY <1>2, <2>1 DEF Submit, InState, TypeOK
  <2>3. \A q \in Requests : requests'[q].pc = "idle"
    <3>1. \A q \in Requests \ {r} : requests'[q].pc = "idle"
      BY <1>2, <2>1, OthersUnchanged DEF RequestStep, HandlersExclude
    <3>2. requests'[r].pc = "idle"
      BY <1>2 DEF Submit, Finish, TypeOK, IdleRequest
    <3>3. QED
      BY <3>1, <3>2
  <2>4. QED
    BY <2>2, <2>3 DEF SubmitsAlone, OneDeployment
<1>3. QED
  BY <1>1, <1>2

\* A task is loaded from LoadResult on, with the version read there.
LEMMA LoadedStep ==
    ASSUME TypeOK, NEW i \in Tasks, NEW j \in Tasks,
           Cast(i) \/ EngineStep(i) \/ ResultStep(i) \/ HandleReport(i) \/ Lose(i),
           tasks'[j].stage = "loaded"
    PROVE  \/ tasks[j].stage = "loaded" /\ tasks'[j].version = tasks[j].version
           \/ tasks'[j].version = env.version
<1> USE DEF TypeOK
<1>1. CASE LoadResult(i)
  <2>1. CASE j # i
    BY <1>1, <2>1 DEF LoadResult
  <2>2. CASE j = i
    BY <1>1, <2>2 DEF LoadResult, TaskRecords
  <2>3. QED
    BY <2>1, <2>2
<1>2. CASE FinishTask(i)
  BY <1>2 DEF FinishTask, TaskRecords
<1>3. CASE HandleReport(i)
  BY <1>3 DEF HandleReport, TaskRecords
<1>4. ASSUME NEW desc, NEW exception, NEW reports, NEW model,
             Answer(i, desc, exception, reports, model)
      PROVE  tasks[j].stage = "loaded" /\ tasks'[j].version = tasks[j].version
  BY <1>4 DEF Answer, TaskRecords
<1>5. ASSUME NEW stage \in Stages \ {"loaded"},
             tasks' = [tasks EXCEPT ![i].stage = stage]
      PROVE  tasks[j].stage = "loaded" /\ tasks'[j].version = tasks[j].version
  BY <1>5 DEF TaskRecords
<1>6. CASE \/ Cast(i) \/ Start(i) \/ FailWithoutModel(i) \/ Lose(i)
           \/ StoreResult(i) \/ CloseSession(i)
  BY <1>5, <1>6 DEF Cast, Start, Move, FailWithoutModel, Lose, StoreResult,
     CloseSession, Stages
<1>7. QED
  BY <1>1, <1>2, <1>3, <1>4, <1>6 DEF EngineStep, ResultStep, Complete,
     FailEarly, FailTrust

\* The version of the environment changes only by StoreResult, to the one
\* after the version its handler has read.
LEMMA VersionStep ==
    ASSUME SerialInv, ~Interleaved, [Next]_vars
    PROVE  VersionsFresh' /\ env.version <= env'.version
<1> USE DEF SerialInv
<1>1. \/ env'.version = env.version
      \/ \E i \in Tasks : StoreResult(i)
  <2>1. CASE UNCHANGED env \/ RemoveEnvironment
    BY <2>1 DEF RemoveEnvironment, TypeOK
  <2>2. ASSUME NEW r \in Requests,
               RequestStep(r) \/ ClientCall(r) \/ CrashRequest(r)
        PROVE  UNCHANGED env \/ RemoveEnvironment
    BY <2>2 DEF RequestStep, ClientCall, CrashRequest, BeginOpen,
       ReadEnvironment, CreateSession, MarkDeleted, BeginUse, ReadSession,
       CheckVersion, CheckSessions, RemoveUndeployed, Submit, FailToSubmit,
       ReadModel, SaveModel, BeginDrop, DropSession, Abandon, database
  <2>3. ASSUME NEW i \in Tasks, ~StoreResult(i),
               Cast(i) \/ EngineStep(i) \/ ResultStep(i) \/ HandleReport(i)
                 \/ Lose(i)
        PROVE  UNCHANGED env \/ RemoveEnvironment
    BY <2>3 DEF Cast, EngineStep, Start, Move, Complete, FailEarly, FailTrust,
       Answer, FailWithoutModel, ResultStep, LoadResult, FinishTask,
       CloseSession, HandleReport, Lose, database
  <2>4. QED
    BY <2>1, <2>2, <2>3 DEF Next, vars
<1>2. ASSUME NEW i \in Tasks, StoreResult(i)
      PROVE  VersionsFresh' /\ env.version <= env'.version
  <2>1. tasks[i].stage = "loaded" /\ tasks[i].version = env.version
    BY <1>2 DEF StoreResult, VersionsFresh
  <2>2. env'.version \in {env.version, env.version + 1}
    BY <1>2, <2>1 DEF StoreResult, NextVersion, TypeOK
  <2>3. \A j \in Tasks : tasks'[j].stage # "loaded"
    <3>1. tasks'[i].stage # "loaded"
      BY <1>2 DEF StoreResult, TypeOK, TaskRecords
    <3>2. \A j \in Tasks \ {i} : tasks'[j] = tasks[j]
      BY <1>2 DEF StoreResult, TypeOK
    <3>3. \A j \in Tasks \ {i} : tasks[j].stage # "loaded"
      BY <2>1 DEF HandlersExclude, Handling
    <3>4. QED
      BY <3>1, <3>2, <3>3
  <2>4. QED
    BY <2>2, <2>3 DEF VersionsFresh, TypeOK
<1>3. ASSUME env'.version = env.version, NEW j \in Tasks,
             tasks'[j].stage = "loaded"
      PROVE  tasks'[j].version = env.version
  <2>1. CASE UNCHANGED tasks
    BY <1>3, <2>1 DEF VersionsFresh
  <2>2. ASSUME NEW r \in Requests,
               RequestStep(r) \/ ClientCall(r) \/ CrashRequest(r)
        PROVE  tasks'[j].version = env.version
    <3>1. tasks'[j] = tasks[j]
      BY <1>3, <2>2, HandlingStep DEF Handling
    <3>2. QED
      BY <1>3, <3>1 DEF VersionsFresh
  <2>3. ASSUME NEW i \in Tasks,
               Cast(i) \/ EngineStep(i) \/ ResultStep(i) \/ HandleReport(i)
                 \/ Lose(i)
        PROVE  tasks'[j].version = env.version
    BY <1>3, <2>3, LoadedStep DEF VersionsFresh
  <2>4. QED
    BY <2>1, <2>2, <2>3 DEF Next, vars
<1>4. QED
  BY <1>1, <1>2, <1>3 DEF VersionsFresh, TypeOK


LEMMA SerialInvariant ==
    ASSUME ~Interleaved
    PROVE  Spec => []SerialInv
<1>1. Init => SerialInv
  BY TypeInit DEF Init, SerialInv, LocalsAgree, HandlersExclude, SubmitsAlone,
     OneDeployment, VersionsFresh, IdleRequest, NoTask, NoRow, InState, Handling
<1>2. SerialInv /\ [Next]_vars => SerialInv'
  BY TypeStep, LocalsStep, ExclusionStep, DeploymentStep, VersionStep
     DEF SerialInv
<1>3. QED
  BY <1>1, <1>2, PTL DEF Spec

\* When each handler runs to completion, update_task never leaves a second
\* session deploying: validate keeps the promise of the documentation.
THEOREM OneDeploymentAtATime ==
    ASSUME ~Interleaved
    PROVE  Spec => []OneDeployment
<1>1. SerialInv => OneDeployment
  BY DEF SerialInv
<1>2. QED
  BY <1>1, SerialInvariant, PTL

\* Then, too, process_result never stores a version older than the one the
\* environment has, whatever is lost and whoever deletes or abandons it.
THEOREM VersionMonotone ==
    ASSUME ~Interleaved
    PROVE  Spec => [][env.version <= env'.version]_vars
<1>1. SerialInv /\ [Next]_vars => [env.version <= env'.version]_vars
  BY VersionStep
<1>2. QED
  BY <1>1, SerialInvariant, PTL DEF Spec


-----------------------------------------------------------------------------
(* What one step does to a row, to the environment and to a task.          *)

GoneRow == [NoRow EXCEPT !.state = "gone"]
ClosedStates == {"deployed", "deploy failure", "delete failure"}

\* The row of s, and what wrote it.
LEMMA RowStep ==
    ASSUME TypeOK, [Next]_vars, NEW s \in Sessions
    PROVE  \/ sessions'[s] = sessions[s]
           \/ /\ sessions[s].state = "unborn"
              /\ \E r \in Requests : CreateSession(r) /\ sessions'[s] = requests[r].seen
           \/ /\ \E r \in Requests : MarkDeleted(r) /\ s = requests[r].session
              /\ sessions'[s] = [sessions[s] EXCEPT !.desc =
                     [CurrentDescription(s) EXCEPT !.deleted = TRUE, !.apps = {}]]
           \/ /\ \E r \in Requests : SaveModel(r) /\ s = requests[r].session
              /\ sessions'[s].state = sessions[s].state
              /\ sessions'[s].version = sessions[s].version
              /\ sessions'[s].desc.copy = sessions[s].desc.copy
              /\ ~sessions'[s].desc.deleted
           \/ \E r \in Requests :
                 /\ Submit(r) /\ s = requests[r].session
                 /\ sessions'[s] = [sessions[s] EXCEPT !.state =
                        IF requests[r].seen.desc.deleted THEN "deleting" ELSE "deploying"]
           \/ \E i \in Tasks :
                 /\ CloseSession(i)
                 /\ sessions[s].state = UnderWay(tasks[i].desc.deleted)
                 /\ \E outcome \in ClosedStates :
                       sessions'[s] = [sessions[s] EXCEPT !.state = outcome]
           \/ /\ sessions'[s] = GoneRow
              /\ \/ RemoveEnvironment
                 \/ \E r \in Requests : DropSession(r) /\ s = requests[r].session
<1> DEFINE Goal ==
           \/ sessions'[s] = sessions[s]
           \/ /\ sessions[s].state = "unborn"
              /\ \E r \in Requests : CreateSession(r) /\ sessions'[s] = requests[r].seen
           \/ /\ \E r \in Requests : MarkDeleted(r) /\ s = requests[r].session
              /\ sessions'[s] = [sessions[s] EXCEPT !.desc =
                     [CurrentDescription(s) EXCEPT !.deleted = TRUE, !.apps = {}]]
           \/ /\ \E r \in Requests : SaveModel(r) /\ s = requests[r].session
              /\ sessions'[s].state = sessions[s].state
              /\ sessions'[s].version = sessions[s].version
              /\ sessions'[s].desc.copy = sessions[s].desc.copy
              /\ ~sessions'[s].desc.deleted
           \/ \E r \in Requests :
                 /\ Submit(r) /\ s = requests[r].session
                 /\ sessions'[s] = [sessions[s] EXCEPT !.state =
                        IF requests[r].seen.desc.deleted THEN "deleting" ELSE "deploying"]
           \/ \E i \in Tasks :
                 /\ CloseSession(i)
                 /\ sessions[s].state = UnderWay(tasks[i].desc.deleted)
                 /\ \E outcome \in ClosedStates :
                       sessions'[s] = [sessions[s] EXCEPT !.state = outcome]
           \/ /\ sessions'[s] = GoneRow
              /\ \/ RemoveEnvironment
                 \/ \E r \in Requests : DropSession(r) /\ s = requests[r].session
<1>0. SUFFICES Goal
  OBVIOUS
<1>1. CASE UNCHANGED sessions
  BY <1>1
<1>2. CASE RemoveEnvironment
  BY <1>2 DEF RemoveEnvironment, GoneRow
<1>3. ASSUME NEW r \in Requests,
             RequestStep(r) \/ ClientCall(r) \/ CrashRequest(r)
      PROVE  Goal
  <2> DEFINE t == requests[r].session
  <2>1. CASE CreateSession(r)
    <3>1. ASSUME NEW u \in Unborn,
                 sessions' = [sessions EXCEPT ![u] = requests[r].seen]
          PROVE  Goal
      <4>1. CASE u = s
        <5>1. sessions'[s] = requests[r].seen /\ sessions[s].state = "unborn"
          BY <3>1, <4>1 DEF Unborn, TypeOK
        <5>2. QED
          BY <2>1, <5>1
      <4>2. CASE u # s
        <5>1. sessions'[s] = sessions[s]
          BY <3>1, <4>2 DEF TypeOK
        <5>2. QED
          BY <5>1
      <4>3. QED
        BY <4>1, <4>2
    <3>2. QED
      BY <1>1, <2>1, <3>1 DEF CreateSession, database
  <2>2. CASE MarkDeleted(r)
    <3>1. CASE t = s /\ s \in Rows
      <4>1. sessions'[s] = [sessions[s] EXCEPT !.desc =
                     [CurrentDescription(s) EXCEPT !.deleted = TRUE, !.apps = {}]]
        BY <2>2, <3>1 DEF MarkDeleted, TypeOK
      <4>2. QED
        BY <2>2, <3>1, <4>1
    <3>2. CASE ~(t = s /\ s \in Rows)
      <4>1. sessions'[s] = sessions[s]
        BY <2>2, <3>2 DEF MarkDeleted, TypeOK, Rows
      <4>2. QED
        BY <4>1
    <3>3. QED
      BY <3>1, <3>2
  <2>3. CASE SaveModel(r)
    <3>1. ASSUME t \in Rows, NEW apps,
                 sessions' = [sessions EXCEPT ![t] = SavedRow(r, apps)]
          PROVE  Goal
      <4>1. CASE t = s
        <5>1. sessions'[s] = SavedRow(r, apps) /\ sessions[s] \in SessionRows
          BY <3>1, <4>1 DEF TypeOK
        <5>2. /\ sessions'[s].state = sessions[s].state
              /\ sessions'[s].version = sessions[s].version
              /\ sessions'[s].desc.copy = sessions[s].desc.copy
              /\ ~sessions'[s].desc.deleted
          <6> DEFINE desc == [sessions[s].desc EXCEPT !.deleted = FALSE,
                                                      !.apps = apps]
          <6>1. sessions[s].desc \in Descriptions
            BY <5>1 DEF SessionRows
          <6>2. desc.copy = sessions[s].desc.copy /\ ~desc.deleted
            BY <6>1 DEF Descriptions
          <6>3. sessions'[s] = [sessions[s] EXCEPT !.desc = desc]
            BY <4>1, <5>1, <6>1 DEF SavedRow, SessionRows, Descriptions
          <6>4. QED
            BY <5>1, <6>2, <6>3 DEF SessionRows
        <5>3. QED
          BY <2>3, <4>1, <5>2
      <4>2. CASE t # s
        <5>1. sessions'[s] = sessions[s]
          BY <3>1, <4>2 DEF TypeOK
        <5>2. QED
          BY <5>1
      <4>3. QED
        BY <4>1, <4>2
    <3>2. QED
      BY <1>1, <2>3, <3>1 DEF SaveModel
  <2>4. CASE DropSession(r)
    <3>1. CASE t = s
      <4>1. sessions'[s] = GoneRow
        BY <2>4, <3>1 DEF DropSession, TypeOK, GoneRow
      <4>2. QED
        BY <2>4, <3>1, <4>1
    <3>2. CASE t # s
      <4>1. sessions'[s] = sessions[s]
        BY <2>4, <3>2 DEF DropSession, TypeOK
      <4>2. QED
        BY <4>1
    <3>3. QED
      BY <3>1, <3>2
  <2>5. CASE Submit(r)
    <3>1. CASE t = s
      <4>1. sessions'[s] = [sessions[s] EXCEPT !.state =
                IF requests[r].seen.desc.deleted THEN "deleting" ELSE "deploying"]
        BY <2>5, <3>1 DEF Submit, TypeOK
      <4>2. QED
        BY <2>5, <3>1, <4>1
    <3>2. CASE t # s
      <4>1. sessions'[s] = sessions[s]
        BY <2>5, <3>2 DEF Submit, TypeOK
      <4>2. QED
        BY <4>1
    <3>3. QED
      BY <3>1, <3>2
  <2>6. CASE UNCHANGED sessions \/ RemoveEnvironment
    BY <1>1, <1>2, <2>6
  <2> HIDE DEF Goal
  <2>7. QED
    BY <1>3, <2>1, <2>2, <2>3, <2>4, <2>5, <2>6 DEF RequestStep, ClientCall,
       CrashRequest, BeginOpen, ReadEnvironment, BeginUse, ReadSession,
       CheckVersion, CheckSessions, RemoveUndeployed, FailToSubmit, ReadModel,
       BeginDrop, Abandon, database
<1>4. ASSUME NEW i \in Tasks,
             Cast(i) \/ EngineStep(i) \/ ResultStep(i) \/ HandleReport(i) \/ Lose(i)
      PROVE  Goal
  <2>1. CASE CloseSession(i)
    <3>1. ASSUME NEW u \in InState(UnderWay(tasks[i].desc.deleted)),
                 NEW outcome \in ClosedStates,
                 sessions' = [sessions EXCEPT ![u].state = outcome]
          PROVE  Goal
      <4>1. CASE u = s
        <5>1. /\ sessions'[s] = [sessions[s] EXCEPT !.state = outcome]
              /\ sessions[s].state = UnderWay(tasks[i].desc.deleted)
          BY <3>1, <4>1 DEF TypeOK, InState
        <5>2. QED
          BY <2>1, <5>1
      <4>2. CASE u # s
        <5>1. sessions'[s] = sessions[s]
          BY <3>1, <4>2 DEF TypeOK
        <5>2. QED
          BY <5>1
      <4>3. QED
        BY <4>1, <4>2
    <3> HIDE DEF Goal
    <3>2. CASE UNCHANGED sessions
      BY <1>1, <3>2
    <3>3. QED
      BY <2>1, <3>1, <3>2 DEF CloseSession, ClosedStates
  <2>2. CASE UNCHANGED sessions \/ RemoveEnvironment
    BY <1>1, <1>2, <2>2
  <2> HIDE DEF Goal
  <2>3. QED
    BY <1>4, <2>1, <2>2 DEF Cast, EngineStep, Start, Move, Complete, FailEarly,
       FailTrust, Answer, FailWithoutModel, ResultStep, LoadResult, StoreResult,
       FinishTask, HandleReport, Lose, database
<1>5. QED
  <2> HIDE DEF Goal
  <2>1. QED
    BY <1>1, <1>3, <1>4 DEF Next, vars

\* The environment is removed, or gets a result, or stays as it is.
LEMMA EnvironmentStep ==
    ASSUME TypeOK, [Next]_vars
    PROVE  \/ UNCHANGED env
           \/ RemoveEnvironment
           \/ \E i \in Tasks : StoreResult(i) /\ env.exists
<1>1. ASSUME NEW r \in Requests,
             RequestStep(r) \/ ClientCall(r) \/ CrashRequest(r)
      PROVE  UNCHANGED env \/ RemoveEnvironment
  BY <1>1 DEF RequestStep, ClientCall, CrashRequest, BeginOpen,
     ReadEnvironment, CreateSession, MarkDeleted, BeginUse, ReadSession,
     CheckVersion, CheckSessions, RemoveUndeployed, Submit, FailToSubmit,
     ReadModel, SaveModel, BeginDrop, DropSession, Abandon, database
<1>2. ASSUME NEW i \in Tasks,
             Cast(i) \/ EngineStep(i) \/ ResultStep(i) \/ HandleReport(i) \/ Lose(i)
      PROVE  \/ UNCHANGED env
             \/ RemoveEnvironment
             \/ StoreResult(i) /\ env.exists
  BY <1>2 DEF Cast, EngineStep, Start, Move, Complete, FailEarly, FailTrust,
     Answer, FailWithoutModel, ResultStep, LoadResult, StoreResult, FinishTask,
     CloseSession, HandleReport, Lose, database
<1>3. QED
  BY <1>1, <1>2 DEF Next, vars

\* What the engine does changes nothing that the handlers work on.
LEMMA EngineApart ==
    ASSUME NEW i \in Tasks, Cast(i) \/ EngineStep(i) \/ HandleReport(i) \/ Lose(i)
    PROVE  UNCHANGED <<env, sessions, newer, known, requests, created>>
  BY DEF Cast, EngineStep, Start, Move, Complete, FailEarly, FailTrust, Answer,
     FailWithoutModel, HandleReport, Lose, database

\* While a request is served only its own steps change the database.
LEMMA SoloRequest ==
    ASSUME TypeOK, HandlersExclude, ~Interleaved, [Next]_vars,
           NEW r \in Requests, requests[r].pc # "idle"
    PROVE  \/ RequestStep(r) \/ CrashRequest(r)
           \/ UNCHANGED <<env, sessions, newer, known, requests, created>>
<1>1. ASSUME NEW q \in Requests,
             RequestStep(q) \/ ClientCall(q) \/ CrashRequest(q)
      PROVE  RequestStep(r) \/ CrashRequest(r)
  <2>1. ~MayStart
    BY DEF MayStart, MidHandler
  <2>2. ~ClientCall(q)
    BY <2>1 DEF ClientCall, BeginOpen, BeginUse, BeginDrop, Abandon
  <2>3. requests[q].pc # "idle"
    BY <1>1, <2>2 DEF RequestStep, CrashRequest, ReadEnvironment, CreateSession,
       MarkDeleted, ReadSession, CheckVersion, CheckSessions, RemoveUndeployed,
       Submit, FailToSubmit, ReadModel, SaveModel, DropSession
  <2>4. q = r
    BY <2>3 DEF HandlersExclude
  <2>5. QED
    BY <1>1, <2>2, <2>4
<1>2. ASSUME NEW i \in Tasks,
             Cast(i) \/ EngineStep(i) \/ ResultStep(i) \/ HandleReport(i) \/ Lose(i)
      PROVE  UNCHANGED <<env, sessions, newer, known, requests, created>>
  <2>1. ~ResultStep(i)
    BY DEF ResultStep, LoadResult, StoreResult, FinishTask, CloseSession,
       MayStart, MidHandler, HandlersExclude, Handling
  <2>2. QED
    BY <1>2, <2>1, EngineApart
<1>3. QED
  BY <1>1, <1>2 DEF Next, vars

\* ... and while a result is handled only the steps of its handler do.
LEMMA SoloResult ==
    ASSUME TypeOK, HandlersExclude, ~Interleaved, [Next]_vars,
           NEW i \in Tasks, tasks[i].stage \in Handling
    PROVE  \/ ResultStep(i)
           \/ /\ UNCHANGED <<env, sessions, newer, known, requests, created>>
              /\ \/ UNCHANGED tasks
                 \/ \E j \in Tasks : Cast(j) \/ EngineStep(j) \/ HandleReport(j) \/ Lose(j)
<1>0. ~MayStart
  BY DEF MayStart, MidHandler
<1>1. ASSUME NEW q \in Requests,
             RequestStep(q) \/ ClientCall(q) \/ CrashRequest(q)
      PROVE  FALSE
  <2>1. requests[q].pc = "idle"
    BY DEF HandlersExclude
  <2>2. QED
    BY <1>0, <1>1, <2>1 DEF RequestStep, ClientCall, CrashRequest, BeginOpen,
       ReadEnvironment, CreateSession, MarkDeleted, BeginUse, ReadSession,
       CheckVersion, CheckSessions, RemoveUndeployed, Submit, FailToSubmit,
       ReadModel, SaveModel, BeginDrop, DropSession, Abandon
<1>2. ASSUME NEW j \in Tasks, ResultStep(j)
      PROVE  j = i
  BY <1>0, <1>2 DEF ResultStep, LoadResult, StoreResult, FinishTask, CloseSession,
     HandlersExclude, Handling
<1>3. QED
  BY <1>1, <1>2, EngineApart DEF Next, vars

-----------------------------------------------------------------------------
\* A session once submitted is never open again, whatever a handler that read
\* it before writes to it: in either mode, since save_environment_description
\* writes the description only and a row is inserted once.
THEOREM SubmittedForGood == Spec => NeverReopened
<1>1. ASSUME TypeOK, [Next]_vars, NEW s \in Sessions,
             sessions[s].state \notin {"unborn", "opened"}
      PROVE  sessions'[s].state # "opened"
  <2>1. sessions[s] \in SessionRows
    BY <1>1 DEF TypeOK
  <2>2. GoneRow.state # "opened" /\ "opened" \notin ClosedStates
    BY DEF GoneRow, NoRow, ClosedStates
  <2>3. QED
    BY <1>1, <2>1, <2>2, RowStep DEF SessionRows
<1>2. TypeOK /\ [Next]_vars =>
          [\A s \in Sessions : sessions[s].state \notin {"unborn", "opened"}
                               => sessions'[s].state # "opened"]_vars
  BY <1>1
<1>3. QED
  BY <1>2, TypeCorrect, PTL DEF Spec, NeverReopened

-----------------------------------------------------------------------------
(* Tasks *)

TaskAction(i) == Cast(i) \/ EngineStep(i) \/ ResultStep(i) \/ HandleReport(i) \/ Lose(i)

\* What the steps of task i leave as it is in task j.
TaskKept(i, j) ==
    /\ tasks'[j].session = tasks[j].session
    /\ tasks'[j].desc.apps = tasks[j].desc.apps
    /\ tasks'[j].desc.deleted = tasks[j].desc.deleted
    /\ j # i => /\ tasks'[j].stage = tasks[j].stage
                /\ tasks'[j].desc = tasks[j].desc
                /\ tasks'[j].model = tasks[j].model
    /\ j # i /\ j # created => tasks'[j] = tasks[j]
    /\ \/ tasks'[j].finished = tasks[j].finished
       \/ /\ FinishTask(i) /\ env.exists /\ j = created
          /\ tasks'[i].stage = "closing"

\* The stages a task goes through.
StageMoves(i) ==
    LET old == tasks[i].stage
        new == tasks'[i].stage
    IN  \/ old # "none" /\ new = "lost" /\ old # "done"
        \/ /\ <<old, new>> \in {<<"saved", "queued">>, <<"queued", "running">>,
                                <<"running", "result">>}
        \/ /\ LoadResult(i)
           /\ old = "result" /\ new \in {"loaded", "done"}
           /\ new = "loaded" => UNCHANGED env
        \/ /\ StoreResult(i)
           /\ old = "loaded" /\ new = IF env.exists THEN "stored" ELSE "done"
        \/ /\ FinishTask(i)
           /\ old = "stored" /\ new = IF env.exists THEN "closing" ELSE "done"
        \/ /\ CloseSession(i)
           /\ old = "closing" /\ new = "done"
        \/ HandleReport(i) /\ new = old /\ tasks[i].report = "sent"

LEMMA TaskStep ==
    ASSUME TypeOK, NEW i \in Tasks, TaskAction(i), NEW j \in Tasks
    PROVE  TaskKept(i, j) /\ StageMoves(i)
<1>t. tasks[i] \in TaskRecords /\ tasks[j] \in TaskRecords
  BY DEF TypeOK
<1>1. ASSUME NEW stage, tasks' = [tasks EXCEPT ![i].stage = stage]
      PROVE  TaskKept(i, j) /\ tasks'[i].stage = stage
  <2>1. tasks'[i] = [tasks[i] EXCEPT !.stage = stage]
    BY <1>1 DEF TypeOK
  <2>2. tasks'[i].stage = stage
    BY <1>t, <2>1 DEF TaskRecords
  <2>3. CASE j = i
    BY <1>t, <2>1, <2>3 DEF TaskKept, TaskRecords
  <2>4. CASE j # i
    <3>1. tasks'[j] = tasks[j]
      BY <1>1, <2>4 DEF TypeOK
    <3>2. QED
      BY <2>2, <2>4, <3>1 DEF TaskKept
  <2>5. QED
    BY <2>2, <2>3, <2>4
<1>2. CASE Cast(i) \/ Start(i)
  BY <1>1, <1>2 DEF Cast, Start, Move, StageMoves
<1>3. CASE FailWithoutModel(i) \/ Lose(i)
  <2>1. tasks' = [tasks EXCEPT ![i].stage = "lost"] /\ tasks[i].stage \notin {"none", "done"}
    BY <1>3 DEF FailWithoutModel, Lose, Handling
  <2>2. QED
    BY <1>1, <2>1 DEF StageMoves
<1>4. ASSUME NEW desc, NEW exception, NEW reports, NEW model,
             Answer(i, desc, exception, reports, model),
             desc.apps = tasks[i].desc.apps, desc.deleted = tasks[i].desc.deleted
      PROVE  TaskKept(i, j) /\ StageMoves(i)
  <2> DEFINE report == IF reports THEN "sent" ELSE "none"
  <2>1. tasks'[i] = [tasks[i] EXCEPT !.stage = "result", !.desc = desc,
                        !.model = model, !.exception = exception,
                        !.report = report]
    BY <1>4 DEF Answer, TypeOK
  <2> HIDE DEF report
  <2>2. tasks'[i].stage = "result" /\ tasks[i].stage = "running"
    <3>1. tasks'[i].stage = "result"
      BY <1>t, <2>1 DEF TaskRecords
    <3>2. QED
      BY <1>4, <3>1 DEF Answer
  <2>3. CASE j = i
    BY <1>4, <1>t, <2>1, <2>2, <2>3 DEF TaskKept, StageMoves, TaskRecords
  <2>4. CASE j # i
    <3>1. tasks'[j] = tasks[j]
      BY <1>4, <2>4 DEF Answer, TypeOK
    <3>2. QED
      BY <2>2, <2>4, <3>1 DEF TaskKept, StageMoves
  <2>5. QED
    BY <2>3, <2>4
<1>5. CASE Complete(i)
  <2> DEFINE desc == [tasks[i].desc EXCEPT !.copy =
                         IF tasks[i].desc.deleted THEN "none" ELSE "present"]
  <2>1. desc.apps = tasks[i].desc.apps /\ desc.deleted = tasks[i].desc.deleted
    BY <1>t DEF TaskRecords, Descriptions
  <2>2. PICK exception \in BOOLEAN, reports \in BOOLEAN :
            Answer(i, desc, exception, reports, TRUE)
    BY <1>5 DEF Complete
  <2> HIDE DEF desc
  <2>3. QED
    BY <1>4, <2>1, <2>2
<1>6. CASE FailEarly(i) \/ FailTrust(i)
  BY <1>4, <1>6 DEF FailEarly, FailTrust
<1>7. CASE LoadResult(i)
  <2>1. PICK stage \in {"loaded", "done"}, version \in {0, env.version} :
            /\ tasks' = [tasks EXCEPT ![i].stage = stage, ![i].version = version]
            /\ stage = "loaded" => UNCHANGED env
    BY <1>7 DEF LoadResult, database
  <2>2. tasks'[i] = [tasks[i] EXCEPT !.stage = stage, !.version = version]
    BY <2>1 DEF TypeOK
  <2>3. tasks'[i].stage = stage /\ tasks[i].stage = "result"
    <3>1. tasks'[i].stage = stage
      BY <1>t, <2>2 DEF TaskRecords
    <3>2. QED
      BY <1>7, <3>1 DEF LoadResult
  <2>4. TaskKept(i, j)
    <3>1. CASE j = i
      BY <1>t, <2>2, <3>1 DEF TaskKept, TaskRecords
    <3>2. CASE j # i
      <4>1. tasks'[j] = tasks[j]
        BY <2>1, <3>2 DEF TypeOK
      <4>2. QED
        BY <3>2, <4>1 DEF TaskKept
    <3>3. QED
      BY <3>1, <3>2
  <2>5. QED
    BY <1>7, <2>1, <2>3, <2>4 DEF StageMoves
<1>8. CASE StoreResult(i) \/ CloseSession(i)
  BY <1>1, <1>8 DEF StoreResult, CloseSession, StageMoves
<1>9. CASE FinishTask(i)
  <2>1. CASE ~env.exists
    BY <1>1, <1>9, <2>1 DEF FinishTask, StageMoves
  <2>2. CASE env.exists
    <3> DEFINE finished == [tasks EXCEPT ![created].finished = TRUE]
               failed == tasks[i].exception \/ tasks[created].errors
    <3>1. /\ finished \in [Tasks -> TaskRecords]
          /\ tasks' = [finished EXCEPT ![i].stage = "closing", ![i].failed = failed]
      BY <1>9, <2>2, RowUpdateType DEF FinishTask
    <3>2. ASSUME NEW k \in Tasks
          PROVE  /\ finished[k].session = tasks[k].session
                 /\ finished[k].desc = tasks[k].desc
                 /\ finished[k].stage = tasks[k].stage
                 /\ finished[k].model = tasks[k].model
                 /\ k # created => finished[k] = tasks[k]
      BY DEF TypeOK, TaskRecords
    <3> HIDE DEF finished, failed
    <3>3. tasks'[i] = [finished[i] EXCEPT !.stage = "closing", !.failed = failed]
      BY <3>1
    <3>4. /\ tasks'[i].stage = "closing" /\ tasks'[i].session = finished[i].session
          /\ tasks'[i].desc = finished[i].desc /\ tasks'[i].finished = finished[i].finished
      BY <3>1, <3>3 DEF TaskRecords
    <3>5. tasks[i].stage = "stored"
      BY <1>9 DEF FinishTask
    <3>6. CASE j = i
      <4>1. j # created => tasks'[j].finished = tasks[j].finished
        BY <3>2, <3>4, <3>6
      <4>2. QED
        BY <1>9, <2>2, <3>2, <3>4, <3>5, <3>6, <4>1 DEF TaskKept, StageMoves
    <3>7. CASE j # i
      <4>1. tasks'[j] = finished[j]
        BY <3>1, <3>7
      <4>2. QED
        BY <1>9, <2>2, <3>2, <3>4, <3>5, <3>7, <4>1 DEF TaskKept, StageMoves
    <3>8. QED
      BY <3>6, <3>7
  <2>3. QED
    BY <2>1, <2>2
<1>10. CASE HandleReport(i)
  <2>1. ASSUME NEW f \in [Tasks -> TaskRecords],
               \A k \in Tasks : /\ f[k].session = tasks[k].session
                                /\ f[k].desc = tasks[k].desc
                                /\ f[k].stage = tasks[k].stage
                                /\ f[k].model = tasks[k].model
                                /\ f[k].finished = tasks[k].finished
                                /\ k # created => f[k] = tasks[k],
               tasks' = [f EXCEPT ![i].report = "handled"]
        PROVE  TaskKept(i, j) /\ tasks'[i].stage = tasks[i].stage
    <3>1. tasks'[i] = [f[i] EXCEPT !.report = "handled"] /\ f[i] \in TaskRecords
      BY <2>1
    <3>2. /\ tasks'[i].session = f[i].session /\ tasks'[i].desc = f[i].desc
          /\ tasks'[i].stage = f[i].stage /\ tasks'[i].finished = f[i].finished
      BY <3>1 DEF TaskRecords
    <3>3. j # i => tasks'[j] = f[j]
      BY <2>1
    <3>4. QED
      BY <2>1, <3>2, <3>3 DEF TaskKept
  <2> DEFINE reported == [tasks EXCEPT ![created].errors = TRUE]
  <2>2. /\ reported \in [Tasks -> TaskRecords]
        /\ \A k \in Tasks : /\ reported[k].session = tasks[k].session
                            /\ reported[k].desc = tasks[k].desc
                            /\ reported[k].stage = tasks[k].stage
                            /\ reported[k].model = tasks[k].model
                            /\ reported[k].finished = tasks[k].finished
                            /\ k # created => reported[k] = tasks[k]
    BY RowUpdateType DEF TypeOK, TaskRecords
  <2>3. CASE tasks' = [tasks EXCEPT ![i].report = "handled"]
    <3>1. TaskKept(i, j) /\ tasks'[i].stage = tasks[i].stage
      BY <2>1, <2>3 DEF TypeOK
    <3>2. QED
      BY <1>10, <3>1 DEF StageMoves, HandleReport
  <2>4. CASE tasks' = [reported EXCEPT ![i].report = "handled"]
    <3> HIDE DEF reported
    <3>1. TaskKept(i, j) /\ tasks'[i].stage = tasks[i].stage
      BY <2>1, <2>2, <2>4
    <3>2. QED
      BY <1>10, <3>1 DEF StageMoves, HandleReport
  <2>5. QED
    BY <1>10, <2>3, <2>4 DEF HandleReport
<1>11. QED
  BY <1>2, <1>3, <1>5, <1>6, <1>7, <1>8, <1>9, <1>10
     DEF TaskAction, EngineStep, ResultStep

-----------------------------------------------------------------------------
(* What handlers and tasks know of the sessions, when handlers exclude each *)
(* other.  DeployedOnce is not inductive: it needs that the session of a    *)
(* submitted task is not open any more (TasksInOrder) while the session     *)
(* about to be submitted still is, which a handler has seen in a row that   *)
(* nobody changed since (LocalsFresh).                                      *)

\* The sessions whose deployment or deletion goes on, and those whose ended.
Active == InState("deploying") \cup InState("deleting")
Closed == {s \in Sessions : sessions[s].state \in ClosedStates}

\* What a handler has read is still what the database holds.
FreshRequest(r) ==
    LET q == requests[r] IN
    /\ q.pc = "creating" => /\ q.seen.version = env.version
                            /\ q.seen.desc = env.desc
    /\ q.pc \in {"marking", "reading"} => q.session \in InState("opened")
    /\ q.pc \in {"checking", "counting", "submitting"}
       => q.session \in Rows /\ q.seen = sessions[q.session]
    /\ q.pc \in {"counting", "submitting"} => env.version <= q.seen.version
    /\ q.pc = "submitting" => q.seen.state = "opened"
    /\ q.pc \in {"editing", "saving", "dropping"}
       => q.session \notin InState("deploying")

LocalsFresh == \A r \in Requests : FreshRequest(r)

\* No session is of a later version than the environment, and none is left
\* when the environment is gone.
RowsBounded ==
    /\ \A s \in Sessions : sessions[s].version <= env.version
    /\ ~env.exists => Rows = {}

\* Tasks are submitted in order, each for a session that is not open any more.
TaskInOrder(i) ==
    /\ i <= created => /\ tasks[i].stage # "none"
                       /\ tasks[i].session \in Sessions
                       /\ sessions[tasks[i].session].state
                              \notin {"unborn", "opened"}
    /\ i > created => tasks[i] = NoTask

TasksInOrder == \A i \in Tasks : TaskInOrder(i)

SubmitInv ==
    /\ SerialInv
    /\ LocalsFresh
    /\ RowsBounded
    /\ TasksInOrder
    /\ DeployedOnce

LEMMA NextCases ==
    ASSUME [Next]_vars
    PROVE  \/ UNCHANGED vars
           \/ \E r \in Requests : RequestStep(r) \/ ClientCall(r) \/ CrashRequest(r)
           \/ \E i \in Tasks : TaskAction(i)
  BY DEF Next, TaskAction

\* A request changes no task but the one it submits.
LEMMA RequestTasks ==
    ASSUME NEW r \in Requests, RequestStep(r) \/ ClientCall(r) \/ CrashRequest(r)
    PROVE  Submit(r) \/ UNCHANGED <<tasks, created>>
  BY DEF RequestStep, ClientCall, CrashRequest, BeginOpen, ReadEnvironment,
     CreateSession, MarkDeleted, BeginUse, ReadSession, CheckVersion,
     CheckSessions, RemoveUndeployed, FailToSubmit, ReadModel, SaveModel,
     BeginDrop, DropSession, Abandon

LEMMA TaskActionApart ==
    ASSUME NEW i \in Tasks, TaskAction(i)
    PROVE  UNCHANGED <<requests, known, created>>
  BY DEF TaskAction, Cast, EngineStep, Start, Move, Complete, FailEarly,
     FailTrust, Answer, FailWithoutModel, ResultStep, LoadResult, StoreResult,
     FinishTask, CloseSession, HandleReport, Lose

LEMMA FinishIdle ==
    ASSUME TypeOK, NEW r \in Requests, Finish(r)
    PROVE  requests'[r] = IdleRequest /\ IdleRequest.pc = "idle"
  BY DEF TypeOK, Finish, IdleRequest

LEMMA GotoFields ==
    ASSUME TypeOK, NEW r \in Requests, NEW pc, Goto(r, pc)
    PROVE  /\ requests'[r].pc = pc
           /\ requests'[r].op = requests[r].op
           /\ requests'[r].session = requests[r].session
           /\ requests'[r].seen = requests[r].seen
<1>1. requests'[r] = [requests[r] EXCEPT !.pc = pc] /\ requests[r] \in RequestRecords
  BY DEF TypeOK, Goto
<1>2. QED
  BY <1>1 DEF RequestRecords

LEMMA LoadFields ==
    ASSUME TypeOK, NEW r \in Requests, NEW op, NEW s, Load(r, op, s)
    PROVE  /\ requests'[r].pc = "checking"
           /\ requests'[r].op = op
           /\ requests'[r].session = s
           /\ requests'[r].seen = sessions[s]
  BY DEF TypeOK, Load

\* The request that has inserted a row goes on with it.
LEMMA CreateFields ==
    ASSUME TypeOK, NEW r \in Requests, CreateSession(r), requests'[r].pc # "idle"
    PROVE  /\ env.exists /\ UNCHANGED env /\ UNCHANGED known
           /\ requests[r].op # "configure"
           /\ \E s \in Unborn :
                 /\ sessions' = [sessions EXCEPT ![s] = requests[r].seen]
                 /\ requests'[r].session = s
           /\ requests'[r].seen = requests[r].seen
           /\ requests'[r].op = requests[r].op
           /\ requests'[r].pc = IF requests[r].op = "delete" THEN "marking" ELSE "checking"
<1>1. ~Finish(r)
  BY FinishIdle
<1>2. PICK s \in Unborn :
          /\ sessions' = [sessions EXCEPT ![s] = requests[r].seen]
          /\ requests[r].op # "configure"
          /\ requests' = [requests EXCEPT
                 ![r].session = s,
                 ![r].pc = IF requests[r].op = "delete" THEN "marking" ELSE "checking"]
          /\ UNCHANGED known
  BY <1>1 DEF CreateSession
<1>3. env.exists /\ UNCHANGED env
  BY <1>1 DEF CreateSession
<1> DEFINE pc == IF requests[r].op = "delete" THEN "marking" ELSE "checking"
<1>4. /\ requests'[r] = [requests[r] EXCEPT !.session = s, !.pc = pc]
      /\ requests[r] \in RequestRecords
  BY <1>2 DEF TypeOK
<1> HIDE DEF pc
<1>5. /\ requests'[r].session = s /\ requests'[r].pc = pc
      /\ requests'[r].seen = requests[r].seen /\ requests'[r].op = requests[r].op
  BY <1>4 DEF RequestRecords
<1>6. QED
  BY <1>2, <1>3, <1>5 DEF pc

LEMMA FreshStep ==
    ASSUME SubmitInv, ~Interleaved, [Next]_vars, NEW r \in Requests
    PROVE  FreshRequest(r)'
<1> USE DEF SubmitInv, SerialInv
<1>1. CASE requests'[r].pc = "idle"
  BY <1>1 DEF FreshRequest
<1>2. ASSUME UNCHANGED <<env, sessions>>, requests'[r] = requests[r]
      PROVE  FreshRequest(r)'
  BY <1>2 DEF FreshRequest, LocalsFresh, Rows, InState
<1>3. CASE requests[r].pc # "idle" /\ RequestStep(r) /\ requests'[r].pc # "idle"
  <2>0. FreshRequest(r) /\ ~Finish(r)
    BY <1>3, FinishIdle DEF LocalsFresh
  <2>1. CASE ReadEnvironment(r)
    <3>1. /\ requests'[r].pc = "creating"
          /\ requests'[r].seen.version = env.version
          /\ requests'[r].seen.desc = env.desc
      BY <2>0, <2>1 DEF ReadEnvironment, TypeOK, RequestRecords
    <3>2. UNCHANGED env
      BY <2>1 DEF ReadEnvironment, database
    <3>3. QED
      BY <3>1, <3>2 DEF FreshRequest
  <2>2. CASE CreateSession(r)
    <3>1. requests[r].pc = "creating" /\ requests[r].seen.state = "opened"
      BY <2>2 DEF CreateSession, LocalsAgree
    <3>2. PICK s \in Unborn : /\ sessions' = [sessions EXCEPT ![s] = requests[r].seen]
                              /\ requests'[r].session = s
      BY <1>3, <2>2, CreateFields
    <3>3. s \in Sessions /\ sessions'[s] = requests[r].seen
      BY <3>2 DEF Unborn, TypeOK
    <3>4. s \in InState("opened")' /\ s \in Rows'
      BY <3>1, <3>3 DEF InState, Rows, SessionStates
    <3>5. QED
      BY <1>3, <2>2, <3>2, <3>3, <3>4, CreateFields DEF FreshRequest
  <2>3. CASE MarkDeleted(r)
    <3> DEFINE s == requests[r].session
    <3>1. s \in Rows /\ Goto(r, "reading") /\ s \in InState("opened")
      BY <2>0, <2>3 DEF MarkDeleted, FreshRequest
    <3>2. requests'[r].pc = "reading" /\ requests'[r].session = s
      BY <3>1, GotoFields
    <3>3. sessions'[s].state = sessions[s].state
      BY <2>3, <3>1 DEF MarkDeleted, TypeOK, SessionRows, Rows
    <3>4. QED
      BY <3>1, <3>2, <3>3 DEF FreshRequest, InState
  <2>4. CASE ReadSession(r)
    <3>1. /\ requests[r].session \in Rows /\ UNCHANGED sessions
          /\ Load(r, requests[r].op, requests[r].session)
      BY <2>0, <2>4 DEF ReadSession, database
    <3>2. /\ requests'[r].pc = "checking" /\ requests'[r].session = requests[r].session
          /\ requests'[r].seen = sessions[requests[r].session]
      BY <3>1, LoadFields
    <3>3. QED
      BY <3>1, <3>2 DEF FreshRequest, Rows
  <2>5. CASE CheckVersion(r)
    <3>1. /\ VersionValid(requests[r].seen) /\ UNCHANGED <<env, sessions>>
          /\ Goto(r, "counting") /\ requests[r].pc = "checking"
      BY <2>0, <2>5 DEF CheckVersion, database
    <3>2. QED
      BY <2>0, <3>1, GotoFields DEF FreshRequest, VersionValid, Rows
  <2>6. CASE CheckSessions(r)
    <3>1. /\ UNCHANGED <<env, sessions>> /\ requests[r].pc = "counting"
          /\ Accepts(requests[r].op, requests[r].seen.state)
          /\ Goto(r, IF requests[r].op = "edit" THEN "editing" ELSE "submitting")
      BY <2>0, <2>6 DEF CheckSessions, database
    <3>2. CASE requests[r].op = "edit"
      <4>1. requests[r].session \notin InState("deploying")
        BY <2>0, <3>1, <3>2 DEF Accepts, FreshRequest, InState
      <4>2. QED
        BY <2>0, <3>1, <3>2, <4>1, GotoFields DEF FreshRequest, InState
    <3>3. CASE requests[r].op # "edit"
      <4>1. requests[r].seen.state = "opened"
        BY <3>1, <3>3 DEF Accepts, LocalsAgree
      <4>2. QED
        BY <2>0, <3>1, <3>3, <4>1, GotoFields DEF FreshRequest, Rows
    <3>4. QED
      BY <3>2, <3>3
  <2>7. CASE ReadModel(r)
    <3>1. /\ UNCHANGED sessions /\ requests[r].pc = "editing"
          /\ requests'[r].pc = "saving"
          /\ requests'[r].session = requests[r].session
      BY <2>0, <2>7 DEF ReadModel, database, TypeOK, RequestRecords
    <3>2. QED
      BY <2>0, <3>1 DEF FreshRequest, InState
  <2>8. QED
    BY <1>3, <2>0, <2>1, <2>2, <2>3, <2>4, <2>5, <2>6, <2>7 DEF RequestStep,
       RemoveUndeployed, Submit, FailToSubmit, SaveModel, DropSession
<1>4. CASE requests[r].pc = "idle" /\ requests'[r].pc # "idle"
  <2>1. PICK q \in Requests : RequestStep(q) \/ ClientCall(q) \/ CrashRequest(q)
    BY <1>4, NextCases, TaskActionApart DEF vars
  <2>2. q = r
    BY <1>4, <2>1, OthersUnchanged
  <2>3. ClientCall(r)
    BY <1>4, <2>1, <2>2 DEF RequestStep, CrashRequest, ReadEnvironment, CreateSession,
       MarkDeleted, ReadSession, CheckVersion, CheckSessions, RemoveUndeployed,
       Submit, FailToSubmit, ReadModel, SaveModel, DropSession
  <2>4. ASSUME NEW op, BeginOpen(r, op)
        PROVE  FreshRequest(r)'
    <3>1. requests'[r].pc = "opening"
      BY <2>4 DEF BeginOpen, Enter, TypeOK, IdleRequest
    <3>2. QED
      BY <3>1 DEF FreshRequest
  <2>5. ASSUME NEW op, BeginUse(r, op)
        PROVE  FreshRequest(r)'
    <3>1. PICK s \in Rows : Load(r, op, s)
      BY <2>5 DEF BeginUse
    <3>2. UNCHANGED sessions
      BY <2>5 DEF BeginUse, database
    <3>3. QED
      BY <3>1, <3>2, LoadFields DEF FreshRequest, Rows
  <2>6. CASE BeginDrop(r)
    <3>1. PICK s \in Rows \ InState("deploying") : requests' = [requests EXCEPT ![r] =
              [IdleRequest EXCEPT !.pc = "dropping", !.op = "drop", !.session = s]]
      BY <2>6 DEF BeginDrop
    <3>2. requests'[r].pc = "dropping" /\ requests'[r].session = s
      BY <3>1 DEF TypeOK, IdleRequest
    <3>3. UNCHANGED sessions
      BY <2>6 DEF BeginDrop, database
    <3>4. QED
      BY <3>1, <3>2, <3>3 DEF FreshRequest, InState
  <2>7. CASE Abandon(r)
    BY <1>4, <2>7 DEF Abandon
  <2>8. QED
    BY <2>3, <2>4, <2>5, <2>6, <2>7 DEF ClientCall
<1>5. QED
  <2>1. CASE requests[r].pc # "idle"
    <3>1. CASE RequestStep(r)
      BY <1>1, <1>3, <2>1, <3>1
    <3>2. CASE CrashRequest(r)
      BY <1>1, <3>2, FinishIdle DEF CrashRequest
    <3>3. QED
      BY <1>2, <2>1, <3>1, <3>2, SoloRequest
  <2>2. QED
    BY <1>1, <1>4, <2>1

\* No row is made when the environment is gone, in either mode.
LEMMA RowsGoneStep ==
    ASSUME TypeOK, ~env.exists => Rows = {}, [Next]_vars
    PROVE  ~env'.exists => Rows' = {}
<1> SUFFICES ASSUME ~env'.exists
             PROVE  Rows' = {}
  OBVIOUS
<1>1. CASE RemoveEnvironment
  BY <1>1 DEF RemoveEnvironment, Rows, NoRow, SessionStates, TypeOK
<1>2. CASE ~RemoveEnvironment
  <2>1. ~env.exists
    BY <1>2, EnvironmentStep DEF StoreResult, TypeOK
  <2>2. \A s \in Sessions : sessions[s].state \notin SessionStates
    BY <2>1 DEF Rows
  <2>3. ASSUME NEW s \in Sessions
        PROVE  sessions'[s].state \notin SessionStates
    <3>1. sessions[s] \in SessionRows /\ sessions[s].state \notin SessionStates
      BY <2>2 DEF TypeOK
    <3>2. ASSUME NEW r \in Requests, CreateSession(r)
          PROVE  sessions'[s] = sessions[s]
      BY <2>1, <3>2 DEF CreateSession, database
    <3>3. ASSUME NEW r \in Requests, Submit(r)
          PROVE  FALSE
      BY <2>1, <3>3 DEF Submit
    <3>4. ASSUME NEW i \in Tasks, sessions[s].state = UnderWay(tasks[i].desc.deleted)
          PROVE  FALSE
      BY <3>1, <3>4 DEF UnderWay, SessionStates
    <3>5. GoneRow.state \notin SessionStates
      BY DEF GoneRow, NoRow, SessionStates
    <3>6. CASE \E r \in Requests : MarkDeleted(r) /\ s = requests[r].session
      <4>1. sessions'[s].state = sessions[s].state
        BY <3>6 DEF MarkDeleted, TypeOK, SessionRows
      <4>2. QED
        BY <3>1, <4>1
    <3>7. QED
      BY <3>1, <3>2, <3>3, <3>4, <3>5, <3>6, RowStep
  <2>4. QED
    BY <2>3 DEF Rows
<1>3. QED
  BY <1>1, <1>2

\* Nor is one made of a later version than the environment.
LEMMA BoundedStep ==
    ASSUME SubmitInv, ~Interleaved, [Next]_vars
    PROVE  RowsBounded'
<1> USE DEF SubmitInv, SerialInv
<1>1. env.version <= env'.version /\ env.version \in Nat /\ env'.version \in Nat
  BY VersionStep, TypeStep DEF TypeOK
<1>2. ASSUME NEW s \in Sessions
      PROVE  sessions'[s].version <= env'.version
  <2>1. sessions[s] \in SessionRows /\ sessions[s].version <= env.version
    BY DEF TypeOK, RowsBounded
  <2>2. sessions'[s] \in SessionRows
    BY TypeStep DEF TypeOK
  <2>3. \/ sessions'[s].version = sessions[s].version
        \/ sessions'[s].version = env.version
        \/ sessions'[s].version = 0
    <3>1. CASE \E r \in Requests : CreateSession(r) /\ sessions'[s] = requests[r].seen
      BY <3>1 DEF LocalsFresh, FreshRequest, CreateSession
    <3>2. CASE sessions'[s] = GoneRow
      BY <3>2 DEF GoneRow, NoRow
    <3>3. QED
      BY <2>1, <3>1, <3>2, RowStep DEF SessionRows
  <2>4. QED
    BY <1>1, <2>1, <2>2, <2>3 DEF SessionRows
<1>3. ~env'.exists => Rows' = {}
  BY RowsGoneStep DEF RowsBounded
<1>4. QED
  BY <1>2, <1>3 DEF RowsBounded

\* The session a handler submits is open, and that of no task.
LEMMA SubmitsOpened ==
    ASSUME SubmitInv, NEW r \in Requests, Submit(r)
    PROVE  /\ requests[r].session \in Sessions
           /\ requests[r].seen = sessions[requests[r].session]
           /\ sessions[requests[r].session].state = "opened"
           /\ sessions[requests[r].session].version = env.version
           /\ env.exists
           /\ created + 1 \in Tasks
<1> USE DEF SubmitInv, SerialInv
<1> DEFINE s == requests[r].session
<1>1. FreshRequest(r) /\ requests[r].pc = "submitting" /\ s \in Rows
  BY DEF LocalsFresh, Submit
<1>2. s \in Sessions /\ requests[r].seen = sessions[s] /\ sessions[s].state = "opened"
  BY <1>1 DEF FreshRequest, Rows
<1>3. env.version <= sessions[s].version /\ sessions[s].version <= env.version
  BY <1>1, <1>2 DEF FreshRequest, RowsBounded
<1>4. sessions[s].version \in Nat /\ env.version \in Nat
  BY <1>2 DEF TypeOK, SessionRows
<1>5. created + 1 \in Tasks
  BY ConstantsAssumption DEF Submit, TypeOK, Tasks
<1>6. QED
  BY <1>1, <1>2, <1>3, <1>4, <1>5 DEF RowsBounded

LEMMA SubmitFields ==
    ASSUME TypeOK, NEW r \in Requests, Submit(r), created + 1 \in Tasks
    PROVE  /\ tasks'[created + 1].stage = "saved"
           /\ tasks'[created + 1].session = requests[r].session
           /\ tasks'[created + 1].desc = requests[r].seen.desc
           /\ ~tasks'[created + 1].finished
           /\ \A i \in Tasks \ {created + 1} : tasks'[i] = tasks[i]
           /\ created' = created + 1
           /\ UNCHANGED <<env, known, live>>
  BY DEF Submit, TypeOK, NoTask

LEMMA TasksStep ==
    ASSUME SubmitInv, ~Interleaved, [Next]_vars
    PROVE  TasksInOrder' /\ DeployedOnce'
<1> USE DEF SubmitInv, SerialInv
<1>0. created \in Nat
  BY ConstantsAssumption DEF TypeOK
<1>1. ASSUME NEW s \in Sessions, sessions[s].state \notin {"unborn", "opened"}
      PROVE  sessions'[s].state \notin {"unborn", "opened"}
  <2>1. sessions[s] \in SessionRows
    BY DEF TypeOK
  <2>2. GoneRow.state \notin {"unborn", "opened"}
    BY DEF GoneRow, NoRow
  <2>3. ClosedStates \cap {"unborn", "opened"} = {}
    BY DEF ClosedStates
  <2>4. QED
    BY <1>1, <2>1, <2>2, <2>3, RowStep DEF SessionRows
<1>2. CASE UNCHANGED <<tasks, created>>
  BY <1>1, <1>2 DEF TasksInOrder, TaskInOrder, DeployedOnce
<1>3. ASSUME NEW r \in Requests, Submit(r)
      PROVE  TasksInOrder' /\ DeployedOnce'
  <2> DEFINE n == created + 1
             s == requests[r].session
  <2>1. n \in Tasks /\ s \in Sessions /\ sessions[s].state = "opened"
    BY <1>3, SubmitsOpened
  <2>2. /\ tasks'[n].stage = "saved" /\ tasks'[n].session = s
        /\ \A i \in Tasks \ {n} : tasks'[i] = tasks[i]
        /\ created' = n
    BY <1>3, <2>1, SubmitFields
  <2>3. sessions'[s].state \in {"deploying", "deleting"}
    BY <1>3, <2>1 DEF Submit, TypeOK, SessionRows
  <2>4. ASSUME NEW i \in Tasks
        PROVE  TaskInOrder(i)'
    <3>1. CASE i = n
      BY <1>0, <2>1, <2>2, <2>3, <3>1 DEF TaskInOrder
    <3>2. CASE i # n
      BY <1>0, <1>1, <2>2, <3>2 DEF TasksInOrder, TaskInOrder, Tasks
    <3>3. QED
      BY <3>1, <3>2
  <2>5. \A i \in Tasks \ {n} : tasks[i].session # s
    <3>1. ASSUME NEW i \in Tasks, i <= created
          PROVE  tasks[i].session # s
      BY <2>1, <3>1 DEF TasksInOrder, TaskInOrder
    <3>2. ASSUME NEW i \in Tasks, i > created
          PROVE  tasks[i].session # s
      BY <2>1, <3>2, ConstantsAssumption DEF TasksInOrder, TaskInOrder, NoTask
    <3>3. QED
      BY <1>0, <3>1, <3>2 DEF Tasks
  <2>6. DeployedOnce'
    BY <2>2, <2>5 DEF DeployedOnce
  <2>7. QED
    BY <2>4, <2>6 DEF TasksInOrder
<1>4. ASSUME NEW i \in Tasks, TaskAction(i)
      PROVE  TasksInOrder' /\ DeployedOnce'
  <2>1. UNCHANGED created
    BY <1>4, TaskActionApart
  <2>2. tasks[i] # NoTask
    BY <1>4, TaskStep DEF StageMoves, NoTask
  <2>3. i <= created
    BY <1>0, <2>2 DEF TasksInOrder, TaskInOrder, Tasks
  <2>4. ASSUME NEW j \in Tasks
        PROVE  /\ tasks'[j].session = tasks[j].session
               /\ (tasks'[j].stage = "none") <=> (tasks[j].stage = "none")
    <3>1. TaskKept(i, j) /\ StageMoves(i)
      BY <1>4, TaskStep
    <3>2. tasks'[i].stage # "none" /\ tasks[i].stage # "none"
      BY <2>3, <3>1 DEF StageMoves, TasksInOrder, TaskInOrder
    <3>3. QED
      BY <3>1, <3>2 DEF TaskKept
  <2>5. ASSUME NEW j \in Tasks
        PROVE  TaskInOrder(j)'
    <3>1. CASE j <= created
      BY <1>0, <1>1, <2>1, <2>4, <3>1 DEF TasksInOrder, TaskInOrder, Tasks
    <3>2. CASE j > created
      <4>1. j # i /\ j # created
        BY <1>0, <2>3, <3>2 DEF Tasks
      <4>2. tasks'[j] = tasks[j]
        BY <1>4, <4>1, TaskStep DEF TaskKept
      <4>3. QED
        BY <1>0, <2>1, <3>2, <4>2 DEF TasksInOrder, TaskInOrder, Tasks
    <3>3. QED
      BY <1>0, <3>1, <3>2 DEF Tasks
  <2>6. DeployedOnce'
    BY <2>4 DEF DeployedOnce
  <2>7. QED
    BY <2>5, <2>6 DEF TasksInOrder
<1>5. QED
  BY <1>2, <1>3, <1>4, NextCases, RequestTasks DEF vars

LEMMA SubmitInvariant ==
    ASSUME ~Interleaved
    PROVE  Spec => []SubmitInv
<1>1. Init => SubmitInv
  <2> SUFFICES ASSUME Init
               PROVE  SubmitInv
    OBVIOUS
  <2>1. SerialInv
    BY TypeInit DEF Init, SerialInv, LocalsAgree, HandlersExclude, SubmitsAlone,
       OneDeployment, VersionsFresh, IdleRequest, NoTask, NoRow, InState, Handling
  <2>2. LocalsFresh
    BY DEF Init, LocalsFresh, FreshRequest, IdleRequest
  <2>3. RowsBounded
    BY DEF Init, RowsBounded, NoRow
  <2>4. TasksInOrder /\ DeployedOnce
    BY ConstantsAssumption DEF Init, TasksInOrder, TaskInOrder, DeployedOnce, Tasks,
       NoTask
  <2>5. QED
    BY <2>1, <2>2, <2>3, <2>4 DEF SubmitInv
<1>2. SubmitInv /\ [Next]_vars => SubmitInv'
  <2> SUFFICES ASSUME SubmitInv, [Next]_vars
               PROVE  SubmitInv'
    OBVIOUS
  <2>1. SerialInv'
    BY TypeStep, LocalsStep, ExclusionStep, DeploymentStep, VersionStep
       DEF SubmitInv, SerialInv
  <2>2. LocalsFresh'
    BY FreshStep DEF LocalsFresh
  <2>3. QED
    BY <2>1, <2>2, BoundedStep, TasksStep DEF SubmitInv
<1>3. QED
  BY <1>1, <1>2, PTL DEF Spec

\* "One session could be deployed only once": no session gets a second task,
\* whatever clients call and whatever is lost, when handlers do not interleave.
THEOREM DeployedOnceOnly ==
    ASSUME ~Interleaved
    PROVE  Spec => []DeployedOnce
<1>1. SubmitInv => DeployedOnce
  BY DEF SubmitInv
<1>2. QED
  BY <1>1, SubmitInvariant, PTL

\* A session whose deployment or deletion begins is of the present version of
\* the environment: what update_task submits was not overtaken by a deployment
\* since the session was opened.
THEOREM NothingUndone ==
    ASSUME ~Interleaved
    PROVE  Spec => CurrentDeployed
<1>1. ASSUME SubmitInv, [Next]_vars, NEW s \in Sessions, sessions[s].state = "opened",
             sessions'[s].state \in {"deploying", "deleting"}
      PROVE  sessions[s].version = env.version
  <2>1. TypeOK /\ sessions[s] \in SessionRows
    BY <1>1 DEF SubmitInv, SerialInv, TypeOK
  <2>2. /\ GoneRow.state \notin {"deploying", "deleting"}
        /\ \A i \in Tasks : sessions[s].state # UnderWay(tasks[i].desc.deleted)
    BY <1>1 DEF GoneRow, NoRow, UnderWay
  <2>3. \E r \in Requests : Submit(r) /\ s = requests[r].session
    BY <1>1, <2>1, <2>2, RowStep DEF SessionRows
  <2>4. QED
    BY <1>1, <2>3, SubmitsOpened
<1>2. SubmitInv /\ [Next]_vars =>
          [\A s \in Sessions : /\ sessions[s].state = "opened"
                               /\ sessions'[s].state \in {"deploying", "deleting"}
                               => sessions[s].version = env.version]_vars
  BY <1>1
<1>3. QED
  BY <1>2, SubmitInvariant, PTL DEF Spec, CurrentDeployed

-----------------------------------------------------------------------------
(* What becomes of a request.                                              *)

RequestAction(r) == RequestStep(r) \/ ClientCall(r) \/ CrashRequest(r)

\* How the record of r changes, unless the request is answered.
Moved(r) ==
    LET old == requests[r]
        new == requests'[r]
    IN  \/ /\ \E op \in Operations \cap {"configure", "delete", "action"} :
                 BeginOpen(r, op) /\ new.op = op
           /\ new.pc = "opening" /\ new.session = None /\ new.seen = NoRow
        \/ /\ \E op \in Operations \cap {"deploy", "edit"} :
                 BeginUse(r, op) /\ new.op = op
           /\ new.pc = "checking"
           /\ new.session \in known \cap Rows /\ new.seen = sessions[new.session]
        \/ /\ BeginDrop(r) /\ "drop" \in Operations
           /\ new.pc = "dropping" /\ new.op = "drop" /\ new.seen = NoRow
           /\ new.session \in (known \cap Rows) \ InState("deploying")
        \/ Abandon(r) /\ new = old
        \/ /\ old.pc # "idle" /\ new.op = old.op
           /\ \/ /\ ReadEnvironment(r)
                 /\ old.pc = "opening" /\ new.pc = "creating" /\ new.session = old.session
                 /\ new.seen = [state |-> "opened", version |-> env.version, desc |-> env.desc]
              \/ /\ CreateSession(r)
                 /\ old.pc = "creating" /\ old.op # "configure"
                 /\ new.pc = IF old.op = "delete" THEN "marking" ELSE "checking"
                 /\ new.session \in Unborn /\ new.seen = old.seen
                 /\ sessions' = [sessions EXCEPT ![new.session] = old.seen]
              \/ /\ MarkDeleted(r)
                 /\ old.pc = "marking" /\ new.pc = "reading"
                 /\ new.session = old.session /\ new.seen = old.seen
              \/ /\ ReadSession(r)
                 /\ old.pc = "reading" /\ new.pc = "checking"
                 /\ old.session \in Rows
                 /\ new.session = old.session /\ new.seen = sessions[old.session]
              \/ /\ CheckVersion(r)
                 /\ old.pc = "checking" /\ new.pc = "counting"
                 /\ new.session = old.session /\ new.seen = old.seen
              \/ /\ CheckSessions(r)
                 /\ old.pc = "counting"
                 /\ new.pc = IF old.op = "edit" THEN "editing" ELSE "submitting"
                 /\ new.session = old.session /\ new.seen = old.seen
              \/ /\ ReadModel(r)
                 /\ old.pc = "editing" /\ new.pc = "saving"
                 /\ old.session \in Rows /\ new.session = old.session
                 /\ new.seen.desc = CurrentDescription(old.session)

LEMMA RequestMoves ==
    ASSUME TypeOK, NEW r \in Requests, RequestAction(r), requests'[r].pc # "idle"
    PROVE  Moved(r)
<1> DEFINE old == requests[r]
           new == requests'[r]
<1>0. ~Finish(r)
  BY FinishIdle
<1>1. ASSUME NEW op \in {"configure", "delete", "action"}, BeginOpen(r, op)
      PROVE  Moved(r)
  <2>1. op \in Operations /\ Enter(r, op, "opening")
    BY <1>1 DEF BeginOpen
  <2>2. new.op = op /\ new.pc = "opening" /\ new.session = None /\ new.seen = NoRow
    BY <2>1 DEF Enter, TypeOK, IdleRequest
  <2>3. QED
    BY <1>1, <2>1, <2>2 DEF Moved
<1>2. ASSUME NEW op \in {"deploy", "edit"}, BeginUse(r, op)
      PROVE  Moved(r)
  <2>1. PICK s \in known \cap Rows : Load(r, op, s)
    BY <1>2 DEF BeginUse
  <2>2. op \in Operations
    BY <1>2 DEF BeginUse
  <2>3. QED
    BY <1>2, <2>1, <2>2, LoadFields DEF Moved
<1>3. CASE BeginDrop(r)
  <2>1. PICK s \in (known \cap Rows) \ InState("deploying") : requests' = [requests EXCEPT ![r] =
            [IdleRequest EXCEPT !.pc = "dropping", !.op = "drop", !.session = s]]
    BY <1>3 DEF BeginDrop
  <2>2. new.pc = "dropping" /\ new.op = "drop" /\ new.session = s /\ new.seen = NoRow
    BY <2>1 DEF TypeOK, IdleRequest
  <2>3. "drop" \in Operations
    BY <1>3 DEF BeginDrop
  <2>4. QED
    BY <1>3, <2>1, <2>2, <2>3 DEF Moved
<1>4. CASE Abandon(r)
  BY <1>4 DEF Moved, Abandon
<1>5. CASE ReadEnvironment(r)
  <2> DEFINE row == [state |-> "opened", version |-> env.version, desc |-> env.desc]
  <2>1. old.pc = "opening" /\ requests' = [requests EXCEPT ![r].pc = "creating", ![r].seen = row]
    BY <1>0, <1>5 DEF ReadEnvironment
  <2>2. new = [old EXCEPT !.pc = "creating", !.seen = row] /\ old \in RequestRecords
    BY <2>1 DEF TypeOK
  <2>3. new.op = old.op /\ new.pc = "creating" /\ new.session = old.session /\ new.seen = row
    BY <2>2 DEF RequestRecords
  <2>4. QED
    BY <1>5, <2>1, <2>3 DEF Moved
<1>6. CASE CreateSession(r)
  BY <1>6, CreateFields DEF Moved, CreateSession
<1>7. CASE MarkDeleted(r)
  BY <1>0, <1>7, GotoFields DEF Moved, MarkDeleted
<1>8. CASE ReadSession(r)
  BY <1>0, <1>8, LoadFields DEF Moved, ReadSession
<1>9. CASE CheckVersion(r)
  BY <1>0, <1>9, GotoFields DEF Moved, CheckVersion
<1>10. CASE CheckSessions(r)
  BY <1>0, <1>10, GotoFields DEF Moved, CheckSessions
<1>11. CASE ReadModel(r)
  <2> DEFINE s == old.session
  <2>1. /\ old.pc = "editing" /\ s \in Rows
        /\ requests' = [requests EXCEPT ![r].pc = "saving", ![r].seen.desc = CurrentDescription(s)]
    BY <1>0, <1>11 DEF ReadModel
  <2>2. old \in RequestRecords /\ old.seen \in SessionRows
    BY DEF TypeOK, RequestRecords
  <2> DEFINE row == [old.seen EXCEPT !.desc = CurrentDescription(s)]
  <2>3. new = [old EXCEPT !.pc = "saving", !.seen = row]
    BY <2>1, <2>2 DEF TypeOK, RequestRecords
  <2>4. row.desc = CurrentDescription(s)
    BY <2>2 DEF SessionRows
  <2> HIDE DEF row
  <2>5. new.op = old.op /\ new.pc = "saving" /\ new.session = s /\ new.seen = row
    BY <2>2, <2>3 DEF RequestRecords
  <2>6. QED
    BY <1>11, <2>1, <2>4, <2>5 DEF Moved
<1>12. QED
  BY <1>0, <1>1, <1>2, <1>3, <1>4, <1>5, <1>6, <1>7, <1>8, <1>9, <1>10, <1>11
     DEF RequestAction, RequestStep, ClientCall, CrashRequest, RemoveUndeployed,
         Submit, FailToSubmit, SaveModel, DropSession

\* What clients may call, and what is done where.
OpFits(r) ==
    LET q == requests[r] IN
    /\ q.pc # "idle" => q.op \in Operations
    /\ q.pc \in {"opening", "creating"} => q.op \in {"configure", "delete", "action"}
    /\ q.pc \in {"checking", "counting"} => q.op \in {"delete", "action", "deploy", "edit"}
    /\ q.pc = "submitting" => q.op \in {"delete", "action", "deploy"}

OpsFit == \A r \in Requests : OpFits(r)

LEMMA OpsStep ==
    ASSUME TypeOK, LocalsAgree, OpsFit, [Next]_vars
    PROVE  OpsFit'
<1> SUFFICES ASSUME NEW r \in Requests
             PROVE  OpFits(r)'
  BY DEF OpsFit
<1>1. CASE requests'[r].pc = "idle"
  BY <1>1 DEF OpFits
<1>2. CASE requests'[r] = requests[r]
  BY <1>2 DEF OpsFit, OpFits
<1>3. CASE RequestAction(r) /\ requests'[r].pc # "idle"
  BY <1>3, RequestMoves DEF Moved, OpsFit, OpFits, LocalsAgree
<1>4. QED
  BY <1>1, <1>2, <1>3, NextCases, OthersUnchanged, TaskActionApart
     DEF RequestAction, vars

-----------------------------------------------------------------------------
(* Deployments that exclude deletions, or calls that all ask get_status     *)
(* first.  A handler about to submit then finds no session deploying or     *)
(* deleting (AloneRequest), so such a session is the one of the last task   *)
(* (ActiveOwned), and the task whose result is still to come is the last    *)
(* one, of a session nobody else works on (TaskOwns).                       *)

\* Without deletions no description says that its environment is deleted.
NoDeletions ==
    /\ ~env.desc.deleted
    /\ \A s \in Sessions : ~sessions[s].desc.deleted /\ sessions[s].state # "deleting"
    /\ \A r \in Requests : ~requests[r].seen.desc.deleted
    /\ \A i \in Tasks : ~tasks[i].desc.deleted

\* Without `deploy' the sessions clients know of are never submitted.
KnownRest ==
    /\ \A s \in known : s \notin Active /\ sessions[s].state # "unborn"
    /\ \A r \in Requests :
          /\ requests[r].pc # "idle" /\ requests[r].op \in {"delete", "action"}
             => requests[r].session \notin known
          /\ requests[r].pc = "dropping" => requests[r].session \in known

AloneRequest(r) ==
    requests[r].pc # "idle" /\ requests[r].op \in {"delete", "action"} => Active = {}

ActiveOwned == \A s \in Active : created > 0 /\ s = tasks[created].session

\* Its result is still to be handled, or will never be.
Pending(i) == tasks[i].stage \notin {"none", "done"}

Unpublished == {"saved", "queued", "running", "result", "loaded"}

TaskOwns(i) ==
    LET row == sessions[tasks[i].session] IN
    Pending(i) /\ env.exists =>
        /\ i = created
        /\ row.state = IF tasks[i].desc.deleted THEN "deleting" ELSE "deploying"
        /\ tasks[i].stage \in Unpublished => row.version = env.version
        /\ tasks[i].stage \in {"stored", "closing"} => row.version < env.version
        /\ ~tasks[i].desc.deleted => row.desc.apps = tasks[i].desc.apps

\* A session that was closed is older than the environment, and than every
\* session that is submitted after it.
ClosedEarlier ==
    \A s \in Closed : /\ sessions[s].version < env.version
                      /\ \A d \in Active : sessions[s].version < sessions[d].version

DeploymentInv ==
    /\ SubmitInv
    /\ OpsFit
    /\ "delete" \notin Operations => NoDeletions
    /\ "deploy" \notin Operations => KnownRest
    /\ \A r \in Requests : AloneRequest(r)
    /\ ActiveOwned
    /\ \A i \in Tasks : TaskOwns(i)
    /\ ClosedEarlier
    /\ FinishedByOwnResult

\* get_status tells of the session that is deploying or deleting: it is the
\* only one, and every other that is not merely opened is of an older version.
LEMMA StatusOfActive ==
    ASSUME TypeOK, ActiveOwned, ClosedEarlier, NEW d \in Active
    PROVE  Status = sessions[d].state
<1> DEFINE decisive == Rows \ InState("opened")
           first == {s \in decisive : \A t \in decisive \ {s} : Before(s, t)}
           over == {s \in first : sessions[s].state = "deployed"}
<1>1. d \in Sessions /\ sessions[d].state \in {"deploying", "deleting"}
  BY DEF Active, InState
<1>2. d \in decisive
  BY <1>1 DEF Rows, InState, SessionStates
<1>3. \A t \in decisive \ {d} : t \in Closed
  <2>1. \A t \in Active : t = d
    BY DEF ActiveOwned
  <2>2. QED
    BY <2>1 DEF Rows, InState, SessionStates, Active, Closed, ClosedStates
<1>4. \A t \in decisive \ {d} : sessions[t].version < sessions[d].version
  BY <1>3 DEF ClosedEarlier
<1>5. \A t \in Sessions : sessions[t].version \in Nat
  BY DEF TypeOK, SessionRows
<1>6. \A t \in decisive \ {d} : Before(d, t) /\ ~Before(t, d)
  BY <1>1, <1>4, <1>5 DEF Before, Rows
<1>7. first = {d}
  BY <1>2, <1>6
<1>8. over = {} /\ first \ over = {d}
  BY <1>1, <1>7
<1>9. (CHOOSE s \in first : TRUE) = d
  BY <1>7
<1>10. QED
  <2> HIDE DEF first, over
  <2>1. Status = IF first \ over # {} THEN sessions[CHOOSE s \in first : TRUE].state
                 ELSE IF {s \in InState("opened") : \A t \in over : Before(s, t)} # {}
                      THEN "pending" ELSE "ready"
    BY DEF Status, first, over
  <2>2. QED
    BY <1>8, <1>9, <2>1

LEMMA NotBusy ==
    ASSUME TypeOK, ActiveOwned, ClosedEarlier, ~Busy
    PROVE  Active = {}
  BY StatusOfActive DEF Busy, Active, InState

\* A handler submits when no session is deploying or deleting.
LEMMA SubmitsWhenNone ==
    ASSUME DeploymentInv, "delete" \notin Operations \/ "deploy" \notin Operations,
           NEW r \in Requests, requests[r].pc = "submitting"
    PROVE  Active = {}
<1>1. requests[r].op \in {"delete", "action", "deploy"} /\ requests[r].op \in Operations
  BY DEF DeploymentInv, OpsFit, OpFits
<1>2. CASE requests[r].op \in {"delete", "action"}
  BY <1>2 DEF DeploymentInv, AloneRequest
<1>3. CASE requests[r].op = "deploy"
  <2>1. NoDeletions
    BY <1>1, <1>3 DEF DeploymentInv
  <2>2. InState("deploying") = {}
    BY DEF DeploymentInv, SubmitInv, SerialInv, SubmitsAlone
  <2>3. QED
    BY <2>1, <2>2 DEF NoDeletions, Active, InState
<1>4. QED
  BY <1>1, <1>2, <1>3

\* Only Submit makes a session one that is deploying or deleting.
LEMMA ActiveStep ==
    ASSUME TypeOK, LocalsAgree, [Next]_vars, NEW s \in Sessions, s \in Active'
    PROVE  \/ /\ s \in Active
              /\ sessions'[s].state = sessions[s].state
              /\ sessions'[s].version = sessions[s].version
           \/ \E r \in Requests : Submit(r) /\ s = requests[r].session
<1>1. sessions'[s].state \in {"deploying", "deleting"} /\ sessions[s] \in SessionRows
  BY DEF Active, InState, TypeOK
<1>2. /\ GoneRow.state \notin {"deploying", "deleting"}
      /\ ClosedStates \cap {"deploying", "deleting"} = {}
  BY DEF GoneRow, NoRow, ClosedStates
<1>3. ASSUME NEW r \in Requests, CreateSession(r), sessions'[s] = requests[r].seen
      PROVE  FALSE
  BY <1>1, <1>3 DEF CreateSession, LocalsAgree
<1>4. \/ /\ sessions'[s].state = sessions[s].state
         /\ sessions'[s].version = sessions[s].version
      \/ \E r \in Requests : Submit(r) /\ s = requests[r].session
  BY <1>1, <1>2, <1>3, RowStep DEF SessionRows
<1>5. QED
  BY <1>1, <1>4 DEF Active, InState

LEMMA SubmitInvUses ==
    ASSUME DeploymentInv
    PROVE  /\ TypeOK /\ LocalsAgree /\ HandlersExclude /\ VersionsFresh /\ OneDeployment
           /\ LocalsFresh /\ RowsBounded /\ TasksInOrder /\ DeployedOnce
           /\ created \in Nat
  BY ConstantsAssumption DEF DeploymentInv, SubmitInv, SerialInv, TypeOK

LEMMA SeenDescriptions ==
    ASSUME TypeOK, [Next]_vars, NEW r \in Requests
    PROVE  requests'[r].seen.desc \in {requests[r].seen.desc, env.desc, EmptyDescription}
                                        \cup {sessions[s].desc : s \in Sessions}
<1>1. CASE requests'[r] = requests[r]
  BY <1>1
<1>2. CASE requests'[r] = IdleRequest
  BY <1>2 DEF IdleRequest, NoRow
<1>3. CASE RequestAction(r) /\ requests'[r].pc # "idle"
  <2>1. Moved(r)
    BY <1>3, RequestMoves
  <2>2. \A s \in Rows : CurrentDescription(s) \in {sessions[s].desc, env.desc} /\ s \in Sessions
    BY DEF CurrentDescription, Rows
  <2>3. NoRow.desc = EmptyDescription
    BY DEF NoRow
  <2>4. QED
    BY <2>1, <2>2, <2>3 DEF Moved, Rows
<1>4. ASSUME RequestAction(r), requests'[r].pc = "idle"
      PROVE  requests'[r] = IdleRequest \/ requests'[r] = requests[r]
  <2>1. CASE Finish(r) \/ UNCHANGED requests
    BY <2>1, FinishIdle
  <2>2. ASSUME NEW pc, Goto(r, pc)
        PROVE  pc = "idle"
    BY <1>4, <2>2, GotoFields
  <2>3. ~\E op, s : Load(r, op, s)
    BY <1>4, LoadFields
  <2>4. ASSUME NEW op, BeginOpen(r, op)
        PROVE  FALSE
    BY <1>4, <2>4 DEF BeginOpen, Enter, TypeOK, IdleRequest
  <2>5. ASSUME NEW op, BeginUse(r, op)
        PROVE  FALSE
    BY <2>3, <2>5 DEF BeginUse
  <2>6. ~BeginDrop(r)
    BY <1>4 DEF BeginDrop, TypeOK, IdleRequest
  <2>7. ASSUME ReadEnvironment(r), ~Finish(r)
        PROVE  FALSE
    BY <1>4, <2>7 DEF ReadEnvironment, TypeOK, RequestRecords
  <2>8. ASSUME ReadModel(r), ~Finish(r)
        PROVE  FALSE
    BY <1>4, <2>8 DEF ReadModel, TypeOK, RequestRecords
  <2>9. ASSUME CreateSession(r), ~Finish(r)
        PROVE  FALSE
    <3>1. PICK s : requests' = [requests EXCEPT
              ![r].session = s,
              ![r].pc = IF requests[r].op = "delete" THEN "marking" ELSE "checking"]
      BY <2>9 DEF CreateSession
    <3>2. QED
      BY <1>4, <3>1 DEF TypeOK, RequestRecords
  <2>10. CASE MarkDeleted(r) \/ CheckVersion(r) \/ CheckSessions(r) \/ ReadSession(r)
    BY <2>1, <2>2, <2>3, <2>10 DEF MarkDeleted, CheckVersion, CheckSessions, ReadSession
  <2>11. QED
    BY <1>4, <2>1, <2>4, <2>5, <2>6, <2>7, <2>8, <2>9, <2>10 DEF RequestAction,
       RequestStep, ClientCall, CrashRequest, RemoveUndeployed, Submit,
       FailToSubmit, SaveModel, DropSession, Abandon
<1>5. QED
  BY <1>1, <1>2, <1>3, <1>4, NextCases, OthersUnchanged, TaskActionApart
     DEF RequestAction, vars

LEMMA NoDeletionStep ==
    ASSUME DeploymentInv, NoDeletions, "delete" \notin Operations, [Next]_vars
    PROVE  NoDeletions'
<1>0. TypeOK /\ LocalsAgree /\ OpsFit
  BY SubmitInvUses DEF DeploymentInv
<1>1. ~env'.desc.deleted
  <2>1. CASE RemoveEnvironment
    BY <1>0, <2>1 DEF RemoveEnvironment, TypeOK, NoDeletions
  <2>2. ASSUME NEW i \in Tasks, StoreResult(i), env.exists
        PROVE  ~env'.desc.deleted
    BY <1>0, <2>2 DEF StoreResult, TypeOK, NoDeletions
  <2>3. QED
    BY <1>0, <2>1, <2>2, EnvironmentStep DEF NoDeletions
<1>2. ASSUME NEW s \in Sessions
      PROVE  ~sessions'[s].desc.deleted /\ sessions'[s].state # "deleting"
  <2>1. sessions[s] \in SessionRows /\ ~sessions[s].desc.deleted /\ sessions[s].state # "deleting"
    BY <1>0 DEF TypeOK, NoDeletions
  <2>2. ASSUME NEW r \in Requests, MarkDeleted(r)
        PROVE  FALSE
    BY <1>0, <2>2 DEF MarkDeleted, LocalsAgree, OpsFit, OpFits
  <2>3. ASSUME NEW r \in Requests, CreateSession(r), sessions'[s] = requests[r].seen
        PROVE  ~sessions'[s].desc.deleted /\ sessions'[s].state # "deleting"
    BY <1>0, <2>3 DEF CreateSession, LocalsAgree, NoDeletions
  <2>4. ~GoneRow.desc.deleted /\ GoneRow.state # "deleting" /\ "deleting" \notin ClosedStates
    BY DEF GoneRow, NoRow, EmptyDescription, ClosedStates
  <2>5. \A r \in Requests : ~requests[r].seen.desc.deleted
    BY DEF NoDeletions
  <2>6. QED
    BY <1>0, <2>1, <2>2, <2>3, <2>4, <2>5, RowStep DEF SessionRows
<1>3. ASSUME NEW r \in Requests
      PROVE  ~requests'[r].seen.desc.deleted
  BY <1>0, SeenDescriptions DEF NoDeletions, EmptyDescription
<1>4. ASSUME NEW i \in Tasks
      PROVE  ~tasks'[i].desc.deleted
  <2>1. ASSUME NEW r \in Requests, Submit(r)
        PROVE  ~tasks'[i].desc.deleted
    BY <1>0, <2>1, SubmitsOpened, SubmitFields DEF NoDeletions, DeploymentInv
  <2>2. ASSUME NEW k \in Tasks, TaskAction(k)
        PROVE  ~tasks'[i].desc.deleted
    BY <1>0, <2>2, TaskStep DEF TaskKept, NoDeletions
  <2>3. QED
    BY <2>1, <2>2, NextCases, RequestTasks DEF NoDeletions, vars
<1>5. QED
  BY <1>1, <1>2, <1>3, <1>4 DEF NoDeletions

LEMMA KnownChange ==
    ASSUME [Next]_vars
    PROVE  \/ UNCHANGED known
           \/ \E r \in Requests : /\ CreateSession(r)
                                  /\ \E s \in Unborn :
                                        /\ known' = known \cup {s}
                                        /\ sessions' = [sessions EXCEPT ![s] = requests[r].seen]
<1>1. ASSUME NEW r \in Requests, CreateSession(r)
      PROVE  \/ UNCHANGED known
             \/ \E s \in Unborn : /\ known' = known \cup {s}
                                  /\ sessions' = [sessions EXCEPT ![s] = requests[r].seen]
  BY <1>1 DEF CreateSession
<1>2. ASSUME NEW r \in Requests, RequestStep(r) \/ ClientCall(r) \/ CrashRequest(r)
      PROVE  CreateSession(r) \/ UNCHANGED known
  BY <1>2 DEF RequestStep, ClientCall, CrashRequest, BeginOpen, ReadEnvironment,
     MarkDeleted, BeginUse, ReadSession, CheckVersion, CheckSessions, RemoveUndeployed,
     Submit, FailToSubmit, ReadModel, SaveModel, BeginDrop, DropSession, Abandon
<1>3. QED
  BY <1>1, <1>2, NextCases, TaskActionApart DEF vars

LEMMA KnownStep ==
    ASSUME DeploymentInv, ~Interleaved, "deploy" \notin Operations, [Next]_vars
    PROVE  KnownRest'
<1>0. /\ TypeOK /\ LocalsAgree /\ HandlersExclude /\ OpsFit /\ KnownRest
  BY SubmitInvUses DEF DeploymentInv
<1>1. ASSUME NEW r \in Requests, Submit(r)
      PROVE  requests[r].session \notin known
  BY <1>0, <1>1 DEF Submit, OpsFit, OpFits, KnownRest
<1>2. ASSUME NEW s \in known
      PROVE  s \notin Active' /\ sessions'[s].state # "unborn"
  <2>1. s \in Sessions /\ s \notin Active /\ sessions[s].state # "unborn"
    BY <1>0, <1>2 DEF TypeOK, KnownRest
  <2>2. s \notin Active'
    BY <1>0, <1>1, <1>2, <2>1, ActiveStep
  <2>3. GoneRow.state # "unborn" /\ "unborn" \notin ClosedStates
    BY DEF GoneRow, NoRow, ClosedStates
  <2>4. sessions[s] \in SessionRows
    BY <1>0, <2>1 DEF TypeOK
  <2>5. sessions'[s].state # "unborn"
    BY <1>0, <2>1, <2>3, <2>4, RowStep DEF SessionRows
  <2>6. QED
    BY <2>2, <2>5
<1>3. ASSUME NEW s \in known'
      PROVE  s \notin Active' /\ sessions'[s].state # "unborn"
  <2>1. ASSUME NEW r \in Requests, CreateSession(r), s \in Unborn,
               sessions' = [sessions EXCEPT ![s] = requests[r].seen]
        PROVE  s \notin Active' /\ sessions'[s].state # "unborn"
    <3>1. requests[r].seen.state = "opened"
      BY <1>0, <2>1 DEF CreateSession, LocalsAgree
    <3>2. s \in Sessions /\ sessions'[s].state = "opened"
      BY <1>0, <2>1, <3>1 DEF Unborn, TypeOK
    <3>3. QED
      BY <3>2 DEF Active, InState
  <2>2. QED
    BY <1>2, <1>3, <2>1, KnownChange
<1>4. ASSUME NEW r \in Requests, requests'[r].pc # "idle"
      PROVE  /\ requests'[r].op \in {"delete", "action"}
                => requests'[r].session \notin known'
             /\ requests'[r].pc = "dropping" => requests'[r].session \in known'
  <2>1. CASE requests'[r] = requests[r] /\ UNCHANGED known
    BY <1>0, <1>4, <2>1 DEF KnownRest
  <2>2. CASE RequestAction(r)
    <3>1. Moved(r)
      BY <1>0, <1>4, <2>2, RequestMoves
    <3>2. CASE CreateSession(r)
      <4>1. UNCHANGED known
        BY <1>0, <1>4, <3>2, CreateFields
      <4>2. \A s \in Unborn : s \notin known
        BY <1>0 DEF Unborn, KnownRest
      <4>3. /\ requests'[r].session \in Unborn
            /\ requests'[r].pc # "dropping"
        BY <1>0, <1>4, <3>2, CreateFields, RequestMoves DEF Moved, CreateSession
      <4>4. QED
        BY <4>1, <4>2, <4>3
    <3>3. CASE ~CreateSession(r)
      <4>1. UNCHANGED known
        <5>1. ~Submit(r) => UNCHANGED known
          BY <2>2, <3>3 DEF RequestAction, RequestStep, ClientCall, CrashRequest, BeginOpen,
             ReadEnvironment, MarkDeleted, BeginUse, ReadSession, CheckVersion, CheckSessions,
             RemoveUndeployed, FailToSubmit, ReadModel, SaveModel, BeginDrop,
             DropSession, Abandon
        <5>2. QED
          BY <5>1 DEF Submit
      <4>2. None \notin known
        BY <1>0, ConstantsAssumption DEF TypeOK
      <4>3. QED
        BY <1>0, <1>4, <3>1, <3>3, <4>1, <4>2 DEF Moved, KnownRest
    <3>4. QED
      BY <3>2, <3>3
  <2>3. CASE requests[r].pc # "idle"
    BY <1>0, <2>1, <2>2, <2>3, SoloRequest DEF RequestAction
  <2>4. CASE requests[r].pc = "idle"
    <3>1. RequestAction(r)
      BY <1>0, <1>4, <2>4, NextCases, OthersUnchanged, TaskActionApart
         DEF RequestAction, vars
    <3>2. QED
      BY <2>2, <3>1
  <2>5. QED
    BY <2>3, <2>4
<1>5. QED
  BY <1>3, <1>4 DEF KnownRest

LEMMA AloneStep ==
    ASSUME DeploymentInv, ~Interleaved, [Next]_vars, NEW r \in Requests
    PROVE  AloneRequest(r)'
<1>0. /\ TypeOK /\ LocalsAgree /\ HandlersExclude /\ ActiveOwned /\ ClosedEarlier
      /\ AloneRequest(r)
  BY SubmitInvUses DEF DeploymentInv
<1>1. SUFFICES ASSUME requests'[r].pc # "idle", requests'[r].op \in {"delete", "action"}
               PROVE  Active' = {}
  BY DEF AloneRequest
<1>2. CASE requests[r].pc # "idle"
  <2>1. requests'[r].op = requests[r].op
    <3>1. CASE RequestAction(r)
      <4>1. Moved(r)
        BY <1>0, <1>1, <3>1, RequestMoves
      <4>2. QED
        BY <1>2, <4>1 DEF Moved, BeginOpen, BeginUse, BeginDrop
    <3>2. QED
      BY <1>0, <1>2, <3>1, SoloRequest DEF RequestAction
  <2>2. Active = {}
    BY <1>0, <1>1, <1>2, <2>1 DEF AloneRequest
  <2>3. ASSUME NEW q \in Requests, Submit(q)
        PROVE  FALSE
    <3>1. q = r
      BY <1>0, <1>2, <2>3 DEF Submit, HandlersExclude
    <3>2. QED
      BY <1>0, <1>1, <2>3, <3>1, FinishIdle DEF Submit
  <2>4. QED
    BY <1>0, <2>2, <2>3, ActiveStep DEF Active, InState
<1>3. CASE requests[r].pc = "idle"
  <2>1. RequestAction(r)
    BY <1>0, <1>1, <1>3, NextCases, OthersUnchanged, TaskActionApart
       DEF RequestAction, vars
  <2>2. Moved(r)
    BY <1>0, <1>1, <2>1, RequestMoves
  <2>3. PICK op : BeginOpen(r, op)
    BY <1>1, <1>3, <2>2 DEF Moved, Abandon
  <2>4. Active = {} /\ UNCHANGED sessions
    BY <1>0, <2>3, NotBusy DEF BeginOpen, database
  <2>5. QED
    BY <2>4 DEF Active, InState
<1>4. QED
  BY <1>2, <1>3

LEMMA OwnedStep ==
    ASSUME DeploymentInv, "delete" \notin Operations \/ "deploy" \notin Operations,
           ~Interleaved, [Next]_vars
    PROVE  ActiveOwned'
<1>0. TypeOK /\ LocalsAgree /\ TasksInOrder /\ ActiveOwned /\ created \in Nat /\ SubmitInv
  BY SubmitInvUses DEF DeploymentInv
<1>1. SUFFICES ASSUME NEW s \in Active'
               PROVE  created' > 0 /\ s = tasks'[created'].session
  BY DEF ActiveOwned
<1>2. s \in Sessions
  BY DEF Active, InState
<1>3. ASSUME NEW r \in Requests, Submit(r)
      PROVE  created' > 0 /\ s = tasks'[created'].session
  <2>1. Active = {}
    BY <1>3, SubmitsWhenNone DEF Submit
  <2>2. PICK q \in Requests : Submit(q) /\ s = requests[q].session
    BY <1>0, <1>2, <2>1, ActiveStep
  <2>3. created + 1 \in Tasks
    BY <1>0, <2>2, SubmitsOpened
  <2>4. QED
    BY <1>0, <2>2, <2>3, SubmitFields
<1>4. ASSUME \A r \in Requests : ~Submit(r)
      PROVE  created' > 0 /\ s = tasks'[created'].session
  <2>1. s \in Active
    BY <1>0, <1>2, <1>4, ActiveStep
  <2>2. created > 0 /\ s = tasks[created].session /\ created \in Tasks
    BY <1>0, <2>1 DEF ActiveOwned, TypeOK, Tasks
  <2>3. UNCHANGED created /\ tasks'[created].session = tasks[created].session
    <3>1. ASSUME NEW i \in Tasks, TaskAction(i)
          PROVE  UNCHANGED created /\ tasks'[created].session = tasks[created].session
      BY <1>0, <2>2, <3>1, TaskStep, TaskActionApart DEF TaskKept
    <3>2. QED
      BY <1>4, <3>1, NextCases, RequestTasks DEF vars
  <2>4. QED
    BY <2>2, <2>3
<1>5. QED
  BY <1>3, <1>4

\* The session of the task whose result is still to come.
LEMMA OwnedSession ==
    ASSUME DeploymentInv, NEW i \in Tasks, Pending(i), env.exists
    PROVE  /\ i = created
           /\ tasks[i].session \in Active
           /\ tasks[i].session \in Sessions
<1>1. i = created /\ sessions[tasks[i].session].state \in {"deleting", "deploying"}
  BY DEF DeploymentInv, TaskOwns
<1>2. tasks[i].session \in Sessions
  BY <1>1, SubmitInvUses DEF TasksInOrder, TaskInOrder
<1>3. QED
  BY <1>1, <1>2 DEF Active, InState

\* Nobody but the handler of its result writes to the row of a session that
\* is deploying or deleting; an edit of a deleting one keeps its state.
LEMMA ActiveKept ==
    ASSUME DeploymentInv, "delete" \notin Operations \/ "deploy" \notin Operations,
           ~Interleaved, [Next]_vars, env'.exists, NEW s \in Active,
           \A i \in Tasks : ~CloseSession(i)
    PROVE  /\ sessions'[s].state = sessions[s].state
           /\ sessions'[s].version = sessions[s].version
           /\ sessions[s].state = "deploying" =>
                  sessions'[s].desc.apps = sessions[s].desc.apps
<1>0. /\ TypeOK /\ LocalsAgree /\ LocalsFresh
  BY SubmitInvUses DEF DeploymentInv
<1>1. s \in Sessions /\ sessions[s].state \in {"deploying", "deleting"} /\ sessions[s] \in SessionRows
  BY <1>0 DEF Active, InState, TypeOK
<1>2. \A r \in Requests : ~Submit(r)
  BY SubmitsWhenNone DEF Submit
<1>3. ASSUME NEW r \in Requests, MarkDeleted(r), s = requests[r].session
      PROVE  FALSE
  BY <1>0, <1>1, <1>3 DEF MarkDeleted, LocalsFresh, FreshRequest, InState
<1>4. ASSUME NEW r \in Requests, SaveModel(r), s = requests[r].session
      PROVE  sessions[s].state # "deploying"
  BY <1>0, <1>1, <1>4 DEF SaveModel, LocalsFresh, FreshRequest, InState
<1>5. ASSUME NEW r \in Requests, DropSession(r), s = requests[r].session
      PROVE  FALSE
  <2>1. sessions[s].state # "deploying" /\ requests[r].pc = "dropping"
    BY <1>0, <1>1, <1>5 DEF DropSession, LocalsFresh, FreshRequest, InState
  <2>2. CASE "delete" \notin Operations
    BY <1>1, <2>1, <2>2 DEF DeploymentInv, NoDeletions
  <2>3. CASE "deploy" \notin Operations
    BY <1>5, <2>1, <2>3 DEF DeploymentInv, KnownRest
  <2>4. QED
    BY <2>2, <2>3
<1>6. ~RemoveEnvironment
  BY <1>0 DEF RemoveEnvironment, TypeOK
<1>7. \A r \in Requests : CreateSession(r) => sessions[s].state # "unborn"
  BY <1>1
<1>8. QED
  BY <1>0, <1>1, <1>2, <1>3, <1>4, <1>5, <1>6, RowStep

LEMMA OwnsStep ==
    ASSUME DeploymentInv, "delete" \notin Operations \/ "deploy" \notin Operations,
           ~Interleaved, [Next]_vars, NEW i \in Tasks
    PROVE  TaskOwns(i)'
<1>0. /\ TypeOK /\ VersionsFresh /\ created \in Nat /\ SubmitInv /\ TasksInOrder
      /\ TaskOwns(i)
  BY SubmitInvUses DEF DeploymentInv
<1>1. SUFFICES ASSUME Pending(i)', env'.exists
               PROVE  TaskOwns(i)'
  BY DEF TaskOwns
<1>2. env.exists
  BY <1>0, <1>1, EnvironmentStep DEF RemoveEnvironment, TypeOK
<1>3. ASSUME NEW r \in Requests, Submit(r)
      PROVE  TaskOwns(i)'
  <2> DEFINE s == requests[r].session
  <2>1. Active = {}
    BY <1>3, SubmitsWhenNone DEF Submit
  <2>2. \A j \in Tasks : ~Pending(j)
    BY <1>2, <2>1, OwnedSession
  <2>3. /\ s \in Sessions /\ created + 1 \in Tasks
        /\ requests[r].seen = sessions[s]
        /\ sessions[s].version = env.version
    BY <1>0, <1>3, SubmitsOpened
  <2>4. /\ tasks'[created + 1].stage = "saved"
        /\ tasks'[created + 1].session = s
        /\ tasks'[created + 1].desc = sessions[s].desc
        /\ \A j \in Tasks \ {created + 1} : tasks'[j] = tasks[j]
        /\ created' = created + 1 /\ UNCHANGED env
    BY <1>0, <1>3, <2>3, SubmitFields
  <2>5. i = created + 1
    BY <1>1, <2>2, <2>4 DEF Pending
  <2>6. sessions[s] \in SessionRows
    BY <1>0, <2>3 DEF TypeOK
  <2> DEFINE state == IF sessions[s].desc.deleted THEN "deleting" ELSE "deploying"
  <2>7. sessions'[s] = [sessions[s] EXCEPT !.state = state]
    BY <1>0, <1>3, <2>3 DEF Submit, TypeOK
  <2> HIDE DEF state
  <2>8. /\ sessions'[s].state = state
        /\ sessions'[s].version = env.version
        /\ sessions'[s].desc = sessions[s].desc
    BY <2>3, <2>6, <2>7 DEF SessionRows
  <2>9. QED
    BY <2>4, <2>5, <2>8 DEF TaskOwns, Unpublished, state
<1>4. ASSUME \A r \in Requests : ~Submit(r), Pending(i),
             \A k \in Tasks : ~CloseSession(k),
             UNCHANGED created,
             tasks'[i].session = tasks[i].session,
             tasks'[i].desc.apps = tasks[i].desc.apps,
             tasks'[i].desc.deleted = tasks[i].desc.deleted,
             \/ tasks'[i].stage = tasks[i].stage /\ UNCHANGED env
             \/ tasks'[i].stage \in Unpublished /\ tasks[i].stage \in Unpublished /\ UNCHANGED env
             \/ tasks'[i].stage = "lost"
             \/ /\ tasks'[i].stage = "stored" /\ tasks[i].stage \in Unpublished
                /\ env'.version = env.version + 1
             \/ tasks'[i].stage = "closing" /\ tasks[i].stage = "stored" /\ UNCHANGED env
      PROVE  TaskOwns(i)'
  <2> DEFINE s == tasks[i].session
  <2>1. /\ i = created
        /\ sessions[s].state = IF tasks[i].desc.deleted THEN "deleting" ELSE "deploying"
        /\ tasks[i].stage \in Unpublished => sessions[s].version = env.version
        /\ tasks[i].stage \in {"stored", "closing"} => sessions[s].version < env.version
        /\ ~tasks[i].desc.deleted => sessions[s].desc.apps = tasks[i].desc.apps
    BY <1>0, <1>2, <1>4 DEF TaskOwns
  <2>2. s \in Active
    BY <1>2, <1>4, OwnedSession
  <2>3. /\ sessions'[s].state = sessions[s].state
        /\ sessions'[s].version = sessions[s].version
        /\ sessions[s].state = "deploying" => sessions'[s].desc.apps = sessions[s].desc.apps
    BY <1>1, <1>4, <2>2, ActiveKept
  <2>4. env.version \in Nat
    BY <1>0 DEF TypeOK
  <2>5. /\ tasks'[i].stage \in Unpublished => sessions'[s].version = env'.version
        /\ tasks'[i].stage \in {"stored", "closing"} => sessions'[s].version < env'.version
    BY <1>4, <2>1, <2>3, <2>4 DEF Unpublished
  <2>6. QED
    BY <1>4, <2>1, <2>3, <2>5 DEF TaskOwns
<1>5. ASSUME NEW r \in Requests, RequestAction(r), ~Submit(r)
      PROVE  TaskOwns(i)'
  <2>1. UNCHANGED <<tasks, created>>
    BY <1>5, RequestTasks DEF RequestAction
  <2>2. UNCHANGED env
    BY <1>0, <1>1, <1>5 DEF RequestAction, RequestStep, ClientCall, CrashRequest, BeginOpen,
       ReadEnvironment, CreateSession, MarkDeleted, BeginUse, ReadSession,
       CheckVersion, CheckSessions, RemoveUndeployed, FailToSubmit,
       ReadModel, SaveModel, BeginDrop, DropSession, Abandon, database, RemoveEnvironment, TypeOK
  <2>3. \A q \in Requests : ~Submit(q)
    <3>1. ASSUME NEW q \in Requests, Submit(q)
          PROVE  FALSE
      <4>1. created' = created + 1
        BY <3>1 DEF Submit
      <4>2. QED
        BY <1>0, <2>1, <4>1
    <3>2. QED
      BY <3>1
  <2>4. \A k \in Tasks : ~CloseSession(k)
    <3>1. ASSUME NEW k \in Tasks, CloseSession(k)
          PROVE  FALSE
      <4>1. tasks[k].stage = "closing" /\ tasks'[k].stage = "done"
        BY <1>0, <3>1 DEF CloseSession, TypeOK, TaskRecords
      <4>2. QED
        BY <2>1, <4>1
    <3>2. QED
      BY <3>1
  <2>5. Pending(i)
    BY <1>1, <2>1 DEF Pending
  <2>6. QED
    BY <1>4, <2>1, <2>2, <2>3, <2>4, <2>5
<1>6. ASSUME NEW k \in Tasks, TaskAction(k)
      PROVE  TaskOwns(i)'
  <2>1. TaskKept(k, i) /\ StageMoves(k) /\ UNCHANGED created
    BY <1>0, <1>6, TaskStep, TaskActionApart
  <2>2. Pending(i)
    BY <1>1, <2>1 DEF Pending, TaskKept, StageMoves
  <2>3. \A r \in Requests : ~Submit(r)
    <3>1. ASSUME NEW q \in Requests, Submit(q)
          PROVE  FALSE
      <4>1. created' = created + 1
        BY <3>1 DEF Submit
      <4>2. QED
        BY <1>0, <2>1, <4>1
    <3>2. QED
      BY <3>1
  <2>4. i = created
    BY <1>2, <2>2, OwnedSession
  <2>5. \A j \in Tasks : ~CloseSession(j)
    <3>1. ASSUME NEW j \in Tasks, CloseSession(j)
          PROVE  FALSE
      <4>1. tasks[j].stage = "closing" /\ tasks'[j].stage = "done"
        BY <1>0, <3>1 DEF CloseSession, TypeOK, TaskRecords
      <4>2. j = i
        BY <1>2, <2>4, <4>1, OwnedSession DEF Pending
      <4>3. QED
        BY <1>1, <4>1, <4>2 DEF Pending
    <3>2. QED
      BY <3>1
  <2>6. CASE k = i
    <3>1. UNCHANGED env \/ StoreResult(i)
      <4>1. ~RemoveEnvironment
        BY <1>0, <1>1 DEF RemoveEnvironment, TypeOK
      <4>2. QED
        BY <1>6, <2>6, <4>1, EngineApart DEF TaskAction, ResultStep, LoadResult, FinishTask,
           CloseSession, database
    <3>2. CASE StoreResult(i)
      <4>1. tasks[i].stage = "loaded" /\ tasks[i].version = env.version
        BY <1>0, <3>2 DEF StoreResult, VersionsFresh
      <4>2. env'.version = env.version + 1
        BY <1>0, <1>2, <3>2, <4>1 DEF StoreResult, NextVersion, TypeOK
      <4>3. tasks'[i].stage = "stored"
        BY <1>0, <1>2, <3>2 DEF StoreResult, TypeOK, TaskRecords
      <4>4. QED
        BY <1>4, <2>1, <2>2, <2>3, <2>5, <4>1, <4>2, <4>3 DEF TaskKept, Unpublished
    <3>3. CASE UNCHANGED env /\ ~StoreResult(i)
      <4>1. \/ tasks'[i].stage = tasks[i].stage
            \/ tasks'[i].stage \in Unpublished /\ tasks[i].stage \in Unpublished
            \/ tasks'[i].stage = "lost"
            \/ tasks'[i].stage = "closing" /\ tasks[i].stage = "stored"
        BY <1>1, <1>2, <2>1, <2>5, <2>6, <3>3 DEF StageMoves, Unpublished, Pending
      <4>2. QED
        BY <1>4, <2>1, <2>2, <2>3, <2>5, <3>3, <4>1 DEF TaskKept
    <3>4. QED
      BY <3>1, <3>2, <3>3
  <2>7. CASE k # i
    <3>1. ~StoreResult(k)
      BY <1>2, <2>4, <2>7, OwnedSession DEF StoreResult, Pending
    <3>2. UNCHANGED env
      <4>1. ~RemoveEnvironment
        BY <1>0, <1>1 DEF RemoveEnvironment, TypeOK
      <4>2. QED
        BY <1>6, <3>1, <4>1, EngineApart DEF TaskAction, ResultStep, LoadResult, FinishTask,
           CloseSession, database
    <3>3. QED
      BY <1>4, <2>1, <2>2, <2>3, <2>5, <2>7, <3>2 DEF TaskKept
  <2>8. QED
    BY <2>6, <2>7
<1>7. CASE UNCHANGED vars
  BY <1>0, <1>7 DEF vars, TaskOwns, Pending
<1>8. QED
  BY <1>3, <1>5, <1>6, <1>7, NextCases DEF RequestAction

\* What made the row of s that of a session closed.
LEMMA ClosedRow ==
    ASSUME TypeOK, LocalsAgree, [Next]_vars, NEW s \in Closed'
    PROVE  /\ s \in Sessions
           /\ sessions'[s].version = sessions[s].version
           /\ \/ s \in Closed
              \/ \E i \in Tasks : /\ CloseSession(i)
                                  /\ sessions[s].state = UnderWay(tasks[i].desc.deleted)
<1>1. s \in Sessions /\ sessions'[s].state \in ClosedStates /\ sessions[s] \in SessionRows
  BY DEF Closed, TypeOK
<1>2. GoneRow.state \notin ClosedStates
  BY DEF GoneRow, NoRow, ClosedStates
<1>3. ClosedStates \cap {"opened", "deploying", "deleting"} = {}
  BY DEF ClosedStates
<1>4. ASSUME NEW r \in Requests, CreateSession(r), sessions'[s] = requests[r].seen
      PROVE  FALSE
  BY <1>1, <1>3, <1>4 DEF CreateSession, LocalsAgree
<1>5. /\ sessions'[s].version = sessions[s].version
      /\ \/ sessions'[s].state = sessions[s].state
         \/ \E i \in Tasks : /\ CloseSession(i)
                             /\ sessions[s].state = UnderWay(tasks[i].desc.deleted)
  BY <1>1, <1>2, <1>3, <1>4, RowStep DEF SessionRows
<1>6. QED
  BY <1>1, <1>5 DEF Closed

\* The handler that closes a session closes that of the last task, its own.
LEMMA ClosesOwn ==
    ASSUME DeploymentInv, NEW s \in Sessions, NEW i \in Tasks, CloseSession(i),
           sessions[s].state = UnderWay(tasks[i].desc.deleted)
    PROVE  /\ s \in Active /\ env.exists /\ i = created /\ tasks[i].session = s
           /\ sessions[s].version < env.version
<1>0. TypeOK /\ RowsBounded
  BY SubmitInvUses
<1>1. s \in Active /\ s \in Rows
  BY DEF Active, InState, UnderWay, Rows, SessionStates
<1>2. env.exists
  BY <1>0, <1>1 DEF RowsBounded
<1>3. tasks[i].stage = "closing" /\ Pending(i)
  BY DEF CloseSession, Pending
<1>4. i = created
  BY <1>2, <1>3, OwnedSession
<1>5. s = tasks[created].session
  BY <1>1 DEF DeploymentInv, ActiveOwned
<1>6. sessions[s].version < env.version
  BY <1>2, <1>3, <1>4, <1>5 DEF DeploymentInv, TaskOwns
<1>7. QED
  BY <1>1, <1>2, <1>4, <1>5, <1>6

LEMMA ClosedStep ==
    ASSUME DeploymentInv, "delete" \notin Operations \/ "deploy" \notin Operations,
           ~Interleaved, [Next]_vars
    PROVE  ClosedEarlier'
<1>0. /\ TypeOK /\ LocalsAgree /\ SubmitInv /\ SerialInv /\ ClosedEarlier /\ ActiveOwned
  BY SubmitInvUses DEF DeploymentInv, SubmitInv
<1>1. SUFFICES ASSUME NEW s \in Closed'
               PROVE  /\ sessions'[s].version < env'.version
                      /\ \A d \in Active' : sessions'[s].version < sessions'[d].version
  BY DEF ClosedEarlier
<1>2. /\ s \in Sessions
      /\ sessions'[s].version = sessions[s].version
      /\ \/ s \in Closed
         \/ \E i \in Tasks : /\ CloseSession(i)
                             /\ sessions[s].state = UnderWay(tasks[i].desc.deleted)
  BY <1>0, ClosedRow
<1>3. sessions[s].version < env.version
  BY <1>0, <1>2, ClosesOwn DEF ClosedEarlier
<1>4. /\ env.version <= env'.version
      /\ env.version \in Nat /\ env'.version \in Nat /\ sessions[s].version \in Nat
  BY <1>0, <1>2, VersionStep, TypeStep DEF TypeOK, SessionRows
<1>5. ASSUME NEW d \in Active'
      PROVE  sessions'[s].version < sessions'[d].version
  <2>0. d \in Sessions
    BY DEF Active, InState
  <2>1. CASE d \in Active /\ sessions'[d].version = sessions[d].version
    <3>1. CASE s \in Closed
      BY <1>0, <1>2, <2>1, <3>1 DEF ClosedEarlier
    <3>2. CASE s \notin Closed
      <4>1. s \in Active
        BY <1>2, <3>2, ClosesOwn
      <4>2. s = d
        BY <1>0, <2>1, <4>1 DEF ActiveOwned
      <4>3. QED
        BY <1>5, <4>2 DEF Active, Closed, InState, ClosedStates
    <3>3. QED
      BY <3>1, <3>2
  <2>2. ASSUME NEW r \in Requests, Submit(r), d = requests[r].session
        PROVE  sessions'[s].version < sessions'[d].version
    <3>1. sessions[d].version = env.version
      BY <1>0, <2>2, SubmitsOpened
    <3>2. sessions'[d].version = sessions[d].version
      BY <1>0, <2>0, <2>2 DEF Submit, TypeOK, SessionRows
    <3>3. QED
      BY <1>2, <1>3, <3>1, <3>2
  <2>3. QED
    BY <1>0, <2>0, <2>1, <2>2, ActiveStep
<1>6. QED
  BY <1>2, <1>3, <1>4, <1>5

LEMMA FinishedStep ==
    ASSUME DeploymentInv, ~Interleaved, [Next]_vars
    PROVE  FinishedByOwnResult'
<1>0. /\ TypeOK /\ SubmitInv /\ FinishedByOwnResult /\ TasksInOrder /\ created \in Nat
  BY SubmitInvUses DEF DeploymentInv
<1>1. ASSUME NEW i \in Tasks, tasks'[i].finished
      PROVE  tasks'[i].stage \in {"closing", "done", "lost"}
  <2>1. ASSUME NEW r \in Requests, Submit(r)
        PROVE  tasks'[i].stage \in {"closing", "done", "lost"}
    <3>1. created + 1 \in Tasks
      BY <1>0, <2>1, SubmitsOpened
    <3>2. i # created + 1 /\ tasks'[i] = tasks[i]
      BY <1>0, <1>1, <2>1, <3>1, SubmitFields
    <3>3. QED
      BY <1>0, <1>1, <3>2 DEF FinishedByOwnResult
  <2>2. ASSUME NEW k \in Tasks, TaskAction(k)
        PROVE  tasks'[i].stage \in {"closing", "done", "lost"}
    <3>1. TaskKept(k, i) /\ StageMoves(k)
      BY <1>0, <2>2, TaskStep
    <3>2. CASE tasks[i].finished
      <4>1. tasks[i].stage \in {"closing", "done", "lost"}
        BY <1>0, <3>2 DEF FinishedByOwnResult
      <4>2. QED
        BY <3>1, <4>1 DEF TaskKept, StageMoves
    <3>3. CASE ~tasks[i].finished
      <4>1. FinishTask(k) /\ env.exists /\ i = created /\ tasks'[k].stage = "closing"
        BY <1>1, <3>1, <3>3 DEF TaskKept
      <4>2. tasks[k].stage = "stored" /\ Pending(k)
        BY <4>1 DEF FinishTask, Pending
      <4>3. k = i
        BY <4>1, <4>2, OwnedSession
      <4>4. QED
        BY <4>1, <4>3
    <3>4. QED
      BY <3>2, <3>3
  <2>3. CASE UNCHANGED tasks
    BY <1>0, <1>1, <2>3 DEF FinishedByOwnResult
  <2>4. QED
    BY <2>1, <2>2, <2>3, NextCases, RequestTasks DEF vars
<1>2. QED
  BY <1>1 DEF FinishedByOwnResult

LEMMA DeploymentInvariant ==
    ASSUME ~Interleaved, "delete" \notin Operations \/ "deploy" \notin Operations
    PROVE  Spec => []DeploymentInv
<1>1. Init => NoDeletions /\ KnownRest /\ OpsFit /\ ActiveOwned /\ ClosedEarlier
  BY DEF Init, NoDeletions, KnownRest, OpsFit, OpFits, ActiveOwned, ClosedEarlier,
     EmptyDescription, NoRow, IdleRequest, NoTask, Active, Closed, ClosedStates, InState
<1>2. Init => /\ \A r \in Requests : AloneRequest(r)
              /\ \A i \in Tasks : TaskOwns(i)
              /\ FinishedByOwnResult
  BY DEF Init, AloneRequest, TaskOwns, Pending, FinishedByOwnResult, IdleRequest, NoTask
<1>3. Init /\ SubmitInv => DeploymentInv
  BY <1>1, <1>2 DEF DeploymentInv
<1>4. DeploymentInv /\ SubmitInv' /\ [Next]_vars => DeploymentInv'
  <2> SUFFICES ASSUME DeploymentInv, SubmitInv', [Next]_vars
               PROVE  DeploymentInv'
    OBVIOUS
  <2>1. OpsFit'
    BY OpsStep, SubmitInvUses DEF DeploymentInv
  <2>2. "delete" \notin Operations => NoDeletions'
    BY NoDeletionStep DEF DeploymentInv
  <2>3. "deploy" \notin Operations => KnownRest'
    BY KnownStep
  <2>4. \A r \in Requests : AloneRequest(r)'
    BY AloneStep
  <2>5. \A i \in Tasks : TaskOwns(i)'
    BY OwnsStep
  <2>6. ActiveOwned' /\ ClosedEarlier' /\ FinishedByOwnResult'
    BY OwnedStep, ClosedStep, FinishedStep
  <2>7. QED
    BY <2>1, <2>2, <2>3, <2>4, <2>5, <2>6 DEF DeploymentInv
<1>5. QED
  BY <1>3, <1>4, SubmitInvariant, PTL DEF Spec

\* process_result finishes the task of its own result and closes the session
\* of that task, though it looks neither of them up: it takes the task started
\* last and any session it finds deploying.  (When a deployment and a deletion
\* may be submitted one on top of the other it need not.)
THEOREM ResultsMeetTheirTask ==
    ASSUME ~Interleaved, "delete" \notin Operations \/ "deploy" \notin Operations
    PROVE  Spec => ResultsAreOwn
<1>1. ASSUME DeploymentInv, [Next]_vars, NEW s \in Sessions,
             sessions[s].state = "deploying",
             sessions'[s].state \in {"deployed", "deploy failure"}
      PROVE  \E i \in Tasks : /\ tasks[i].session = s
                              /\ tasks[i].stage = "closing"
                              /\ tasks'[i].stage = "done"
  <2>0. TypeOK /\ LocalsAgree
    BY <1>1, SubmitInvUses
  <2>1. s \in Closed' /\ s \notin Closed
    BY <1>1 DEF Closed, ClosedStates
  <2>2. PICK i \in Tasks : /\ CloseSession(i)
                           /\ sessions[s].state = UnderWay(tasks[i].desc.deleted)
    BY <1>1, <2>0, <2>1, ClosedRow
  <2>3. tasks[i].session = s
    BY <1>1, <2>2, ClosesOwn
  <2>4. tasks[i].stage = "closing" /\ tasks'[i].stage = "done"
    BY <2>0, <2>2 DEF CloseSession, TypeOK, TaskRecords
  <2>5. QED
    BY <2>3, <2>4
<1> DEFINE Own == \A s \in Sessions :
                     /\ sessions[s].state = "deploying"
                     /\ sessions'[s].state \in {"deployed", "deploy failure"}
                     => \E i \in Tasks : /\ tasks[i].session = s
                                         /\ tasks[i].stage = "closing"
                                         /\ tasks'[i].stage = "done"
<1>2. DeploymentInv /\ DeploymentInv' /\ [Next]_vars =>
          [FinishedByOwnResult' /\ Own]_vars
  BY <1>1 DEF DeploymentInv
<1>3. QED
  BY <1>2, DeploymentInvariant, PTL DEF Spec, ResultsAreOwn

\* get_status, which looks at the first session that is not merely opened,
\* tells of the deployment that is going on.
THEOREM StatusIsTheDeployment ==
    ASSUME ~Interleaved, "delete" \notin Operations \/ "deploy" \notin Operations
    PROVE  Spec => []StatusShowsDeployment
<1>1. ASSUME DeploymentInv
      PROVE  StatusShowsDeployment
  <2>1. ASSUME NEW d \in InState("deploying")
        PROVE  Status = "deploying"
    <3>1. d \in Active /\ sessions[d].state = "deploying"
      BY DEF Active, InState
    <3>2. QED
      BY <1>1, <3>1, StatusOfActive, SubmitInvUses DEF DeploymentInv
  <2>2. QED
    BY <2>1 DEF StatusShowsDeployment
<1>2. QED
  BY <1>1, DeploymentInvariant, PTL

\* While clients call only what asks get_status first (or never delete), a
\* session that is deploying or deleting is the only one of its environment.
THEOREM OneAtATime ==
    ASSUME ~Interleaved, "delete" \notin Operations \/ "deploy" \notin Operations
    PROVE  Spec => []ExclusiveDeployment
<1>1. DeploymentInv => ExclusiveDeployment
  BY DEF DeploymentInv, ActiveOwned, ExclusiveDeployment, Active
<1>2. QED
  BY <1>1, DeploymentInvariant, PTL

-----------------------------------------------------------------------------
(* The refinement of AtomicDeployments: a deployment begins with Submit, is *)
(* published by StoreResult and ended by CloseSession; to abandon the       *)
(* environment removes it; every other step is a stuttering step.           *)

\* Who is current, now and after the step.
LEMMA CurrentNow ==
    ASSUME ActiveOwned
    PROVE  /\ InState("deploying") = {} => Current = None
           /\ \A d \in InState("deploying") : Current = d /\ d # None
<1>1. ASSUME NEW d \in InState("deploying")
      PROVE  Current = d /\ d # None
  <2>1. \A s \in Sessions : sessions[s].state = "deploying" => s = d
    BY DEF ActiveOwned, Active, InState
  <2>2. d \in Sessions /\ sessions[d].state = "deploying"
    BY DEF InState
  <2>3. (CHOOSE s \in Sessions : sessions[s].state = "deploying") = d
    BY <2>1, <2>2
  <2>4. QED
    BY <1>1, <2>2, <2>3, ConstantsAssumption DEF Current
<1>2. QED
  BY <1>1 DEF Current

LEMMA CurrentNext ==
    ASSUME ActiveOwned'
    PROVE  /\ InState("deploying")' = {} => Current' = None
           /\ \A d \in InState("deploying")' : Current' = d /\ d # None
<1>1. ASSUME NEW d \in InState("deploying")'
      PROVE  Current' = d /\ d # None
  <2>1. \A s \in Sessions : sessions'[s].state = "deploying" => s = d
    BY DEF ActiveOwned, Active, InState
  <2>2. d \in Sessions /\ sessions'[d].state = "deploying"
    BY DEF InState
  <2>3. (CHOOSE s \in Sessions : sessions'[s].state = "deploying") = d
    BY <2>1, <2>2
  <2>4. QED
    BY <1>1, <2>2, <2>3, ConstantsAssumption DEF Current
<1>2. QED
  BY <1>1 DEF Current

Target == IF Current = None THEN {} ELSE sessions[Current].desc.apps
Published == Current # None /\ env.version > sessions[Current].version

LEMMA Removes ==
    ASSUME DeploymentInv, DeploymentInv', RemoveEnvironment
    PROVE  [Deployments!AtomicNext]_(Deployments!promise)
<1>0. TypeOK /\ RowsBounded
  BY SubmitInvUses
<1>1. InState("deploying")' = {}
  <2>1. \A s \in Sessions : sessions'[s].state # "deploying"
    <3> USE DEF RemoveEnvironment, Rows, SessionStates, NoRow
    <3>1. \A s \in Rows : sessions'[s].state = "gone"
      OBVIOUS
    <3>2. \A s \in Sessions \ Rows : sessions'[s] = sessions[s]
      OBVIOUS
    <3>3. QED
      BY <3>1, <3>2
  <2>2. QED
    BY <2>1 DEF InState
<1>2. Current' = None /\ Target' = {} /\ Published' = FALSE
  BY <1>1, CurrentNext DEF DeploymentInv, Target, Published
<1>3. /\ env' = [env EXCEPT !.exists = FALSE]
      /\ env'.exists = FALSE /\ env'.version = env.version /\ env'.desc = env.desc
  BY <1>0 DEF RemoveEnvironment, TypeOK
<1>4. CASE env.exists
  <2>1. Deployments!Remove
    BY <1>2, <1>3, <1>4 DEF Deployments!Remove, Target, Published
  <2>2. QED
    BY <2>1 DEF Deployments!AtomicNext
<1>5. CASE ~env.exists
  <2>1. InState("deploying") = {}
    BY <1>0, <1>5 DEF RowsBounded, Rows, InState, SessionStates
  <2>2. Current = None /\ Target = {} /\ Published = FALSE
    BY <2>1, CurrentNow DEF DeploymentInv, Target, Published
  <2>3. env.exists \in BOOLEAN
    BY <1>0 DEF TypeOK
  <2>4. QED
    BY <1>2, <1>3, <1>5, <2>2, <2>3 DEF Deployments!promise, Target, Published
<1>6. QED
  BY <1>4, <1>5

LEMMA Publishes ==
    ASSUME DeploymentInv, NoDeletions, NEW i \in Tasks, StoreResult(i), env.exists
    PROVE  Deployments!Publish
<1>0. TypeOK /\ VersionsFresh
  BY SubmitInvUses
<1> DEFINE s == tasks[i].session
<1>1. tasks[i].stage = "loaded" /\ Pending(i) /\ tasks[i].version = env.version
  BY <1>0 DEF StoreResult, Pending, VersionsFresh
<1>2. /\ s \in Sessions /\ sessions[s].state = "deploying"
      /\ sessions[s].version = env.version
      /\ sessions[s].desc.apps = tasks[i].desc.apps
  BY <1>1, OwnedSession DEF DeploymentInv, TaskOwns, Unpublished, NoDeletions
<1>3. Current = s /\ s # None
  BY <1>2, CurrentNow DEF DeploymentInv, InState
<1>4. UNCHANGED sessions /\ Current' = Current
  BY DEF StoreResult, Current, InState
<1>5. /\ env'.exists = env.exists /\ env'.version = env.version + 1
      /\ env'.desc.apps = tasks[i].desc.apps
  BY <1>0, <1>1 DEF StoreResult, NextVersion, TypeOK
<1>6. env.version \in Nat
  BY <1>0 DEF TypeOK
<1>7. Target = tasks[i].desc.apps /\ Target' = Target
  BY <1>2, <1>3, <1>4 DEF Target
<1>8. Published = FALSE /\ Published' = TRUE
  BY <1>2, <1>3, <1>4, <1>5, <1>6 DEF Published
<1>9. QED
  BY <1>3, <1>4, <1>5, <1>7, <1>8 DEF Deployments!Publish, Target, Published

LEMMA Begins ==
    ASSUME DeploymentInv, DeploymentInv', NoDeletions, "delete" \notin Operations,
           NEW r \in Requests, Submit(r)
    PROVE  Deployments!BeginDeployment
<1>0. TypeOK /\ SubmitInv
  BY SubmitInvUses DEF DeploymentInv
<1> DEFINE s == requests[r].session
<1>1. /\ s \in Sessions /\ requests[r].seen = sessions[s]
      /\ sessions[s].version = env.version /\ env.exists
  BY <1>0, SubmitsOpened
<1>2. Active = {}
  BY SubmitsWhenNone DEF Submit
<1>3. Current = None
  BY <1>2, CurrentNow DEF DeploymentInv, Active
<1>4. sessions[s] \in SessionRows /\ ~requests[r].seen.desc.deleted
  BY <1>0, <1>1 DEF TypeOK, NoDeletions
<1>5. sessions'[s] = [sessions[s] EXCEPT !.state = "deploying"]
  BY <1>0, <1>1, <1>4 DEF Submit, TypeOK
<1>6. /\ sessions'[s].state = "deploying" /\ sessions'[s].version = env.version
      /\ sessions'[s].desc = sessions[s].desc
  BY <1>1, <1>4, <1>5 DEF SessionRows
<1>7. Current' = s /\ s # None
  BY <1>1, <1>6, CurrentNext DEF DeploymentInv, InState
<1>8. UNCHANGED env /\ env.version \in Nat
  BY <1>0 DEF Submit, TypeOK
<1>9. Target' \in SUBSET Apps
  <2>1. sessions[s].desc.apps \in SUBSET Apps
    BY <1>4 DEF SessionRows, Descriptions
  <2>2. QED
    BY <1>6, <1>7, <2>1 DEF Target
<1>10. Published' = FALSE
  BY <1>6, <1>7, <1>8 DEF Published
<1>11. QED
  BY <1>1, <1>3, <1>7, <1>8, <1>9, <1>10 DEF Deployments!BeginDeployment, Target, Published

LEMMA Ends ==
    ASSUME DeploymentInv, DeploymentInv', NoDeletions, NEW i \in Tasks, CloseSession(i)
    PROVE  Deployments!EndDeployment \/ UNCHANGED Deployments!promise
<1>0. TypeOK /\ ActiveOwned
  BY SubmitInvUses DEF DeploymentInv
<1>1. UNCHANGED env /\ UnderWay(tasks[i].desc.deleted) = "deploying"
  BY DEF CloseSession, UnderWay, NoDeletions
<1>2. CASE UNCHANGED sessions
  <2>1. UNCHANGED Current
    BY <1>2 DEF Current, InState
  <2>2. QED
    BY <1>1, <1>2, <2>1 DEF Deployments!promise
<1>3. ASSUME NEW s \in InState("deploying"), NEW outcome \in ClosedStates,
             sessions' = [sessions EXCEPT ![s].state = outcome]
      PROVE  Deployments!EndDeployment
  <2>1. s \in Sessions /\ sessions[s].state = "deploying"
    BY DEF InState
  <2>2. Current = s /\ s # None
    BY <1>0, CurrentNow
  <2>3. sessions[s].version < env.version
    BY <1>1, <2>1, ClosesOwn
  <2>4. \A d \in InState("deploying") : d = s
    BY <1>0 DEF ActiveOwned, Active
  <2>5. sessions'[s].state = outcome
    BY <1>0, <1>3, <2>1 DEF TypeOK, SessionRows
  <2>6. \A d \in Sessions \ {s} : sessions'[d] = sessions[d]
    BY <1>0, <1>3, <2>1 DEF TypeOK
  <2>7. InState("deploying")' = {}
    BY <2>4, <2>5, <2>6 DEF InState, ClosedStates
  <2>8. Current' = None /\ Target' = {} /\ Published' = FALSE
    BY <2>7, CurrentNext DEF DeploymentInv, Target, Published
  <2>9. Published
    <3>1. env.version \in Nat /\ sessions[s].version \in Nat
      BY <1>0, <2>1 DEF TypeOK, SessionRows
    <3>2. QED
      BY <2>2, <2>3, <3>1 DEF Published
  <2>10. QED
    BY <1>1, <2>2, <2>8, <2>9 DEF Deployments!EndDeployment, Target, Published
<1>4. QED
  BY <1>1, <1>2, <1>3 DEF CloseSession, ClosedStates

LEMMA Stutters ==
    ASSUME DeploymentInv, DeploymentInv', "delete" \notin Operations, ~Interleaved,
           [Next]_vars, UNCHANGED env,
           \A r \in Requests : ~Submit(r), \A i \in Tasks : ~CloseSession(i)
    PROVE  UNCHANGED Deployments!promise
<1>0. TypeOK /\ LocalsAgree /\ RowsBounded /\ ActiveOwned /\ NoDeletions /\ NoDeletions'
  BY SubmitInvUses DEF DeploymentInv
<1>1. ASSUME NEW d \in InState("deploying")'
      PROVE  d \in InState("deploying")
  <2>1. d \in Active' /\ d \in Sessions /\ sessions'[d].state = "deploying"
    BY DEF Active, InState
  <2>2. sessions'[d].state = sessions[d].state
    BY <1>0, <2>1, ActiveStep
  <2>3. QED
    BY <2>1, <2>2 DEF InState
<1>2. ASSUME NEW d \in InState("deploying")
      PROVE  /\ d \in InState("deploying")'
             /\ sessions'[d].version = sessions[d].version
             /\ sessions'[d].desc.apps = sessions[d].desc.apps
  <2>1. d \in Active /\ d \in Sessions /\ sessions[d].state = "deploying" /\ d \in Rows
    BY DEF Active, InState, Rows, SessionStates
  <2>2. env'.exists
    BY <1>0, <2>1 DEF RowsBounded
  <2>3. QED
    BY <2>1, <2>2, ActiveKept DEF InState
<1>3. CASE InState("deploying") = {}
  <2>1. InState("deploying")' = {}
    BY <1>1, <1>3
  <2>2. Current = None /\ Current' = None
    BY <1>3, <2>1, CurrentNow, CurrentNext DEF DeploymentInv
  <2>3. QED
    BY <2>2 DEF Deployments!promise
<1>4. ASSUME NEW d \in InState("deploying")
      PROVE  UNCHANGED Deployments!promise
  <2>1. Current = d /\ Current' = d /\ d # None
    BY <1>2, CurrentNow, CurrentNext DEF DeploymentInv
  <2>2. Target' = Target /\ Published' = Published
    BY <1>2, <2>1 DEF Target, Published
  <2>3. QED
    BY <2>1, <2>2 DEF Deployments!promise, Target, Published
<1>5. QED
  BY <1>3, <1>4

\* Handlers that run to completion make deployments one at a time: of the
\* model the session held when it was deployed, published as the next version
\* by process_result, ended only after that; without deletions, which are
\* published as versions too.
THEOREM AtomicDeploymentsImplemented ==
    ASSUME ~Interleaved, "delete" \notin Operations
    PROVE  Spec => DeploymentsAreAtomic
<1>1. Init => Deployments!AtomicInit
  <2> SUFFICES ASSUME Init
               PROVE  Deployments!AtomicInit
    OBVIOUS
  <2>1. InState("deploying") = {} /\ Current = None
    BY DEF Init, InState, NoRow, Current
  <2>2. QED
    BY <2>1 DEF Init, Deployments!AtomicInit, EmptyDescription
<1>2. DeploymentInv /\ DeploymentInv' /\ [Next]_vars
      => [Deployments!AtomicNext]_(Deployments!promise)
  <2> SUFFICES ASSUME DeploymentInv, DeploymentInv', [Next]_vars
               PROVE  [Deployments!AtomicNext]_(Deployments!promise)
    OBVIOUS
  <2>0. TypeOK /\ NoDeletions
    BY SubmitInvUses DEF DeploymentInv
  <2>1. ASSUME NEW r \in Requests, Submit(r)
        PROVE  Deployments!AtomicNext
    BY <2>0, <2>1, Begins DEF Deployments!AtomicNext
  <2>2. ASSUME NEW i \in Tasks, CloseSession(i)
        PROVE  [Deployments!AtomicNext]_(Deployments!promise)
    BY <2>0, <2>2, Ends DEF Deployments!AtomicNext
  <2>3. ASSUME NEW i \in Tasks, StoreResult(i), env.exists
        PROVE  Deployments!AtomicNext
    BY <2>0, <2>3, Publishes DEF Deployments!AtomicNext
  <2>4. CASE UNCHANGED env /\ (\A r \in Requests : ~Submit(r)) /\ (\A i \in Tasks : ~CloseSession(i))
    BY <2>4, Stutters
  <2>5. QED
    BY <2>0, <2>1, <2>2, <2>3, <2>4, Removes, EnvironmentStep
<1>3. QED
  BY <1>1, <1>2, DeploymentInvariant, PTL DEF Spec, DeploymentsAreAtomic, Deployments!AtomicSpec

-----------------------------------------------------------------------------
(* No resource is left behind, as long as clients do not abandon the        *)
(* environment and ask get_status first.  An environment is removed when    *)
(* its description has no ObjectsCopy, or `none': so whatever is live must   *)
(* be backed by a copy in the description (Backed), or in the result that   *)
(* is on its way to it; and a handler that deletes must have seen the copy  *)
(* of the present description (CopySeen).                                   *)

NoneCopied ==
    /\ env.desc.copy # "none"
    /\ \A s \in Sessions : sessions[s].desc.copy # "none"
    /\ \A r \in Requests : requests[r].seen.desc.copy # "none"

CopySeen(r) ==
    /\ requests[r].op \in {"delete", "action"}
    /\ requests[r].pc \in {"marking", "reading", "checking", "counting", "submitting"}
    => sessions[requests[r].session].desc.copy = env.desc.copy

TaskCopy(i) ==
    LET t == tasks[i] IN
    /\ t.stage \in {"saved", "queued", "running"}
       => /\ t.desc.copy = env.desc.copy
          /\ live => env.desc.copy = "present"
    /\ t.stage = "result" /\ ~t.model /\ live => env.desc.copy = "present"
    /\ t.stage \in {"result", "loaded"} /\ t.model
       => /\ live => t.desc.copy = "present"
          /\ t.desc.copy = "none" => t.desc.deleted
    /\ t.stage = "loaded" => t.model /\ t.desc.copy # "none"

Backed ==
    env.exists /\ live =>
        \/ env.desc.copy = "present"
        \/ created > 0 /\ tasks[created].stage = "lost"
        \/ created > 0 /\ tasks[created].stage \in {"result", "loaded"} /\ tasks[created].model

NothingLeft == ~env.exists => ~live /\ \A i \in Tasks : ~Pending(i)

OrphanInv ==
    /\ DeploymentInv
    /\ NoneCopied
    /\ \A r \in Requests : CopySeen(r)
    /\ \A i \in Tasks : TaskCopy(i)
    /\ Backed
    /\ NothingLeft

\* What the handlers of requests, and of tasks, do to the environment.
LEMMA RequestEnvironment ==
    ASSUME TypeOK, NEW r \in Requests, RequestAction(r)
    PROVE  /\ UNCHANGED live /\ env'.desc = env.desc
           /\ env'.exists = env.exists \/ RemoveUndeployed(r) \/ Abandon(r)
<1>1. UNCHANGED env \/ RemoveUndeployed(r) \/ Abandon(r)
  BY DEF RequestAction, RequestStep, ClientCall, CrashRequest, BeginOpen,
     ReadEnvironment, CreateSession, MarkDeleted, BeginUse, ReadSession,
     CheckVersion, CheckSessions, Submit, FailToSubmit, ReadModel, SaveModel,
     BeginDrop, DropSession, database
<1>2. UNCHANGED live
  BY DEF RequestAction, RequestStep, ClientCall, CrashRequest, BeginOpen,
     ReadEnvironment, CreateSession, MarkDeleted, BeginUse, ReadSession,
     CheckVersion, CheckSessions, Submit, FailToSubmit, ReadModel, SaveModel,
     BeginDrop, DropSession, RemoveUndeployed, Abandon
<1>3. RemoveUndeployed(r) \/ Abandon(r) => env'.desc = env.desc
  BY DEF RemoveUndeployed, Abandon, RemoveEnvironment, TypeOK
<1>4. QED
  BY <1>1, <1>2, <1>3

LEMMA TaskEnvironment ==
    ASSUME TypeOK, NEW i \in Tasks, TaskAction(i)
    PROVE  /\ StoreResult(i) \/ env'.desc = env.desc
           /\ \/ env'.exists = env.exists
              \/ /\ LoadResult(i) /\ tasks[i].model /\ env.exists /\ ~env'.exists
                 /\ tasks[i].desc.deleted /\ tasks[i].desc.copy = "none"
<1>1. CASE StoreResult(i)
  BY <1>1 DEF StoreResult, TypeOK
<1>2. CASE LoadResult(i)
  BY <1>2 DEF LoadResult, RemoveEnvironment, database, TypeOK
<1>3. CASE UNCHANGED env
  BY <1>3
<1>4. QED
  BY <1>1, <1>2, <1>3, EngineApart DEF TaskAction, ResultStep, FinishTask, CloseSession,
     database

\* What a task makes of its description and of the resources.
LEMMA TaskData ==
    ASSUME TypeOK, NEW i \in Tasks, TaskAction(i)
    PROVE  \/ /\ tasks'[i].desc = tasks[i].desc /\ tasks'[i].model = tasks[i].model
              /\ live' = live \/ (tasks[i].stage = "running" /\ tasks'[i].stage = "lost")
           \/ /\ tasks[i].stage = "running" /\ tasks'[i].stage = "result"
              /\ \/ tasks'[i].model /\ tasks'[i].desc.copy = "present"
                 \/ /\ tasks'[i].model /\ tasks'[i].desc.copy = "none"
                    /\ tasks'[i].desc.deleted /\ ~live'
                 \/ /\ tasks'[i].desc = tasks[i].desc /\ (live' => live)
                    /\ tasks'[i].model \/ FailTrust(i)
<1>t. tasks[i] \in TaskRecords /\ live \in BOOLEAN
  BY DEF TypeOK
<1>1. ASSUME NEW stage, tasks' = [tasks EXCEPT ![i].stage = stage]
      PROVE  /\ tasks'[i].desc = tasks[i].desc /\ tasks'[i].model = tasks[i].model
             /\ tasks'[i].stage = stage
  <2>1. tasks'[i] = [tasks[i] EXCEPT !.stage = stage]
    BY <1>1 DEF TypeOK
  <2>2. QED
    BY <1>t, <2>1 DEF TaskRecords
<1>2. CASE Cast(i) \/ Start(i)
  BY <1>1, <1>2 DEF Cast, Start, Move
<1>3. CASE FailWithoutModel(i) \/ Lose(i)
  <2>1. /\ tasks' = [tasks EXCEPT ![i].stage = "lost"]
        /\ live' = live \/ tasks[i].stage = "running"
    BY <1>3 DEF FailWithoutModel, Lose
  <2>2. QED
    BY <1>1, <2>1
<1>4. ASSUME NEW desc, NEW exception, NEW reports, NEW model,
             Answer(i, desc, exception, reports, model)
      PROVE  /\ tasks[i].stage = "running" /\ tasks'[i].stage = "result"
             /\ tasks'[i].desc = desc /\ tasks'[i].model = model
  <2> DEFINE report == IF reports THEN "sent" ELSE "none"
  <2>1. tasks'[i] = [tasks[i] EXCEPT !.stage = "result", !.desc = desc,
                        !.model = model, !.exception = exception,
                        !.report = report]
    BY <1>4 DEF Answer, TypeOK
  <2> HIDE DEF report
  <2>2. /\ tasks'[i].stage = "result" /\ tasks'[i].desc = desc
        /\ tasks'[i].model = model
    BY <1>t, <2>1 DEF TaskRecords
  <2>3. QED
    BY <1>4, <2>2 DEF Answer
<1>5. CASE Complete(i)
  <2> DEFINE copy == IF tasks[i].desc.deleted THEN "none" ELSE "present"
             desc == [tasks[i].desc EXCEPT !.copy = copy]
  <2>1. /\ \E exception \in BOOLEAN, reports \in BOOLEAN :
               Answer(i, desc, exception, reports, TRUE)
        /\ live' = ~tasks[i].desc.deleted
    BY <1>5 DEF Complete
  <2>2. desc.copy = copy /\ desc.deleted = tasks[i].desc.deleted
    <3> HIDE DEF copy
    <3>1. QED
      BY <1>t DEF TaskRecords, Descriptions
  <2> HIDE DEF desc
  <2>3. QED
    BY <1>4, <2>1, <2>2
<1>6. CASE FailEarly(i) \/ FailTrust(i)
  <2>1. \/ Answer(i, tasks[i].desc, TRUE, "report" \in Faults, TRUE)
        \/ FailTrust(i) /\ Answer(i, tasks[i].desc, TRUE, "report" \in Faults, FALSE)
    BY <1>6 DEF FailEarly, FailTrust
  <2>2. live' => live
    BY <1>t, <1>6 DEF FailEarly, FailTrust
  <2>3. QED
    BY <1>4, <2>1, <2>2
<1>7. CASE LoadResult(i)
  <2>1. PICK stage, version :
               tasks' = [tasks EXCEPT ![i].stage = stage, ![i].version = version]
    BY <1>7 DEF LoadResult
  <2>2. tasks'[i] = [tasks[i] EXCEPT !.stage = stage, !.version = version]
    BY <2>1 DEF TypeOK
  <2>3. tasks'[i].desc = tasks[i].desc /\ tasks'[i].model = tasks[i].model
    BY <1>t, <2>2 DEF TaskRecords
  <2>4. QED
    BY <1>7, <2>3 DEF LoadResult
<1>8. CASE StoreResult(i) \/ CloseSession(i)
  BY <1>1, <1>8 DEF StoreResult, CloseSession
<1>9. ASSUME NEW f \in [Tasks -> TaskRecords], f[i].desc = tasks[i].desc,
             f[i].model = tasks[i].model,
             \/ \E failed : tasks' = [f EXCEPT ![i].stage = "closing", ![i].failed = failed]
             \/ tasks' = [f EXCEPT ![i].report = "handled"]
      PROVE  tasks'[i].desc = tasks[i].desc /\ tasks'[i].model = tasks[i].model
  <2>1. \/ \E failed : tasks'[i] = [f[i] EXCEPT !.stage = "closing", !.failed = failed]
        \/ tasks'[i] = [f[i] EXCEPT !.report = "handled"]
    BY <1>9
  <2>2. f[i] \in TaskRecords
    OBVIOUS
  <2>3. QED
    BY <1>9, <2>1, <2>2 DEF TaskRecords
<1>10. /\ [tasks EXCEPT ![created].finished = TRUE][i].desc = tasks[i].desc
       /\ [tasks EXCEPT ![created].finished = TRUE][i].model = tasks[i].model
       /\ [tasks EXCEPT ![created].errors = TRUE][i].desc = tasks[i].desc
       /\ [tasks EXCEPT ![created].errors = TRUE][i].model = tasks[i].model
  BY DEF TypeOK, TaskRecords
<1>11. CASE FinishTask(i)
  <2> DEFINE f == [tasks EXCEPT ![created].finished = TRUE]
  <2>1. f \in [Tasks -> TaskRecords] /\ f[i].desc = tasks[i].desc /\ f[i].model = tasks[i].model
    BY <1>10, RowUpdateType
  <2>2. /\ \/ \E failed : tasks' = [f EXCEPT ![i].stage = "closing", ![i].failed = failed]
           \/ tasks' = [tasks EXCEPT ![i].stage = "done"]
        /\ UNCHANGED live
    BY <1>11 DEF FinishTask
  <2> HIDE DEF f
  <2>3. QED
    BY <1>1, <1>9, <2>1, <2>2
<1>12. CASE HandleReport(i)
  <2> DEFINE f == [tasks EXCEPT ![created].errors = TRUE]
  <2>1. f \in [Tasks -> TaskRecords] /\ f[i].desc = tasks[i].desc /\ f[i].model = tasks[i].model
    BY <1>10, RowUpdateType
  <2>2. /\ \/ tasks' = [f EXCEPT ![i].report = "handled"]
           \/ tasks' = [tasks EXCEPT ![i].report = "handled"]
        /\ UNCHANGED live
    BY <1>12 DEF HandleReport
  <2> HIDE DEF f
  <2>3. tasks \in [Tasks -> TaskRecords]
    BY DEF TypeOK
  <2>4. QED
    BY <1>9, <2>1, <2>2, <2>3
<1>13. QED
  BY <1>2, <1>3, <1>5, <1>6, <1>7, <1>8, <1>11, <1>12
     DEF TaskAction, EngineStep, ResultStep

LEMMA CopiedStep ==
    ASSUME OrphanInv, [Next]_vars
    PROVE  NoneCopied'
<1>0. TypeOK /\ LocalsAgree /\ NoneCopied
  BY SubmitInvUses DEF OrphanInv
<1>1. env'.desc.copy # "none"
  <2>1. ASSUME NEW i \in Tasks, StoreResult(i)
        PROVE  env'.desc.copy # "none"
    <3>1. tasks[i].desc.copy # "none"
      BY <2>1 DEF StoreResult, OrphanInv, TaskCopy
    <3>2. QED
      BY <1>0, <2>1, <3>1 DEF StoreResult, TypeOK, NoneCopied
  <2>2. QED
    BY <1>0, <2>1, NextCases, RequestEnvironment, TaskEnvironment
       DEF RequestAction, NoneCopied, vars
<1>2. ASSUME NEW s \in Sessions
      PROVE  sessions'[s].desc.copy # "none"
  <2>1. sessions[s] \in SessionRows /\ sessions[s].desc.copy # "none"
    BY <1>0 DEF TypeOK, NoneCopied
  <2>2. GoneRow.desc.copy # "none"
    BY DEF GoneRow, NoRow, EmptyDescription
  <2>3. ASSUME sessions'[s] = [sessions[s] EXCEPT !.desc =
                   [CurrentDescription(s) EXCEPT !.deleted = TRUE, !.apps = {}]]
        PROVE  sessions'[s].desc.copy # "none"
    <3> DEFINE desc == [CurrentDescription(s) EXCEPT !.deleted = TRUE, !.apps = {}]
    <3>1. CurrentDescription(s).copy # "none"
      BY <1>0 DEF CurrentDescription, NoneCopied
    <3>2. desc.copy = CurrentDescription(s).copy
      BY <1>0, CurrentDescriptionType DEF Descriptions
    <3> HIDE DEF desc
    <3>3. sessions'[s].desc = desc
      BY <2>1, <2>3 DEF SessionRows, desc
    <3>4. QED
      BY <3>1, <3>2, <3>3
  <2>4. ASSUME NEW r \in Requests, sessions'[s] = requests[r].seen
        PROVE  sessions'[s].desc.copy # "none"
    BY <1>0, <2>4 DEF NoneCopied
  <2>5. ASSUME NEW state, sessions'[s] = [sessions[s] EXCEPT !.state = state]
        PROVE  sessions'[s].desc.copy # "none"
    BY <2>1, <2>5 DEF SessionRows
  <2>6. QED
    BY <1>0, <2>1, <2>2, <2>3, <2>4, <2>5, RowStep
<1>3. ASSUME NEW r \in Requests
      PROVE  requests'[r].seen.desc.copy # "none"
  BY <1>0, SeenDescriptions DEF NoneCopied, EmptyDescription
<1>4. QED
  BY <1>1, <1>2, <1>3 DEF NoneCopied

LEMMA CopySeenStep ==
    ASSUME OrphanInv, ~Interleaved, [Next]_vars, NEW r \in Requests
    PROVE  CopySeen(r)'
<1>0. TypeOK /\ LocalsAgree /\ LocalsFresh /\ HandlersExclude /\ OpsFit /\ CopySeen(r)
  BY SubmitInvUses DEF OrphanInv, DeploymentInv
<1>1. SUFFICES ASSUME requests'[r].op \in {"delete", "action"},
                      requests'[r].pc \in {"marking", "reading", "checking",
                                           "counting", "submitting"}
               PROVE  sessions'[requests'[r].session].desc.copy = env'.desc.copy
  BY DEF CopySeen
<1>2. CASE requests'[r] = requests[r] /\ UNCHANGED <<env, sessions>>
  BY <1>0, <1>1, <1>2 DEF CopySeen
<1>3. CASE RequestAction(r)
  <2>1. Moved(r) /\ requests'[r].pc # "idle"
    BY <1>0, <1>1, <1>3, RequestMoves
  <2>2. CASE CreateSession(r)
    <3>1. PICK s \in Unborn : /\ sessions' = [sessions EXCEPT ![s] = requests[r].seen]
                              /\ requests'[r].session = s
      BY <1>0, <2>1, <2>2, CreateFields
    <3>2. sessions'[s] = requests[r].seen
      BY <1>0, <3>1 DEF Unborn, TypeOK
    <3>3. requests[r].seen.desc = env.desc /\ UNCHANGED env
      BY <1>0, <2>1, <2>2, CreateFields DEF CreateSession, LocalsFresh, FreshRequest
    <3>4. QED
      BY <3>1, <3>2, <3>3
  <2>3. CASE MarkDeleted(r)
    <3> DEFINE s == requests[r].session
               desc == [CurrentDescription(s) EXCEPT !.deleted = TRUE, !.apps = {}]
    <3>1. /\ requests[r].pc = "marking" /\ requests[r].op = "delete"
          /\ s \in InState("opened")
      BY <1>0, <2>3 DEF MarkDeleted, LocalsAgree, LocalsFresh, FreshRequest
    <3>2. s \in Sessions /\ s \in Rows
      BY <3>1 DEF InState, Rows, SessionStates
    <3>3. sessions[s].desc.copy = env.desc.copy
      BY <1>0, <3>1 DEF CopySeen
    <3>4. CurrentDescription(s).copy = env.desc.copy
      BY <3>3 DEF CurrentDescription
    <3>5. desc.copy = env.desc.copy
      BY <1>0, <3>2, <3>4, CurrentDescriptionType DEF Descriptions
    <3>6. Goto(r, "reading") /\ UNCHANGED env /\ sessions' = [sessions EXCEPT ![s].desc = desc]
      BY <2>3, <3>2 DEF MarkDeleted
    <3>7. requests'[r].session = s
      BY <1>0, <3>6, GotoFields
    <3> HIDE DEF desc
    <3>8. sessions'[s] = [sessions[s] EXCEPT !.desc = desc] /\ sessions[s] \in SessionRows
      BY <1>0, <3>2, <3>6 DEF TypeOK
    <3>9. sessions'[s].desc = desc
      BY <3>8 DEF SessionRows
    <3>10. QED
      BY <3>5, <3>6, <3>7, <3>9
  <2>4. CASE ReadSession(r) \/ CheckVersion(r) \/ CheckSessions(r)
    <3>1. UNCHANGED <<env, sessions>>
      BY <2>4 DEF ReadSession, CheckVersion, CheckSessions, database
    <3>2. /\ requests[r].pc \in {"reading", "checking", "counting"}
          /\ requests'[r].op = requests[r].op
          /\ requests'[r].session = requests[r].session
      <4>1. requests[r].pc \in {"reading", "checking", "counting"}
        BY <2>4 DEF ReadSession, CheckVersion, CheckSessions
      <4>2. ~Finish(r)
        BY <1>0, <2>1, FinishIdle
      <4>3. QED
        BY <1>0, <2>4, <4>1, <4>2, GotoFields, LoadFields
           DEF ReadSession, CheckVersion, CheckSessions
    <3>3. QED
      BY <1>0, <1>1, <3>1, <3>2 DEF CopySeen
  <2>5. CASE Abandon(r)
    <3>1. requests'[r].pc = "idle"
      BY <2>5 DEF Abandon
    <3>2. QED
      BY <2>1, <3>1
  <2>6. QED
    BY <1>1, <2>1, <2>2, <2>3, <2>4, <2>5 DEF Moved
<1>4. CASE requests[r].pc # "idle" /\ ~RequestAction(r)
  <2>1. UNCHANGED <<env, sessions, requests>>
    BY <1>0, <1>4, SoloRequest DEF RequestAction
  <2>2. QED
    BY <1>2, <2>1
<1>5. CASE requests[r].pc = "idle" /\ ~RequestAction(r)
  <2>1. requests'[r] = requests[r]
    BY <1>0, <1>5, NextCases, OthersUnchanged, TaskActionApart DEF RequestAction, vars
  <2>2. QED
    BY <1>1, <1>5, <2>1
<1>6. QED
  BY <1>3, <1>4, <1>5

\* A task whose result is still to come is the only one that works, and it is
\* gone when the environment is.
LEMMA OthersRest ==
    ASSUME OrphanInv, NEW i \in Tasks, NEW k \in Tasks, TaskAction(k), Pending(i), k # i
    PROVE  HandleReport(k) /\ UNCHANGED live /\ env'.desc = env.desc
<1>0. TypeOK
  BY SubmitInvUses DEF OrphanInv
<1>1. ~Pending(k)
  BY OwnedSession DEF OrphanInv, NothingLeft
<1>2. HandleReport(k) /\ tasks'[k].stage = tasks[k].stage
  BY <1>0, <1>1, TaskStep DEF Pending, StageMoves, LoadResult, StoreResult, FinishTask, CloseSession
<1>3. QED
  BY <1>2 DEF HandleReport, database

LEMMA LoadedStage ==
    ASSUME TypeOK, NEW i \in Tasks, LoadResult(i)
    PROVE  /\ tasks'[i].stage = "loaded" =>
                  tasks[i].model /\ ~(tasks[i].desc.deleted /\ tasks[i].desc.copy = "none")
           /\ tasks'[i].stage = "done" /\ env'.exists => ~tasks[i].model
<1> DEFINE update == /\ tasks[i].model /\ env.exists
                     /\ ~(tasks[i].desc.deleted /\ tasks[i].desc.copy = "none")
           stage == IF update THEN "loaded" ELSE "done"
           version == IF update THEN env.version ELSE 0
<1>1. tasks' = [tasks EXCEPT ![i].stage = stage, ![i].version = version]
  BY DEF LoadResult
<1> HIDE DEF stage, version
<1>2. tasks'[i] = [tasks[i] EXCEPT !.stage = stage, !.version = version]
      /\ tasks[i] \in TaskRecords
  BY <1>1 DEF TypeOK
<1>3. tasks'[i].stage = stage
  BY <1>2 DEF TaskRecords
<1>4. tasks[i].model /\ env.exists /\ tasks[i].desc.deleted /\ tasks[i].desc.copy = "none"
      => ~env'.exists
  BY DEF LoadResult, RemoveEnvironment, TypeOK
<1>5. tasks[i].model /\ ~env.exists => ~env'.exists
  BY DEF LoadResult, database, RemoveEnvironment, TypeOK
<1>6. QED
  BY <1>3, <1>4, <1>5 DEF stage

LEMMA StoredStage ==
    ASSUME TypeOK, NEW i \in Tasks, StoreResult(i)
    PROVE  tasks'[i].stage \in {"stored", "done"}
<1> DEFINE stage == IF env.exists THEN "stored" ELSE "done"
<1>1. tasks' = [tasks EXCEPT ![i].stage = stage]
  BY DEF StoreResult
<1> HIDE DEF stage
<1>2. tasks'[i] = [tasks[i] EXCEPT !.stage = stage] /\ tasks[i] \in TaskRecords
  BY <1>1 DEF TypeOK
<1>3. tasks'[i].stage = stage
  BY <1>2 DEF TaskRecords
<1>4. QED
  BY <1>3 DEF stage

LEMMA CopyStep ==
    ASSUME OrphanInv, "deploy" \notin Operations, ~Interleaved, [Next]_vars,
           NEW i \in Tasks
    PROVE  TaskCopy(i)'
<1>0. /\ TypeOK /\ TaskCopy(i) /\ SubmitInv /\ created \in Nat
  BY SubmitInvUses DEF OrphanInv, DeploymentInv
<1>1. ASSUME NEW r \in Requests, Submit(r)
      PROVE  TaskCopy(i)'
  <2> DEFINE s == requests[r].session
  <2>1. /\ s \in Sessions /\ created + 1 \in Tasks
        /\ requests[r].seen = sessions[s] /\ env.exists
    BY <1>0, <1>1, SubmitsOpened
  <2>2. /\ tasks'[created + 1].stage = "saved"
        /\ tasks'[created + 1].desc = sessions[s].desc
        /\ \A j \in Tasks \ {created + 1} : tasks'[j] = tasks[j]
        /\ UNCHANGED <<env, live>>
    BY <1>0, <1>1, <2>1, SubmitFields
  <2>3. \A j \in Tasks : ~Pending(j)
    <3>1. Active = {}
      BY <1>1, SubmitsWhenNone DEF Submit, OrphanInv
    <3>2. QED
      BY <2>1, <3>1, OwnedSession DEF OrphanInv
  <2>4. CASE i = created + 1
    <3>1. requests[r].op \in {"delete", "action"} /\ requests[r].pc = "submitting"
      BY <1>1 DEF Submit, OrphanInv, DeploymentInv, OpsFit, OpFits
    <3>2. sessions[s].desc.copy = env.desc.copy
      BY <3>1 DEF OrphanInv, CopySeen
    <3>3. live => env.desc.copy = "present"
      <4>1. created > 0 => created \in Tasks
        BY <1>0 DEF TypeOK, Tasks
      <4>2. created > 0 => tasks[created].stage \notin {"lost", "result", "loaded"}
        BY <2>3, <4>1 DEF Pending
      <4>3. QED
        BY <2>1, <4>2 DEF OrphanInv, Backed
    <3>4. QED
      BY <2>2, <2>4, <3>2, <3>3 DEF TaskCopy
  <2>5. CASE i # created + 1
    BY <2>2, <2>3, <2>5 DEF TaskCopy, Pending
  <2>6. QED
    BY <2>4, <2>5
<1>2. ASSUME tasks'[i].stage = tasks[i].stage, tasks'[i].desc = tasks[i].desc,
             tasks'[i].model = tasks[i].model, UNCHANGED live, env'.desc = env.desc
      PROVE  TaskCopy(i)'
  BY <1>0, <1>2 DEF TaskCopy
<1>3. ASSUME NEW r \in Requests, RequestAction(r), ~Submit(r)
      PROVE  TaskCopy(i)'
  BY <1>0, <1>2, <1>3, RequestTasks, RequestEnvironment DEF RequestAction
<1>4. ASSUME TaskAction(i)
      PROVE  TaskCopy(i)'
  <2>1. StageMoves(i)
    BY <1>0, <1>4, TaskStep
  <2>2. tasks'[i].stage \in {"saved", "queued", "running", "result", "loaded"}
        => env'.desc = env.desc
    <3>1. CASE StoreResult(i)
      BY <1>0, <3>1, StoredStage
    <3>2. QED
      BY <1>0, <1>4, <3>1, TaskEnvironment
  <2>3. CASE tasks'[i].stage \in {"saved", "queued", "running"}
    BY <1>0, <1>4, <2>1, <2>2, <2>3, TaskData DEF StageMoves, TaskCopy
  <2>4. CASE tasks'[i].stage = "result"
    <3>1. CASE tasks[i].stage = "running"
      BY <1>0, <1>4, <2>2, <2>4, <3>1, TaskData DEF TaskCopy, OrphanInv, NoneCopied
    <3>2. CASE tasks[i].stage # "running"
      <4>1. tasks[i].stage = "result"
        BY <2>1, <2>4, <3>2 DEF StageMoves
      <4>2. QED
        BY <1>0, <1>2, <1>4, <2>2, <2>4, <4>1, TaskData
    <3>3. QED
      BY <3>1, <3>2
  <2>5. CASE tasks'[i].stage = "loaded"
    <3>1. CASE LoadResult(i) /\ tasks[i].stage = "result"
      <4>1. tasks[i].model /\ ~(tasks[i].desc.deleted /\ tasks[i].desc.copy = "none")
        BY <1>0, <2>5, <3>1, LoadedStage
      <4>2. /\ tasks'[i].model = tasks[i].model /\ tasks'[i].desc = tasks[i].desc
            /\ live' = live
        BY <1>0, <1>4, <3>1, TaskData
      <4>3. QED
        BY <1>0, <2>5, <3>1, <4>1, <4>2 DEF TaskCopy
    <3>2. CASE tasks[i].stage = "loaded"
      BY <1>0, <1>2, <1>4, <2>2, <2>5, <3>2, TaskData
    <3>3. QED
      BY <2>1, <2>5, <3>1, <3>2 DEF StageMoves
  <2>6. QED
    BY <2>3, <2>4, <2>5 DEF TaskCopy
<1>5. ASSUME NEW k \in Tasks, TaskAction(k), k # i
      PROVE  TaskCopy(i)'
  <2>1. TaskKept(k, i)
    BY <1>0, <1>5, TaskStep
  <2>2. CASE Pending(i)
    BY <1>2, <1>5, <2>1, <2>2, OthersRest DEF TaskKept
  <2>3. CASE ~Pending(i)
    BY <1>5, <2>1, <2>3 DEF TaskKept, Pending, TaskCopy
  <2>4. QED
    BY <2>2, <2>3
<1>6. CASE UNCHANGED vars
  BY <1>2, <1>6 DEF vars
<1>7. QED
  BY <1>1, <1>3, <1>4, <1>5, <1>6, NextCases DEF RequestAction

LEMMA BackedStep ==
    ASSUME OrphanInv, "deploy" \notin Operations, ~Interleaved, [Next]_vars
    PROVE  Backed'
<1>0. /\ TypeOK /\ SubmitInv /\ Backed /\ created \in Nat
      /\ created > 0 => created \in Tasks
  BY SubmitInvUses DEF OrphanInv, DeploymentInv, TypeOK, Tasks
<1>1. SUFFICES ASSUME env'.exists, live'
               PROVE  Backed'
  BY DEF Backed
<1>2. env.exists
  BY <1>0, <1>1, EnvironmentStep DEF RemoveEnvironment, TypeOK
<1>3. ASSUME NEW r \in Requests, Submit(r)
      PROVE  Backed'
  <2>1. Active = {} /\ created + 1 \in Tasks
    BY <1>0, <1>3, SubmitsWhenNone, SubmitsOpened DEF Submit, OrphanInv
  <2>2. UNCHANGED <<env, live>>
    BY <1>0, <1>3, <2>1, SubmitFields
  <2>3. \A j \in Tasks : ~Pending(j)
    BY <1>2, <2>1, OwnedSession DEF OrphanInv
  <2>4. env.desc.copy = "present"
    BY <1>0, <1>1, <1>2, <2>2, <2>3 DEF Backed, Pending
  <2>5. QED
    BY <2>2, <2>4 DEF Backed
<1>4. ASSUME UNCHANGED <<live, created>>, env'.desc = env.desc,
             created > 0 => /\ tasks'[created].stage = tasks[created].stage
                            /\ tasks'[created].model = tasks[created].model
      PROVE  Backed'
  BY <1>0, <1>1, <1>2, <1>4 DEF Backed
<1>5. ASSUME NEW r \in Requests, RequestAction(r), ~Submit(r)
      PROVE  Backed'
  BY <1>0, <1>4, <1>5, RequestTasks, RequestEnvironment DEF RequestAction
<1>6. ASSUME NEW k \in Tasks, TaskAction(k), Pending(k)
      PROVE  Backed'
  <2>1. /\ k = created /\ created > 0 /\ TaskCopy(k) /\ UNCHANGED created /\ StageMoves(k)
    BY <1>0, <1>2, <1>6, OwnedSession, TaskActionApart, TaskStep DEF OrphanInv, Tasks
  <2>2. CASE tasks'[k].stage = "lost"
    BY <2>1, <2>2 DEF Backed
  <2>3. CASE tasks[k].stage = "running" /\ tasks'[k].stage = "result"
    <3>1. ~StoreResult(k)
      BY <2>3 DEF StoreResult
    <3>2. env'.desc = env.desc
      BY <1>0, <1>6, <3>1, TaskEnvironment
    <3>3. \/ tasks'[k].model
          \/ live
      BY <1>0, <1>1, <1>6, <2>3, TaskData
    <3>4. live => env.desc.copy = "present"
      BY <2>1, <2>3 DEF TaskCopy
    <3>5. QED
      BY <2>1, <2>3, <3>2, <3>3, <3>4 DEF Backed
  <2>4. CASE ~(tasks[k].stage = "running" /\ tasks'[k].stage = "result") /\ tasks'[k].stage # "lost"
    <3>1. /\ tasks'[k].desc = tasks[k].desc /\ tasks'[k].model = tasks[k].model
          /\ live
      BY <1>0, <1>1, <1>6, <2>4, TaskData
    <3>2. CASE StoreResult(k)
      <4>1. tasks[k].desc.copy = "present"
        BY <2>1, <3>1, <3>2 DEF StoreResult, TaskCopy
      <4>2. env'.desc = tasks[k].desc
        BY <1>0, <1>2, <3>2 DEF StoreResult, TypeOK
      <4>3. QED
        BY <4>1, <4>2 DEF Backed
    <3>3. CASE ~StoreResult(k)
      <4>1. env'.desc = env.desc
        BY <1>0, <1>6, <3>3, TaskEnvironment
      <4>2. CASE tasks[k].stage \in {"saved", "queued", "running"}
        BY <2>1, <3>1, <4>1, <4>2 DEF TaskCopy, Backed
      <4>3. CASE LoadResult(k) /\ tasks[k].stage = "result" /\ tasks'[k].stage \in {"loaded", "done"}
        <5>1. CASE tasks'[k].stage = "loaded"
          BY <1>0, <2>1, <3>1, <4>3, <5>1, LoadedStage DEF Backed
        <5>2. CASE tasks'[k].stage = "done"
          BY <1>0, <1>1, <2>1, <3>1, <4>1, <4>3, <5>2, LoadedStage DEF Backed, TaskCopy
        <5>3. QED
          BY <4>3, <5>1, <5>2
      <4>4. CASE tasks[k].stage \in {"stored", "closing"}
        BY <1>0, <1>2, <2>1, <3>1, <4>1, <4>4 DEF Backed
      <4>5. CASE tasks'[k].stage = tasks[k].stage
        BY <1>0, <1>2, <2>1, <3>1, <4>1, <4>5 DEF Backed
      <4>6. QED
        BY <2>1, <2>4, <3>3, <4>2, <4>3, <4>4, <4>5 DEF StageMoves
    <3>4. QED
      BY <3>2, <3>3
  <2>5. QED
    BY <2>2, <2>3, <2>4
<1>7. ASSUME NEW k \in Tasks, TaskAction(k), ~Pending(k)
      PROVE  Backed'
  <2>1. HandleReport(k) /\ tasks'[k].stage = tasks[k].stage
    BY <1>0, <1>7, TaskStep DEF Pending, StageMoves, LoadResult, StoreResult,
       FinishTask, CloseSession
  <2>2. UNCHANGED <<live, created>> /\ env'.desc = env.desc
    BY <2>1 DEF HandleReport, database
  <2>3. ASSUME created > 0, created # k
        PROVE  /\ tasks'[created].stage = tasks[created].stage
               /\ tasks'[created].model = tasks[created].model
    BY <1>0, <1>7, <2>3, TaskStep DEF TaskKept
  <2>4. tasks'[k].model = tasks[k].model
    BY <1>0, <1>7, <2>1, TaskData
  <2>5. QED
    BY <1>4, <2>1, <2>2, <2>3, <2>4
<1>8. CASE UNCHANGED vars
  BY <1>4, <1>8 DEF vars
<1>9. QED
  BY <1>3, <1>5, <1>6, <1>7, <1>8, NextCases DEF RequestAction

LEMMA NothingLeftStep ==
    ASSUME OrphanInv, "deploy" \notin Operations, "abandon" \notin Operations,
           ~Interleaved, [Next]_vars
    PROVE  NothingLeft'
<1>0. /\ TypeOK /\ SubmitInv /\ LocalsFresh /\ NothingLeft /\ created \in Nat
      /\ created > 0 => created \in Tasks
  BY SubmitInvUses DEF OrphanInv, DeploymentInv, TypeOK, Tasks
<1>1. SUFFICES ASSUME ~env'.exists
               PROVE  ~live' /\ \A i \in Tasks : ~Pending(i)'
  BY DEF NothingLeft
<1>2. ASSUME NEW r \in Requests, Submit(r)
      PROVE  FALSE
  BY <1>0, <1>1, <1>2, SubmitsOpened DEF Submit
<1>3. ASSUME UNCHANGED tasks, UNCHANGED live, ~live, \A i \in Tasks : ~Pending(i)
      PROVE  ~live' /\ \A i \in Tasks : ~Pending(i)'
  BY <1>3 DEF Pending
<1>4. ASSUME NEW r \in Requests, RequestAction(r)
      PROVE  ~live' /\ \A i \in Tasks : ~Pending(i)'
  <2>1. UNCHANGED <<tasks, live>>
    BY <1>0, <1>2, <1>4, RequestTasks, RequestEnvironment DEF RequestAction
  <2>2. CASE ~env.exists
    BY <1>0, <1>3, <2>1, <2>2 DEF NothingLeft
  <2>3. CASE env.exists
    <3>1. RemoveUndeployed(r)
      BY <1>0, <1>1, <1>4, <2>3, RequestEnvironment DEF Abandon
    <3>2. /\ requests[r].pc = "submitting" /\ requests[r].op # "action"
          /\ requests[r].seen.desc.copy = "absent"
      BY <3>1 DEF RemoveUndeployed, NothingDeployed
    <3>3. requests[r].op = "delete"
      BY <3>2 DEF OrphanInv, DeploymentInv, OpsFit, OpFits
    <3>4. sessions[requests[r].session].desc.copy = env.desc.copy
      BY <3>2, <3>3 DEF OrphanInv, CopySeen
    <3>5. env.desc.copy = "absent"
      BY <1>0, <3>2, <3>4 DEF LocalsFresh, FreshRequest
    <3>6. \A i \in Tasks : ~Pending(i)
      <4>1. Active = {}
        BY <3>2, SubmitsWhenNone DEF OrphanInv
      <4>2. QED
        BY <2>3, <4>1, OwnedSession DEF OrphanInv
    <3>7. ~live
      BY <1>0, <2>3, <3>5, <3>6 DEF OrphanInv, Backed, Pending
    <3>8. QED
      BY <1>3, <2>1, <3>6, <3>7
  <2>4. QED
    BY <2>2, <2>3
<1>5. ASSUME NEW k \in Tasks, TaskAction(k), env.exists
      PROVE  ~live' /\ \A i \in Tasks : ~Pending(i)'
  <2>1. /\ LoadResult(k) /\ tasks[k].model
        /\ tasks[k].desc.deleted /\ tasks[k].desc.copy = "none"
    BY <1>0, <1>1, <1>5, TaskEnvironment
  <2>2. tasks[k].stage = "result" /\ Pending(k) /\ TaskCopy(k) /\ UNCHANGED live
    BY <2>1 DEF LoadResult, Pending, OrphanInv
  <2>3. ~live
    BY <2>1, <2>2 DEF TaskCopy
  <2>4. tasks'[k].stage = "done"
    <3>1. StageMoves(k)
      BY <1>0, <1>5, TaskStep
    <3>2. tasks'[k].stage \in {"loaded", "done"}
      <4>1. \E stage \in {"loaded", "done"}, version \in {0, env.version} :
                tasks' = [tasks EXCEPT ![k].stage = stage, ![k].version = version]
        BY <2>1 DEF LoadResult
      <4>2. \E stage \in {"loaded", "done"}, version \in {0, env.version} :
                tasks'[k] = [tasks[k] EXCEPT !.stage = stage, !.version = version]
        BY <1>0, <4>1 DEF TypeOK
      <4>3. QED
        BY <1>0, <4>2 DEF TypeOK, TaskRecords
    <3>3. QED
      BY <1>0, <2>1, <3>2, LoadedStage
  <2>5. ASSUME NEW i \in Tasks, i # k
        PROVE  ~Pending(i)'
    <3>1. ~Pending(i)
      BY <1>5, <2>2, <2>5, OwnedSession DEF OrphanInv
    <3>2. tasks'[i].stage = tasks[i].stage
      BY <1>0, <1>5, <2>5, TaskStep DEF TaskKept
    <3>3. QED
      BY <3>1, <3>2 DEF Pending
  <2>6. QED
    BY <2>2, <2>3, <2>4, <2>5 DEF Pending
<1>6. ASSUME NEW k \in Tasks, TaskAction(k), ~env.exists
      PROVE  ~live' /\ \A i \in Tasks : ~Pending(i)'
  <2>1. ~live /\ \A i \in Tasks : ~Pending(i)
    BY <1>0, <1>6 DEF NothingLeft
  <2>2. HandleReport(k) /\ tasks'[k].stage = tasks[k].stage
    BY <1>0, <1>6, <2>1, TaskStep DEF Pending, StageMoves, LoadResult, StoreResult,
       FinishTask, CloseSession
  <2>3. UNCHANGED live
    BY <2>2 DEF HandleReport
  <2>4. \A i \in Tasks : tasks'[i].stage = tasks[i].stage
    BY <1>0, <1>6, <2>2, TaskStep DEF TaskKept
  <2>5. QED
    BY <2>1, <2>3, <2>4 DEF Pending
<1>7. CASE UNCHANGED vars
  BY <1>0, <1>1, <1>3, <1>7 DEF vars, NothingLeft
<1>8. QED
  BY <1>4, <1>5, <1>6, <1>7, NextCases DEF RequestAction

LEMMA OrphanInvariant ==
    ASSUME ~Interleaved, "deploy" \notin Operations, "abandon" \notin Operations
    PROVE  Spec => []OrphanInv
<1>1. Init => NoneCopied /\ Backed /\ NothingLeft
  BY DEF Init, NoneCopied, Backed, NothingLeft, EmptyDescription, NoRow, IdleRequest
<1>2. Init => /\ \A r \in Requests : CopySeen(r)
              /\ \A i \in Tasks : TaskCopy(i)
  BY DEF Init, CopySeen, TaskCopy, IdleRequest, NoTask
<1>3. Init /\ DeploymentInv => OrphanInv
  BY <1>1, <1>2 DEF OrphanInv
<1>4. OrphanInv /\ DeploymentInv' /\ [Next]_vars => OrphanInv'
  BY CopiedStep, CopySeenStep, CopyStep, BackedStep, NothingLeftStep DEF OrphanInv
<1>5. QED
  BY <1>3, <1>4, DeploymentInvariant, PTL DEF Spec

\* An environment is removed from the database only when nothing of it exists
\* in the cloud, whatever messages, tasks and trusts are lost: unless a client
\* abandons it, or deploys a session without asking get_status.
THEOREM NothingLeftBehind ==
    ASSUME ~Interleaved, "deploy" \notin Operations, "abandon" \notin Operations
    PROVE  Spec => []NoOrphanResources
<1>1. OrphanInv => NoOrphanResources
  BY DEF OrphanInv, NothingLeft, NoOrphanResources
<1>2. QED
  BY <1>1, OrphanInvariant, PTL

-----------------------------------------------------------------------------
(* Handlers that interleave.  Two of them may submit the same session, and  *)
(* process_result closes any session it finds; so what is counted is not    *)
(* inductive alone: a result is done with without closing a session only    *)
(* when none is left (RowsGone), for every result has a model (Modelled),   *)
(* and a submitted task takes a place that was free (TasksFree).            *)

Awaited(deleted) == {s \in Sessions : sessions[s].state =
                         IF deleted THEN "deleting" ELSE "deploying"}
Awaiting(deleted) == {i \in Tasks : /\ tasks[i].desc.deleted = deleted
                                    /\ tasks[i].stage \notin {"none", "done"}}

RowsGone == ~env.exists => Rows = {}
Modelled == \A i \in Tasks : tasks[i].model
TasksFree == \A i \in Tasks : i > created => tasks[i] = NoTask

AwaitInv ==
    /\ TypeOK
    /\ LocalsAgree
    /\ RowsGone
    /\ Modelled
    /\ TasksFree
    /\ \A deleted \in BOOLEAN : /\ IsFiniteSet(Awaited(deleted))
                                /\ Cardinality(Awaited(deleted)) <= Cardinality(Awaiting(deleted))

LEMMA AwaitingFinite ==
    ASSUME NEW deleted
    PROVE  /\ IsFiniteSet(Awaiting(deleted))
           /\ Cardinality(Awaiting(deleted)) \in Nat
<1>1. IsFiniteSet(Tasks)
  BY FS_Interval, ConstantsAssumption DEF Tasks
<1>2. Awaiting(deleted) \subseteq Tasks
  BY DEF Awaiting
<1>3. QED
  BY <1>1, <1>2, FS_Subset, FS_CardinalityType

LEMMA ModelStep ==
    ASSUME TypeOK, Modelled, TasksFree, "trust" \notin Faults, [Next]_vars
    PROVE  Modelled' /\ TasksFree'
<1>0. created \in Nat
  BY ConstantsAssumption DEF TypeOK
<1>1. ASSUME NEW r \in Requests, Submit(r)
      PROVE  Modelled' /\ TasksFree'
  <2> DEFINE task == [NoTask EXCEPT !.stage = "saved", !.session = requests[r].session,
                          !.desc = requests[r].seen.desc,
                          !.action = requests[r].op = "action" \/ ~requests[r].seen.desc.deleted]
  <2>1. tasks' = [tasks EXCEPT ![created + 1] = task] /\ created' = created + 1
    BY <1>1 DEF Submit
  <2>2. task.model
    BY DEF NoTask
  <2> HIDE DEF task
  <2>3. \A i \in Tasks : tasks'[i] = IF i = created + 1 THEN task ELSE tasks[i]
    BY <2>1 DEF TypeOK
  <2>4. QED
    BY <1>0, <2>1, <2>2, <2>3 DEF Modelled, TasksFree, Tasks
<1>2. ASSUME NEW k \in Tasks, TaskAction(k)
      PROVE  Modelled' /\ TasksFree'
  <2>1. tasks[k] # NoTask
    <3>1. tasks[k].stage # "none" \/ tasks[k].report = "sent"
      BY <1>2, TaskStep DEF StageMoves
    <3>2. QED
      BY <3>1 DEF NoTask
  <2>2. k <= created
    BY <1>0, <2>1 DEF TasksFree, Tasks
  <2>3. tasks'[k].model
    <3>1. ~FailTrust(k)
      BY DEF FailTrust
    <3>2. QED
      BY <1>2, <3>1, TaskData DEF Modelled
  <2>4. ASSUME NEW i \in Tasks
        PROVE  tasks'[i].model /\ (i > created => tasks'[i] = tasks[i])
    <3>1. TaskKept(k, i)
      BY <1>2, TaskStep
    <3>2. CASE i = k
      BY <1>0, <2>2, <2>3, <3>2 DEF Tasks
    <3>3. CASE i # k
      BY <1>0, <3>1, <3>3 DEF TaskKept, Modelled, Tasks
    <3>4. QED
      BY <3>2, <3>3
  <2>5. UNCHANGED created
    BY <1>2, TaskActionApart
  <2>6. QED
    BY <2>4, <2>5 DEF Modelled, TasksFree
<1>3. CASE UNCHANGED <<tasks, created>>
  BY <1>3 DEF Modelled, TasksFree
<1>4. QED
  BY <1>1, <1>2, <1>3, NextCases, RequestTasks DEF vars

\* A session becomes one that awaits its result only when it is submitted.
LEMMA AwaitedStep ==
    ASSUME TypeOK, LocalsAgree, [Next]_vars, NEW deleted \in BOOLEAN,
           NEW s \in Awaited(deleted)'
    PROVE  \/ s \in Awaited(deleted)
           \/ \E r \in Requests : /\ Submit(r) /\ s = requests[r].session
                                  /\ requests[r].seen.desc.deleted = deleted
<1> DEFINE state == IF deleted THEN "deleting" ELSE "deploying"
<1>1. s \in Sessions /\ sessions'[s].state = state /\ sessions[s] \in SessionRows
  BY DEF Awaited, TypeOK
<1>2. state \notin ClosedStates \cup {"opened", "gone"}
  BY DEF ClosedStates
<1>3. ASSUME NEW r \in Requests, CreateSession(r), sessions'[s] = requests[r].seen
      PROVE  FALSE
  BY <1>1, <1>2, <1>3 DEF CreateSession, LocalsAgree
<1>4. sessions'[s] # GoneRow
  BY <1>1, <1>2 DEF GoneRow, NoRow
<1>5. ASSUME NEW r \in Requests, Submit(r), s = requests[r].session,
             sessions'[s] = [sessions[s] EXCEPT !.state =
                 IF requests[r].seen.desc.deleted THEN "deleting" ELSE "deploying"]
      PROVE  requests[r].seen.desc.deleted = deleted
  <2>1. sessions'[s].state = IF requests[r].seen.desc.deleted THEN "deleting" ELSE "deploying"
    BY <1>1, <1>5 DEF SessionRows
  <2>2. requests[r].seen.desc.deleted \in BOOLEAN
    BY DEF TypeOK, RequestRecords, SessionRows, Descriptions
  <2>3. QED
    BY <1>1, <2>1, <2>2
<1>6. \/ sessions'[s].state = sessions[s].state
      \/ \E r \in Requests : /\ Submit(r) /\ s = requests[r].session
                             /\ requests[r].seen.desc.deleted = deleted
  <2> HIDE DEF state
  <2>1. ASSUME NEW outcome \in ClosedStates, sessions'[s] = [sessions[s] EXCEPT !.state = outcome]
        PROVE  FALSE
    BY <1>1, <1>2, <2>1 DEF SessionRows
  <2>2. ASSUME NEW desc, sessions'[s] = [sessions[s] EXCEPT !.desc = desc]
        PROVE  sessions'[s].state = sessions[s].state
    BY <1>1, <2>2 DEF SessionRows
  <2>3. QED
    BY <1>1, <1>3, <1>4, <1>5, <2>1, <2>2, RowStep
<1>7. QED
  BY <1>1, <1>6 DEF Awaited

LEMMA Counting ==
    ASSUME NEW A, NEW B, NEW A1, NEW B1, IsFiniteSet(A), IsFiniteSet(B), IsFiniteSet(B1),
           Cardinality(A) <= Cardinality(B),
           \/ A1 = {}
           \/ A1 \subseteq A /\ B \subseteq B1
           \/ \E s, n : A1 \subseteq A \cup {s} /\ n \notin B /\ B \cup {n} \subseteq B1
           \/ \E s, n : s \in A /\ A1 \subseteq A \ {s} /\ B \ {n} \subseteq B1
    PROVE  IsFiniteSet(A1) /\ Cardinality(A1) <= Cardinality(B1)
<1>0. Cardinality(A) \in Nat /\ Cardinality(B) \in Nat /\ Cardinality(B1) \in Nat
  BY FS_CardinalityType
<1>1. CASE A1 = {}
  BY <1>0, <1>1, FS_EmptySet
<1>2. CASE A1 \subseteq A /\ B \subseteq B1
  <2>1. IsFiniteSet(A1) /\ Cardinality(A1) <= Cardinality(A)
    BY <1>2, FS_Subset
  <2>2. Cardinality(B) <= Cardinality(B1) /\ Cardinality(A1) \in Nat
    BY <1>2, <2>1, FS_Subset, FS_CardinalityType
  <2>3. QED
    BY <1>0, <2>1, <2>2
<1>3. ASSUME NEW s, NEW n, A1 \subseteq A \cup {s}, n \notin B, B \cup {n} \subseteq B1
      PROVE  IsFiniteSet(A1) /\ Cardinality(A1) <= Cardinality(B1)
  <2>1. /\ IsFiniteSet(A \cup {s}) /\ Cardinality(A \cup {s}) <= Cardinality(A) + 1
        /\ Cardinality(B \cup {n}) = Cardinality(B) + 1
    <3>1. IsFiniteSet(A \cup {s}) /\ Cardinality(A \cup {s}) =
              IF s \in A THEN Cardinality(A) ELSE Cardinality(A) + 1
      BY FS_AddElement
    <3>2. Cardinality(B \cup {n}) = Cardinality(B) + 1
      BY <1>3, FS_AddElement
    <3>3. QED
      BY <1>0, <3>1, <3>2
  <2>2. IsFiniteSet(A1) /\ Cardinality(A1) <= Cardinality(A \cup {s})
    BY <1>3, <2>1, FS_Subset
  <2>3. Cardinality(B \cup {n}) <= Cardinality(B1)
    BY <1>3, FS_Subset
  <2>4. Cardinality(A1) \in Nat /\ Cardinality(A \cup {s}) \in Nat
    BY <2>1, <2>2, FS_CardinalityType
  <2>5. QED
    BY <1>0, <2>1, <2>2, <2>3, <2>4
<1>4. ASSUME NEW s \in A, NEW n, A1 \subseteq A \ {s}, B \ {n} \subseteq B1
      PROVE  IsFiniteSet(A1) /\ Cardinality(A1) <= Cardinality(B1)
  <2>1. /\ IsFiniteSet(A \ {s}) /\ Cardinality(A \ {s}) = Cardinality(A) - 1
        /\ Cardinality(B \ {n}) >= Cardinality(B) - 1
    <3>1. IsFiniteSet(A \ {s}) /\ Cardinality(A \ {s}) = Cardinality(A) - 1
      BY <1>4, FS_RemoveElement
    <3>2. Cardinality(B \ {n}) = IF n \in B THEN Cardinality(B) - 1 ELSE Cardinality(B)
      BY FS_RemoveElement
    <3>3. QED
      BY <1>0, <3>1, <3>2
  <2>2. IsFiniteSet(A1) /\ Cardinality(A1) <= Cardinality(A \ {s})
    BY <1>4, <2>1, FS_Subset
  <2>3. Cardinality(B \ {n}) <= Cardinality(B1)
    BY <1>4, FS_Subset
  <2>4. Cardinality(A1) \in Nat /\ Cardinality(B \ {n}) \in Nat
    BY <2>2, FS_CardinalityType, FS_RemoveElement
  <2>5. QED
    BY <1>0, <2>1, <2>2, <2>3, <2>4
<1>5. QED
  BY <1>1, <1>2, <1>3, <1>4

\* One request is submitted at a time.
LEMMA SubmitAlone ==
    ASSUME TypeOK, NEW q \in Requests, NEW r \in Requests, Submit(q), Submit(r)
    PROVE  q = r
<1>1. requests'[q] = IdleRequest /\ requests[q].pc = "submitting"
  BY FinishIdle DEF Submit
<1>2. q # r => requests'[q] = requests[q]
  BY DEF Submit, Finish, TypeOK
<1>3. QED
  BY <1>1, <1>2 DEF IdleRequest

LEMMA CountStep ==
    ASSUME AwaitInv, Modelled', RowsGone', [Next]_vars, NEW deleted \in BOOLEAN
    PROVE  /\ IsFiniteSet(Awaited(deleted)')
           /\ Cardinality(Awaited(deleted)') <= Cardinality(Awaiting(deleted)')
<1> DEFINE A == Awaited(deleted)
           B == Awaiting(deleted)
<1>0. TypeOK /\ LocalsAgree /\ RowsGone /\ TasksFree /\ Modelled /\ created \in Nat
  BY ConstantsAssumption DEF AwaitInv, TypeOK
<1>1. IsFiniteSet(A) /\ IsFiniteSet(B) /\ Cardinality(A) <= Cardinality(B)
  BY AwaitingFinite DEF AwaitInv
<1>2. IsFiniteSet(B')
  <2>1. IsFiniteSet(Tasks)
    BY FS_Interval, ConstantsAssumption DEF Tasks
  <2>2. B' \subseteq Tasks
    BY DEF Awaiting
  <2>3. QED
    BY <2>1, <2>2, FS_Subset
<1> DEFINE Change == \/ A' = {}
                     \/ A' \subseteq A /\ B \subseteq B'
                     \/ \E s, n : A' \subseteq A \cup {s} /\ n \notin B /\ B \cup {n} \subseteq B'
                     \/ \E s, n : s \in A /\ A' \subseteq A \ {s} /\ B \ {n} \subseteq B'
<1>3. ASSUME NEW r \in Requests, Submit(r)
      PROVE  Change
  <2> DEFINE n == created + 1
             s == requests[r].session
  <2>1. n \in Tasks
    BY <1>0, <1>3, ConstantsAssumption DEF Submit, Tasks
  <2>2. /\ tasks'[n].stage = "saved" /\ tasks'[n].desc = requests[r].seen.desc
        /\ \A i \in Tasks \ {n} : tasks'[i] = tasks[i]
    BY <1>0, <1>3, <2>1, SubmitFields
  <2>3. n \notin B
    BY <1>0, <2>1 DEF TasksFree, Awaiting, NoTask
  <2>4. B \subseteq B'
    BY <2>2, <2>3 DEF Awaiting
  <2>5. CASE requests[r].seen.desc.deleted = deleted
    <3>1. n \in B'
      BY <2>1, <2>2, <2>5 DEF Awaiting
    <3>2. ASSUME NEW t \in A'
          PROVE  t \in A \cup {s}
      <4>1. ASSUME NEW q \in Requests, Submit(q), t = requests[q].session
            PROVE  t = s
        BY <1>0, <1>3, <4>1, SubmitAlone
      <4>2. QED
        BY <1>0, <4>1, AwaitedStep
    <3>3. QED
      BY <2>3, <2>4, <3>1, <3>2
  <2>6. CASE requests[r].seen.desc.deleted # deleted
    <3>1. ASSUME NEW t \in A'
          PROVE  t \in A
      <4>1. ASSUME NEW q \in Requests, Submit(q), requests[q].seen.desc.deleted = deleted
            PROVE  FALSE
        <5>1. q = r
          BY <1>0, <1>3, <4>1, SubmitAlone
        <5>2. QED
          BY <2>6, <4>1, <5>1
      <4>2. QED
        BY <1>0, <4>1, AwaitedStep
    <3>2. QED
      BY <2>4, <3>1
  <2>7. QED
    BY <2>5, <2>6
<1>4. ASSUME \A r \in Requests : ~Submit(r)
      PROVE  A' \subseteq A
  BY <1>0, <1>4, AwaitedStep
<1>5. ASSUME \A r \in Requests : ~Submit(r), NEW k \in Tasks, TaskAction(k)
      PROVE  Change
  <2>1. StageMoves(k) /\ \A i \in Tasks : TaskKept(k, i)
    BY <1>0, <1>5, TaskStep
  <2>2. CASE ~env'.exists
    BY <2>2 DEF RowsGone, Awaited, Rows, SessionStates
  <2>3. CASE env'.exists /\ CloseSession(k)
    <3>1. CASE tasks[k].desc.deleted = deleted
      <4>1. B \ {k} \subseteq B'
        BY <2>1 DEF Awaiting, TaskKept
      <4>2. CASE A = {}
        BY <1>4, <1>5, <4>2
      <4>3. CASE A # {}
        <5>1. A = InState(UnderWay(tasks[k].desc.deleted))
          BY <3>1 DEF Awaited, InState, UnderWay
        <5>2. PICK s \in A, outcome \in ClosedStates :
                  sessions' = [sessions EXCEPT ![s].state = outcome]
          BY <2>3, <4>3, <5>1 DEF CloseSession, ClosedStates
        <5>3. s \in Sessions /\ sessions'[s].state = outcome
          BY <1>0, <5>2 DEF Awaited, TypeOK, SessionRows
        <5>4. s \notin A'
          BY <5>3 DEF Awaited, ClosedStates
        <5>5. QED
          BY <1>4, <1>5, <4>1, <5>2, <5>4
      <4>4. QED
        BY <4>2, <4>3
    <3>2. CASE tasks[k].desc.deleted # deleted
      <4>1. B \subseteq B'
        BY <2>1, <3>2 DEF Awaiting, TaskKept
      <4>2. QED
        BY <1>4, <1>5, <4>1
    <3>3. QED
      BY <3>1, <3>2
  <2>4. CASE env'.exists /\ ~CloseSession(k)
    <3>1. env.exists
      BY <1>0, <2>4, EnvironmentStep DEF RemoveEnvironment, TypeOK
    <3>2. tasks'[k].stage = "done" => tasks[k].stage = "done"
      <4>1. LoadResult(k) => tasks'[k].stage # "done"
        BY <1>0, <2>4, LoadedStage DEF Modelled
      <4>2. QED
        BY <2>1, <2>4, <3>1, <4>1 DEF StageMoves
    <3>3. tasks'[k].stage = "none" => tasks[k].stage = "none"
      BY <2>1 DEF StageMoves
    <3>4. B \subseteq B'
      BY <2>1, <3>2, <3>3 DEF Awaiting, TaskKept
    <3>5. QED
      BY <1>4, <1>5, <3>4
  <2>5. QED
    BY <2>2, <2>3, <2>4
<1>6. ASSUME \A r \in Requests : ~Submit(r), UNCHANGED tasks
      PROVE  Change
  <2>1. B' = B
    BY <1>6 DEF Awaiting
  <2>2. QED
    BY <1>4, <1>6, <2>1
<1>7. Change
  <2> HIDE DEF Change
  <2>1. QED
    BY <1>3, <1>5, <1>6, NextCases, RequestTasks DEF vars
<1>8. QED
  <2> HIDE DEF A, B
  <2>1. IsFiniteSet(A') /\ Cardinality(A') <= Cardinality(B')
    BY <1>1, <1>2, <1>7, Counting
  <2>2. QED
    BY <2>1 DEF A, B

\* However handlers interleave, submit the same session twice or close one
\* another's, no more sessions are deploying (deleting) than there are tasks
\* whose results are still to close one; where results carry a model.
THEOREM NoSessionForgotten ==
    ASSUME "trust" \notin Faults
    PROVE  Spec => []EverySessionAwaitsResult
<1>1. Init => AwaitInv
  <2> SUFFICES ASSUME Init
               PROVE  AwaitInv
    OBVIOUS
  <2>1. TypeOK /\ LocalsAgree /\ RowsGone /\ Modelled /\ TasksFree
    BY TypeInit DEF Init, LocalsAgree, RowsGone, Modelled, TasksFree, IdleRequest, NoTask
  <2>2. ASSUME NEW deleted \in BOOLEAN
        PROVE  /\ IsFiniteSet(Awaited(deleted))
               /\ Cardinality(Awaited(deleted)) <= Cardinality(Awaiting(deleted))
    <3>1. Awaited(deleted) = {}
      BY DEF Init, Awaited, NoRow
    <3>2. QED
      BY <3>1, FS_EmptySet, AwaitingFinite
  <2>3. QED
    BY <2>1, <2>2 DEF AwaitInv
<1>2. AwaitInv /\ [Next]_vars => AwaitInv'
  <2> SUFFICES ASSUME AwaitInv, [Next]_vars
               PROVE  AwaitInv'
    OBVIOUS
  <2>1. TypeOK' /\ LocalsAgree' /\ Modelled' /\ TasksFree'
    BY TypeStep, LocalsStep, ModelStep DEF AwaitInv
  <2>2. RowsGone'
    BY RowsGoneStep DEF AwaitInv, RowsGone
  <2>3. QED
    BY <2>1, <2>2, CountStep DEF AwaitInv
<1>3. AwaitInv => EverySessionAwaitsResult
  BY DEF AwaitInv, EverySessionAwaitsResult, Awaited, Awaiting
<1>4. QED
  BY <1>1, <1>2, <1>3, PTL DEF Spec
=============================================================================
