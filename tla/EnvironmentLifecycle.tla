------------------------ MODULE EnvironmentLifecycle ------------------------
(***************************************************************************)
(* The life of one Murano environment: the configuration sessions opened   *)
(* on it, the API handlers that edit, deploy and delete through them, the  *)
(* tasks sent to the orchestration engine and the results that come back.  *)
(*                                                                         *)
(* Every handler is cut at its database transactions: an action is one     *)
(* read (with the local checks that follow it) or one commit.  What a      *)
(* handler has read and not yet used is kept in its request record or, for *)
(* process_result, in the task whose result it handles.                    *)
(***************************************************************************)
EXTENDS Naturals, FiniteSets

CONSTANTS
    Sessions,     \* identifiers the sessions of the environment may receive
    Requests,     \* API handlers that can be active at the same time
    Apps,         \* applications a description may contain
    MaxTasks,     \* bound: tasks that can be submitted
    Operations,   \* what clients call, a subset of AllOperations
    Faults,       \* what goes wrong outside the API, a subset of AllFaults
    Interleaved,  \* TRUE: handlers interleave at database calls (several
                  \* workers); FALSE: each handler runs to completion
    None          \* no session

AllOperations ==
    {"configure", "deploy", "edit", "drop", "delete", "abandon", "action"}
AllFaults == {"loss", "trust", "report"}

ASSUME ConstantsAssumption ==
    /\ MaxTasks \in Nat
    /\ Operations \subseteq AllOperations
    /\ Faults \subseteq AllFaults
    /\ Interleaved \in BOOLEAN
    /\ None \notin Sessions

-----------------------------------------------------------------------------
(* The data: what a description, a session row, a request and a task hold. *)

\* An object model: `deleted' when its Objects entry is None, the
\* applications in it, and the ObjectsCopy entry the engine adds.
Descriptions == [deleted : BOOLEAN, apps : SUBSET Apps,
                 copy : {"absent", "none", "present"}]
EmptyDescription == [deleted |-> FALSE, apps |-> {}, copy |-> "absent"]

SessionStates == {"opened", "deploying", "deployed", "deploy failure",
                  "deleting", "delete failure"}
\* A row is "unborn" before its insertion and "gone" after its deletion.
SessionRows == [state : SessionStates \cup {"unborn", "gone"},
                version : Nat, desc : Descriptions]
NoRow == [state |-> "unborn", version |-> 0, desc |-> EmptyDescription]

\* `seen' is the session row the handler works on: as it was read, or as it
\* is going to be inserted.
Locations == {"idle", "opening", "creating", "marking", "reading",
              "checking", "counting", "submitting", "editing", "saving",
              "dropping"}
RequestRecords == [pc : Locations, op : AllOperations \cup {None},
                   session : Sessions \cup {None}, seen : SessionRows]
IdleRequest == [pc |-> "idle", op |-> None, session |-> None, seen |-> NoRow]

\* A task row (finished, errors), its message and result (session, desc,
\* action, model, exception, report) and the state of the handler of that
\* result (version, failed).  `session' is not in the code's messages: it
\* records which session the task was submitted for.
Stages == {"none", "saved", "queued", "running", "result", "loaded",
           "stored", "closing", "done", "lost"}
TaskRecords == [stage : Stages, session : Sessions \cup {None},
                desc : Descriptions, action : BOOLEAN, model : BOOLEAN,
                exception : BOOLEAN, report : {"none", "sent", "handled"},
                version : Nat, failed : BOOLEAN,
                finished : BOOLEAN, errors : BOOLEAN]
NoTask == [stage |-> "none", session |-> None, desc |-> EmptyDescription,
           action |-> FALSE, model |-> TRUE, exception |-> FALSE,
           report |-> "none", version |-> 0, failed |-> FALSE,
           finished |-> FALSE, errors |-> FALSE]

VARIABLES
    env,       \* the environment row
    sessions,  \* the session rows
    newer,     \* <<s, t>>: row s was updated after row t
    known,     \* sessions whose identifier a client has been given
    requests,  \* the API handlers
    tasks,     \* the tasks, in the order of their `started' column
    created,   \* how many tasks were submitted
    live       \* resources of the environment exist in the cloud

database == <<env, sessions, newer>>
vars == <<env, sessions, newer, known, requests, tasks, created, live>>

Tasks == 1 .. MaxTasks

TypeOK ==
    /\ env \in [exists : BOOLEAN, version : Nat, desc : Descriptions]
    /\ sessions \in [Sessions -> SessionRows]
    /\ newer \in SUBSET (Sessions \X Sessions)
    /\ known \in SUBSET Sessions
    /\ requests \in [Requests -> RequestRecords]
    /\ tasks \in [Tasks -> TaskRecords]
    /\ created \in 0 .. MaxTasks
    /\ live \in BOOLEAN

Init ==
    /\ env = [exists |-> TRUE, version |-> 0, desc |-> EmptyDescription]
    /\ sessions = [s \in Sessions |-> NoRow]
    /\ newer = {}
    /\ known = {}
    /\ requests = [r \in Requests |-> IdleRequest]
    /\ tasks = [i \in Tasks |-> NoTask]
    /\ created = 0
    /\ live = FALSE

-----------------------------------------------------------------------------
(* Queries *)

Unborn == {s \in Sessions : sessions[s].state = "unborn"}
Rows == {s \in Sessions : sessions[s].state \in SessionStates}
InState(state) == {s \in Sessions : sessions[s].state = state}

\* get_sessions lists the rows by version, then by time of update, latest
\* first: s comes before t.
Before_mutant(s, t) ==  \* oldest version first
    \/ sessions[s].version < sessions[t].version
    \/ sessions[s].version = sessions[t].version /\ <<s, t>> \in newer
Before(s, t) ==
    \/ sessions[s].version > sessions[t].version
    \/ sessions[s].version = sessions[t].version /\ <<s, t>> \in newer

\* EnvironmentServices.get_status: the first session that is not merely
\* opened decides, and a deployed one gives way to sessions opened since.
Status ==
    LET decisive == Rows \ InState("opened")
        first == {s \in decisive : \A t \in decisive \ {s} : Before(s, t)}
        over == {s \in first : sessions[s].state = "deployed"}
        pending == {s \in InState("opened") : \A t \in over : Before(s, t)}
    IN  IF first \ over # {}
        THEN sessions[CHOOSE s \in first : TRUE].state
        ELSE IF pending # {} THEN "pending" ELSE "ready"

\* No session may be opened then.
Busy_mutant == Status = "deploying"
Busy == Status \in {"deploying", "deleting"}

\* SessionServices.validate, its two queries: the session is not older than
\* the environment, and an opened session finds no deploying one.
VersionValid_mutant(row) == env.version <= row.version + 1
VersionValid(row) == env.version <= row.version
CountValid_mutant(row) == TRUE
CountValid(row) == row.state = "opened" => InState("deploying") = {}
Valid(row) == VersionValid(row) /\ CountValid(row)

\* EnvironmentServices.get_environment_description with a session.
CurrentDescription(s) ==
    IF Valid(sessions[s]) /\ sessions[s].state # "deployed"
    THEN sessions[s].desc ELSE env.desc

\* The result handlers that are past their first query.
Handling == {"loaded", "stored", "closing"}
MidHandler == \/ \E r \in Requests : requests[r].pc # "idle"
              \/ \E i \in Tasks : tasks[i].stage \in Handling
MayStart == Interleaved \/ ~MidHandler

-----------------------------------------------------------------------------
(* Effects *)

\* Inserting or updating the row of s makes it the most recently updated.
Touch(s) ==
    newer' = {p \in newer : p[2] # s} \cup ({s} \X (Rows \ {s}))

Finish(r) == requests' = [requests EXCEPT ![r] = IdleRequest]
Goto(r, pc) == requests' = [requests EXCEPT ![r].pc = pc]
Enter(r, op, pc) ==
    requests' = [requests EXCEPT ![r] = [IdleRequest EXCEPT !.pc = pc,
                                                            !.op = op]]
\* The handler keeps the row of s as it is now.
Load_mutant(r, op, s) ==  \* the description of the environment instead
    requests' = [requests EXCEPT ![r] =
        [pc |-> "checking", op |-> op, session |-> s,
         seen |-> [sessions[s] EXCEPT !.desc = env.desc]]]
Load(r, op, s) ==
    requests' = [requests EXCEPT ![r] =
        [pc |-> "checking", op |-> op, session |-> s, seen |-> sessions[s]]]

\* Environments.remove: the sessions and the tasks go with the environment.
RemoveEnvironment ==
    /\ env' = [env EXCEPT !.exists = FALSE]
    /\ sessions' = [s \in Sessions |->
           IF s \in Rows THEN [NoRow EXCEPT !.state = "gone"] ELSE sessions[s]]
    /\ newer' = {}

-----------------------------------------------------------------------------
(* Opening a session: POST configure, and the first half of DELETE         *)
(* environment and of POST actions.                                        *)

\* check_env and get_status.  (Bound: identifiers not used up.)
BeginOpen(r, op) ==
    /\ op \in Operations /\ MayStart /\ requests[r].pc = "idle"
    /\ env.exists /\ ~Busy
    /\ Unborn # {}
    /\ Enter(r, op, "opening")
    /\ UNCHANGED <<database, known, tasks, created, live>>

\* SessionServices.create reads the version and description to start from.
ReadEnvironment(r) ==
    /\ requests[r].pc = "opening"
    /\ IF env.exists
       THEN requests' = [requests EXCEPT
                ![r].pc = "creating",
                ![r].seen = [state |-> "opened", version |-> env.version,
                             desc |-> env.desc]]
       ELSE Finish(r)
    /\ UNCHANGED <<database, known, tasks, created, live>>

\* ... and inserts the row.  Only configure answers with its identifier.
CreateSession(r) ==
    /\ requests[r].pc = "creating"
    /\ \/ /\ ~env.exists
          /\ Finish(r)
          /\ UNCHANGED <<database, known>>
       \/ /\ env.exists
          /\ \E s \in Unborn :
                /\ sessions' = [sessions EXCEPT ![s] = requests[r].seen]
                /\ Touch(s)
                /\ IF requests[r].op = "configure"
                   THEN Finish(r) /\ known' = known \cup {s}
                   ELSE /\ requests' = [requests EXCEPT
                               ![r].session = s,
                               ![r].pc = IF requests[r].op = "delete"
                                         THEN "marking" ELSE "checking"]
                        /\ UNCHANGED known
          /\ UNCHANGED env
    /\ UNCHANGED <<tasks, created, live>>

\* EnvironmentServices.delete empties the description of the session.
MarkDeleted(r) ==
    LET s == requests[r].session IN
    /\ requests[r].pc = "marking"
    /\ IF s \in Rows
       THEN /\ sessions' = [sessions EXCEPT ![s].desc =
                   [CurrentDescription(s) EXCEPT !.deleted = TRUE, !.apps = {}]]
            /\ Touch(s)
            /\ Goto(r, "reading")
       ELSE Finish(r) /\ UNCHANGED <<sessions, newer>>
    /\ UNCHANGED <<env, known, tasks, created, live>>

-----------------------------------------------------------------------------
(* Deploying a session, and the checks every use of a session begins with. *)

\* POST deploy, and the services handlers with their verify_session.
BeginUse(r, op) ==
    /\ op \in Operations /\ MayStart /\ requests[r].pc = "idle"
    /\ \E s \in known \cap Rows : Load(r, op, s)
    /\ UNCHANGED <<database, known, tasks, created, live>>

\* DELETE environment goes on to deploy the session it has marked.
ReadSession(r) ==
    /\ requests[r].pc = "reading"
    /\ IF requests[r].session \in Rows
       THEN Load(r, requests[r].op, requests[r].session)
       ELSE Finish(r)
    /\ UNCHANGED <<database, known, tasks, created, live>>

\* validate, first query: the version of the environment.
CheckVersion(r) ==
    /\ requests[r].pc = "checking"
    /\ IF env.exists /\ VersionValid(requests[r].seen)
       THEN Goto(r, "counting") ELSE Finish(r)
    /\ UNCHANGED <<database, known, tasks, created, live>>

\* What the handler requires of the state: deploy wants an opened session,
\* verify_session one that is not deploying.
Accepts_mutant(op, state) == TRUE
Accepts(op, state) ==
    CASE op = "edit" -> state # "deploying"
      [] op = "action" -> TRUE
      [] OTHER -> state = "opened"

\* validate, second query, and the check of the state.
CheckSessions(r) ==
    LET row == requests[r].seen
        op == requests[r].op
    IN  /\ requests[r].pc = "counting"
        /\ IF CountValid(row) /\ Accepts(op, row.state)
           THEN Goto(r, IF op = "edit" THEN "editing" ELSE "submitting")
           ELSE Finish(r)
        /\ UNCHANGED <<database, known, tasks, created, live>>

\* A model to delete of which nothing was ever deployed.
NothingDeployed_mutant(desc) == desc.deleted
NothingDeployed(desc) == desc.deleted /\ desc.copy = "absent"

\* EnvironmentServices.deploy removes such an environment at once.
RemoveUndeployed(r) ==
    /\ requests[r].pc = "submitting" /\ requests[r].op # "action"
    /\ NothingDeployed(requests[r].seen.desc)
    /\ RemoveEnvironment
    /\ Finish(r)
    /\ UNCHANGED <<known, tasks, created, live>>

\* update_task: the state of the session and the new task, in a single
\* transaction, from the row read earlier.  (Bound: MaxTasks.)
Submit(r) ==
    LET s == requests[r].session
        desc == requests[r].seen.desc
        action == requests[r].op = "action"
    IN  /\ requests[r].pc = "submitting"
        /\ IF action THEN desc.deleted => desc.copy = "present"
                     ELSE ~NothingDeployed(desc)
        /\ s \in Rows /\ created < MaxTasks
        /\ sessions' = [sessions EXCEPT ![s].state =
               IF desc.deleted THEN "deleting" ELSE "deploying"]
        /\ Touch(s)
        /\ tasks' = [tasks EXCEPT ![created + 1] =
               [NoTask EXCEPT !.stage = "saved", !.session = s, !.desc = desc,
                              !.action = action \/ ~desc.deleted]]
        /\ created' = created + 1
        /\ Finish(r)
        /\ UNCHANGED <<env, known, live>>

\* The row to update is gone; or ActionServices.execute finds no action of
\* that name, or a disabled one, and its session stays opened.
FailToSubmit(r) ==
    /\ requests[r].pc = "submitting"
    /\ \/ requests[r].session \notin Rows
       \/ requests[r].op = "action"
    /\ Finish(r)
    /\ UNCHANGED <<database, known, tasks, created, live>>

-----------------------------------------------------------------------------
(* Editing and dropping a session, abandoning the environment. *)

\* The services handlers read the object model they are going to change.
ReadModel(r) ==
    LET s == requests[r].session IN
    /\ requests[r].pc = "editing"
    /\ IF s \in Rows /\ ~CurrentDescription(s).deleted
       THEN requests' = [requests EXCEPT
                ![r].pc = "saving", ![r].seen.desc = CurrentDescription(s)]
       ELSE Finish(r)
    /\ UNCHANGED <<database, known, tasks, created, live>>

\* save_environment_description puts the changed model in the row.
SavedRow_mutant(r, apps) ==  \* the row as it was read
    [requests[r].seen EXCEPT !.desc.deleted = FALSE, !.desc.apps = apps]
SavedRow(r, apps) ==
    [sessions[requests[r].session] EXCEPT !.desc.deleted = FALSE,
                                          !.desc.apps = apps]
SaveModel(r) ==
    LET s == requests[r].session
        apps == requests[r].seen.desc.apps
    IN  /\ requests[r].pc = "saving"
        /\ \/ /\ s \notin Rows
              /\ UNCHANGED <<sessions, newer>>
           \/ /\ s \in Rows
              /\ \E a \in Apps : \E changed \in {apps \cup {a}, apps \ {a}} :
                    sessions' = [sessions EXCEPT ![s] = SavedRow(r, changed)]
              /\ Touch(s)
        /\ Finish(r)
        /\ UNCHANGED <<env, known, tasks, created, live>>

\* DELETE session: refused while it is deploying ...
BeginDrop(r) ==
    /\ "drop" \in Operations /\ MayStart /\ requests[r].pc = "idle"
    /\ \E s \in (known \cap Rows) \ InState("deploying") :
          requests' = [requests EXCEPT ![r] =
              [IdleRequest EXCEPT !.pc = "dropping", !.op = "drop",
                                  !.session = s]]
    /\ UNCHANGED <<database, known, tasks, created, live>>

\* ... and else deleted, in whatever state it is by now.
DropSession(r) ==
    LET s == requests[r].session IN
    /\ requests[r].pc = "dropping"
    /\ sessions' = [sessions EXCEPT ![s] = [NoRow EXCEPT !.state = "gone"]]
    /\ newer' = {p \in newer : s \notin {p[1], p[2]}}
    /\ Finish(r)
    /\ UNCHANGED <<env, known, tasks, created, live>>

\* DELETE environment with abandon=true.
Abandon(r) ==
    /\ "abandon" \in Operations /\ MayStart /\ requests[r].pc = "idle"
    /\ env.exists
    /\ RemoveEnvironment
    /\ UNCHANGED <<known, requests, tasks, created, live>>

\* The process that serves the request stops between two transactions.
CrashRequest(r) ==
    /\ "loss" \in Faults /\ requests[r].pc # "idle"
    /\ Finish(r)
    /\ UNCHANGED <<database, known, tasks, created, live>>

-----------------------------------------------------------------------------
(* The orchestration engine, as the API sees it. *)

Move(i, from, to) ==
    /\ tasks[i].stage = from
    /\ tasks' = [tasks EXCEPT ![i].stage = to]
    /\ UNCHANGED <<database, known, requests, created, live>>

\* rpc.engine().handle_task, the last call of the handler that submits.
Cast(i) == Move(i, "saved", "queued")
\* TaskProcessingEndpoint.handle_task picks the message up.
Start(i) == Move(i, "queued", "running")

\* TaskExecutor.execute ends and process_result is called.
Answer(i, desc, exception, reports, model) ==
    /\ tasks[i].stage = "running"
    /\ tasks' = [tasks EXCEPT
           ![i].stage = "result", ![i].desc = desc, ![i].model = model,
           ![i].exception = exception,
           ![i].report = IF reports THEN "sent" ELSE "none"]
    /\ UNCHANGED <<database, known, requests, created>>

\* The object model was loaded, unreferenced objects were destroyed (all of
\* them when Objects is None) and the action, if any, was run.
Complete(i) ==
    LET desc == tasks[i].desc IN
    /\ ~(desc.deleted /\ tasks[i].action)
    /\ \E exception \in (IF tasks[i].action THEN BOOLEAN ELSE {FALSE}) :
       \E reports \in (IF "report" \in Faults THEN {exception, TRUE}
                                              ELSE {FALSE}) :
          Answer(i, [desc EXCEPT !.copy =
                        IF desc.deleted THEN "none" ELSE "present"],
                 exception, reports, TRUE)
    /\ live' = ~desc.deleted

\* Loading, validation or the destruction of unreferenced objects failed:
\* the model goes back as it came.  When the executor is left it destroys the
\* objects that were loaded.
FailEarly(i) ==
    /\ Answer(i, tasks[i].desc, TRUE, "report" \in Faults, TRUE)
    /\ live' \in {live, FALSE}

\* The trust could not be created: the result has no model.
FailTrust(i) ==
    /\ "trust" \in Faults
    /\ Answer(i, tasks[i].desc, TRUE, "report" \in Faults, FALSE)
    /\ UNCHANGED live

\* An action run without an object model: finalize returns None, on which
\* execute fails after everything was destroyed.  No result is sent.
FailWithoutModel(i) ==
    /\ tasks[i].stage = "running"
    /\ tasks[i].desc.deleted /\ tasks[i].action
    /\ tasks' = [tasks EXCEPT ![i].stage = "lost"]
    /\ live' = FALSE
    /\ UNCHANGED <<database, known, requests, created>>

\* The message or its receiver is lost: the API process before the cast or
\* while it handles the result, the engine at any time while it runs the task.
Lose(i) ==
    /\ "loss" \in Faults
    /\ tasks[i].stage \in {"saved", "queued", "running", "result"} \cup Handling
    /\ tasks' = [tasks EXCEPT ![i].stage = "lost"]
    /\ live' \in IF tasks[i].stage = "running"
                THEN {live, live \/ ~tasks[i].desc.deleted, FALSE} ELSE {live}
    /\ UNCHANGED <<database, known, requests, created>>

-----------------------------------------------------------------------------
(* ResultEndpoint.process_result, and the reports of the engine. *)

\* The environment is read: a result without model raises KeyError, one for
\* an environment that is gone is ignored, one that says that everything is
\* destroyed removes the environment.
LoadResult(i) ==
    LET destroyed == tasks[i].desc.deleted /\ tasks[i].desc.copy = "none"
        update == tasks[i].model /\ env.exists /\ ~destroyed
    IN  /\ tasks[i].stage = "result" /\ MayStart
        /\ tasks' = [tasks EXCEPT
               ![i].stage = IF update THEN "loaded" ELSE "done",
               ![i].version = IF update THEN env.version ELSE 0]
        /\ IF tasks[i].model /\ env.exists /\ destroyed
           THEN RemoveEnvironment ELSE UNCHANGED database
        /\ UNCHANGED <<known, requests, created, live>>

\* First commit: the new description, and the version read plus one.
NextVersion(i) == tasks[i].version + 1
StoreResult(i) ==
    /\ tasks[i].stage = "loaded"
    /\ tasks' = [tasks EXCEPT
           ![i].stage = IF env.exists THEN "stored" ELSE "done"]
    /\ IF env.exists
       THEN env' = [env EXCEPT !.version = NextVersion(i),
                               !.desc = tasks[i].desc]
       ELSE UNCHANGED env
    /\ UNCHANGED <<sessions, newer, known, requests, created, live>>

\* Second commit: the task started last is finished, whichever it is, and
\* the error reports found with it are counted.
FinishTask(i) ==
    /\ tasks[i].stage = "stored"
    /\ tasks' = IF env.exists
                THEN [tasks EXCEPT
                         ![created].finished = TRUE,
                         ![i].stage = "closing",
                         ![i].failed = \/ tasks[i].exception
                                       \/ tasks[created].errors]
                ELSE [tasks EXCEPT ![i].stage = "done"]
    /\ UNCHANGED <<database, known, requests, created, live>>

\* Third commit: the first session found deploying (or deleting) is closed.
\* With none left the handler raises AttributeError.
UnderWay_mutant(deleted) == "deploying"
UnderWay(deleted) == IF deleted THEN "deleting" ELSE "deploying"
CloseSession(i) ==
    LET deleted == tasks[i].desc.deleted
        open == InState(UnderWay(deleted))
        outcome == IF ~tasks[i].failed THEN "deployed"
                   ELSE IF deleted THEN "delete failure" ELSE "deploy failure"
    IN  /\ tasks[i].stage = "closing"
        /\ tasks' = [tasks EXCEPT ![i].stage = "done"]
        /\ \/ /\ open = {}
              /\ UNCHANGED <<sessions, newer>>
           \/ \E s \in open :
                /\ sessions' = [sessions EXCEPT ![s].state = outcome]
                /\ Touch(s)
        /\ UNCHANGED <<env, known, requests, created, live>>

\* report_notification adds the status to the task started last.
HandleReport(i) ==
    /\ tasks[i].report = "sent" /\ MayStart
    /\ tasks' = IF env.exists
                THEN [tasks EXCEPT ![created].errors = TRUE,
                                   ![i].report = "handled"]
                ELSE [tasks EXCEPT ![i].report = "handled"]
    /\ UNCHANGED <<database, known, requests, created, live>>

-----------------------------------------------------------------------------
RequestStep(r) ==
    \/ ReadEnvironment(r) \/ CreateSession(r) \/ MarkDeleted(r)
    \/ ReadSession(r) \/ CheckVersion(r) \/ CheckSessions(r)
    \/ RemoveUndeployed(r) \/ Submit(r) \/ FailToSubmit(r)
    \/ ReadModel(r) \/ SaveModel(r) \/ DropSession(r)

ClientCall(r) ==
    \/ \E op \in {"configure", "delete", "action"} : BeginOpen(r, op)
    \/ \E op \in {"deploy", "edit"} : BeginUse(r, op)
    \/ BeginDrop(r) \/ Abandon(r)

EngineStep(i) ==
    Start(i) \/ Complete(i) \/ FailEarly(i) \/ FailTrust(i) \/ FailWithoutModel(i)

ResultStep(i) ==
    LoadResult(i) \/ StoreResult(i) \/ FinishTask(i) \/ CloseSession(i)

Next ==
    \/ \E r \in Requests : ClientCall(r) \/ RequestStep(r) \/ CrashRequest(r)
    \/ \E i \in Tasks : \/ Cast(i) \/ EngineStep(i) \/ ResultStep(i)
                        \/ HandleReport(i) \/ Lose(i)

Spec == Init /\ [][Next]_vars

\* Handlers go on, the engine takes every queued task and ends its run, and
\* results are delivered; clients need not call, nothing need be lost.
Fairness ==
    /\ \A r \in Requests : WF_vars(RequestStep(r))
    /\ \A i \in Tasks : WF_vars(Cast(i) \/ EngineStep(i) \/ ResultStep(i))

FairSpec == Spec /\ Fairness

-----------------------------------------------------------------------------
(* Properties of handlers that run to completion one after the other. *)

\* "Only one session going to be deployed": update_task never leaves two
\* sessions of the environment deploying.
OneDeployment ==
    \A s, t \in InState("deploying") : s = t

\* "One session could be deployed only once": no session gets a second task.
DeployedOnce ==
    \A i, j \in Tasks :
        tasks[i].stage # "none" /\ tasks[i].session = tasks[j].session => i = j

\* A session whose deployment or deletion begins was opened at the present
\* version of the environment: it cannot undo what was deployed since.
CurrentDeployed ==
    [][\A s \in Sessions :
          /\ sessions[s].state = "opened"
          /\ sessions'[s].state \in {"deploying", "deleting"}
          => sessions[s].version = env.version]_vars

\* The task process_result finishes, the one started last, is the one the
\* result belongs to.
FinishedByOwnResult ==
    \A i \in Tasks : tasks[i].finished => tasks[i].stage \in {"closing", "done", "lost"}

\* process_result, which finishes the task started last and closes any session
\* it finds deploying, means the task and the session of its result.
ResultsAreOwn ==
    [][/\ FinishedByOwnResult'
       /\ \A s \in Sessions :
             /\ sessions[s].state = "deploying"
             /\ sessions'[s].state \in {"deployed", "deploy failure"}
             => \E i \in Tasks : /\ tasks[i].session = s
                                 /\ tasks[i].stage = "closing"
                                 /\ tasks'[i].stage = "done"]_vars

\* get_status tells of a deployment that is going on.
StatusShowsDeployment ==
    InState("deploying") # {} => Status = "deploying"

\* An environment that is not abandoned is removed from the database only
\* when none of its resources exist (and none are created afterwards).
NoOrphanResources ==
    env.exists \/ ~live

\* As long as clients call only what asks get_status first (configure,
\* delete and actions, not deploy), a session that is deploying or deleting
\* is the only one.
ExclusiveDeployment ==
    \A s, t \in InState("deploying") \cup InState("deleting") : s = t

-----------------------------------------------------------------------------
(* Properties of handlers that interleave. *)

\* However many handlers submit and close, no more sessions are deploying
\* (deleting) than there are tasks whose results are still to close one.
EverySessionAwaitsResult ==
    \A deleted \in BOOLEAN :
        Cardinality({s \in Sessions : sessions[s].state =
                         IF deleted THEN "deleting" ELSE "deploying"})
        <= Cardinality({i \in Tasks : /\ tasks[i].desc.deleted = deleted
                                      /\ tasks[i].stage \notin {"none", "done"}})

\* A session once submitted is never open again, whatever a handler that
\* read it before writes to it.
NeverReopened ==
    [][\A s \in Sessions :
          sessions[s].state \notin {"unborn", "opened"}
          => sessions'[s].state # "opened"]_vars

\* A deployment or deletion comes to an end.
EverySessionCloses ==
    \A s \in Sessions : sessions[s].state \in {"deploying", "deleting"}
                        ~> sessions[s].state \notin {"deploying", "deleting"}
=============================================================================
