------------------------------- MODULE HeatStacks -------------------------------
(***************************************************************************)
(* The HeatStack object of an environment and the stack that Heat keeps    *)
(* for it.  The methods of the object are called by green threads, which   *)
(* other threads may interrupt at every call of Heat and while they wait;  *)
(* between two of these a method is not interrupted.                       *)
(*                                                                         *)
(* A template is the set of the resources in it, with "version" for the    *)
(* keys that push adds.  Parameters, files and the environment file are    *)
(* sent along with it and abstracted to the flag that they clear; they are *)
(* cleared with the template and read with it.  Templates of a version     *)
(* that is not supported are refused before anything is changed.           *)
(***************************************************************************)
EXTENDS Naturals, FiniteSets

CONSTANTS
    Resources,
    Callers,       \* green threads that call methods of the object
    MaxOperations, \* bound: operations that Heat accepts, others' included
    MaxMethods     \* bound: methods called

ASSUME HeatAssumption == "version" \notin Resources

VARIABLES
    template,   \* _template of the object; Unknown if it was not loaded
    applied,    \* _applied
    stamps,     \* _last_stack_timestamps; 0 for (None, None)
    caller,     \* what each thread is doing
    stack,      \* the stack in Heat
    operations, \* how many operations there were; the clock of Heat
    methods,    \* how many methods were called
    raced       \* history: methods overlapped, or gave up deleting

heat == <<template, applied, stamps, caller, stack, operations, methods, raced>>

Unknown == {"unknown"}
Templates == SUBSET Resources
NoStack == [status |-> "NOT_FOUND", template |-> {}, stamp |-> 0]
Settled == {"CREATE_COMPLETE", "CREATE_FAILED", "UPDATE_COMPLETE",
            "UPDATE_FAILED", "DELETE_FAILED", "NOT_FOUND"}
InProgress == stack.status \notin Settled

\* `copy' is the template a push sends, `status' what _get_status returned;
\* `goal', `progress' and `tries' belong to _wait_state, after which the
\* thread goes on at `next'.  `in' is the method called.
Resting == [in |-> "none", pc |-> "rest", update |-> {}, copy |-> {},
            status |-> "none", goal |-> {}, progress |-> FALSE, tries |-> 0,
            next |-> "none"]
Busy == {c \in Callers : caller[c].in # "none"}
Tries == 4

HeatInit ==
    /\ template = Unknown /\ applied = TRUE /\ stamps = 0
    /\ caller = [c \in Callers |-> Resting]
    /\ stack = NoStack /\ operations = 0 /\ methods = 0 /\ raced = FALSE

To(c, pc) == [caller[c] EXCEPT !.pc = pc]
Become(c, r) == caller' = [caller EXCEPT ![c] = r]
\* _wait_state(status in goal, progress), then on to `next'.
Await(c, goal, progress, next) ==
    [caller[c] EXCEPT !.pc = "wait", !.goal = goal, !.progress = progress,
                      !.tries = Tries, !.next = next]

Call(c, method) ==
    /\ caller[c].in = "none" /\ methods < MaxMethods
    /\ methods' = methods + 1
    /\ Become(c, method)
\* The method waits for Heat while others are in theirs.
Overlaps == raced' = (raced \/ Busy # {})

-----------------------------------------------------------------------------
(* current, reload, set_template, set_parameters, update_template *)

\* set_template; set_parameters, set_files and set_hot_environment only clear
\* the flag.
Set(c) ==
    /\ Call(c, caller[c])
    /\ \E t \in Templates \cup {template} : template' = t
    /\ applied' = FALSE
    /\ UNCHANGED <<stamps, stack, operations, raced>>

Merge(base, update) ==
    /\ template' = base \cup update
    /\ applied' = (template' = base /\ applied)

\* update_template and reload ask Heat for what is not known.
BeginUpdateTemplate(c) ==
    \E update \in Templates :
        IF template = Unknown
        THEN /\ Call(c, [Resting EXCEPT !.in = "update", !.pc = "load", !.update = update])
             /\ Overlaps /\ UNCHANGED <<template, applied, stamps, stack, operations>>
        ELSE /\ Call(c, caller[c]) /\ Merge(template, update)
             /\ UNCHANGED <<stamps, stack, operations, raced>>

Reload(c) ==
    /\ Call(c, [Resting EXCEPT !.in = "reload", !.pc = "load"])
    /\ template' = Unknown
    /\ Overlaps /\ UNCHANGED <<applied, stamps, stack, operations>>

\* The template of the stack, or none.  (Both calls of Heat are one step.)
Loaded == IF stack.status = "NOT_FOUND" THEN {} ELSE stack.template
Load(c) ==
    /\ caller[c].pc = "load"
    /\ CASE caller[c].in = "update" ->
              /\ template' = Loaded \cup caller[c].update
              /\ applied' = (template' = Loaded)
              /\ Become(c, Resting)
         [] caller[c].in = "reload" ->
              template' = Loaded /\ applied' = TRUE /\ Become(c, Resting)
         [] OTHER ->
              template' = Loaded /\ applied' = TRUE /\ Become(c, To(c, "delete"))
    /\ UNCHANGED <<stamps, stack, operations, methods, raced>>

\* An error of Heat that is not handled ends the method; what a delete has
\* begun goes on without it.
Raise(c) ==
    /\ Become(c, Resting)
    /\ raced' = (raced \/ caller[c].next = "deleted")
LoadFails(c) ==
    /\ caller[c].pc = "load" /\ Raise(c)
    /\ UNCHANGED <<template, applied, stamps, stack, operations, methods>>

-----------------------------------------------------------------------------
(* _wait_state *)

\* Heat does not answer: after four errors in a row the method fails.
PollFails(c) ==
    /\ caller[c].pc = "wait"
    /\ IF caller[c].tries = 1 THEN Raise(c)
       ELSE Become(c, [caller[c] EXCEPT !.tries = @ - 1]) /\ UNCHANGED raced
    /\ UNCHANGED <<template, applied, stamps, stack, operations, methods>>

\* Heat answers: while it is at work, or shows no progress, ask again.
Poll(c) ==
    LET w == caller[c]
        same == w.progress /\ stamps = stack.stamp /\ stamps # 0
    IN  /\ w.pc = "wait"
        /\ stamps' = IF InProgress THEN stamps ELSE stack.stamp
        /\ IF InProgress \/ same
           THEN Become(c, [w EXCEPT !.tries = Tries]) /\ UNCHANGED raced
           ELSE IF stack.status \in w.goal
           THEN Become(c, [w EXCEPT !.pc = w.next, !.status = stack.status, !.next = "none"])
                /\ UNCHANGED raced
           ELSE Raise(c)
        /\ UNCHANGED <<template, applied, stack, operations, methods>>

\* output
Output(c) ==
    /\ Call(c, [Resting EXCEPT !.in = "output", !.pc = "wait", !.goal = Settled,
                               !.tries = Tries, !.next = "done"])
    /\ Overlaps /\ UNCHANGED <<template, applied, stamps, stack, operations>>

-----------------------------------------------------------------------------
(* push and delete *)

BeginPush(c) ==
    /\ ~applied /\ template # Unknown
    /\ template' = template \cup {"version"}
    /\ Call(c, [Resting EXCEPT !.in = "push", !.copy = template', !.pc = "status"])
    /\ Overlaps /\ UNCHANGED <<applied, stamps, stack, operations>>

GetStatus(c) ==
    /\ caller[c].pc = "status"
    /\ Become(c, Await(c, Settled, FALSE, "send"))
    /\ UNCHANGED <<template, applied, stamps, stack, operations, methods, raced>>

HasResources(t) == t \ {"version"} # {}
\* An operation that Heat accepts; it refuses one while it is at work on the
\* stack, and another of that name: the thread begins again at `again'.
Request(c, status, t, then, again) ==
    /\ IF InProgress \/ (status = "CREATE_IN_PROGRESS") # (stack.status = "NOT_FOUND")
       THEN Become(c, To(c, again)) /\ UNCHANGED <<stack, operations>>
       ELSE /\ operations < MaxOperations /\ operations' = operations + 1
            /\ stack' = [status |-> status, template |-> t, stamp |-> stack.stamp]
            /\ Become(c, then)
    /\ UNCHANGED <<template, applied, stamps, methods>>

\* A stack that has gone before it can be updated is an error.
Send(c) ==
    LET w == caller[c] IN
    /\ w.pc = "send"
    /\ CASE w.status = "NOT_FOUND" /\ HasResources(w.copy) ->
              /\ Request(c, "CREATE_IN_PROGRESS", w.copy,
                         Await(c, {"CREATE_COMPLETE"}, FALSE, "finish"), "status")
              /\ UNCHANGED raced
         [] w.status # "NOT_FOUND" /\ HasResources(w.copy) ->
              IF stack.status = "NOT_FOUND"
              THEN Raise(c) /\ UNCHANGED <<template, applied, stamps, stack, operations, methods>>
              ELSE /\ Request(c, "UPDATE_IN_PROGRESS", w.copy,
                              Await(c, {"UPDATE_COMPLETE"}, TRUE, "finish"), "status")
                   /\ UNCHANGED raced
         [] OTHER ->
              /\ Become(c, To(c, IF w.status = "NOT_FOUND" THEN "finish" ELSE "delete"))
              /\ UNCHANGED <<template, applied, stamps, stack, operations, methods, raced>>

\* What was set while the stack was changed is left to the next push.
AppliedBy_mutant(copy) == TRUE
AppliedBy(copy) == template = copy
FinishPush(c) ==
    /\ caller[c].pc = "finish"
    /\ applied' = AppliedBy(caller[c].copy)
    /\ Become(c, Resting)
    /\ UNCHANGED <<template, stamps, stack, operations, methods, raced>>

BeginStackDelete(c) ==
    /\ Call(c, [Resting EXCEPT !.in = "delete", !.pc = "delete"])
    /\ Overlaps /\ UNCHANGED <<template, applied, stamps, stack, operations>>

StateAfter(c) == IF caller[c].in = "push" THEN To(c, "finish") ELSE Resting
\* Without a template there is nothing to delete.
DeleteKnown(c) ==
    /\ caller[c].pc = "delete"
    /\ Become(c, CASE template = Unknown -> To(c, "load")
                   [] template = {} -> StateAfter(c)
                   [] OTHER -> Await(c, Settled, FALSE, "senddelete"))
    /\ UNCHANGED <<template, applied, stamps, stack, operations, methods, raced>>

SendDelete(c) ==
    /\ caller[c].pc = "senddelete"
    /\ IF stack.status = "NOT_FOUND"
       THEN /\ Become(c, To(c, "deleted"))
            /\ UNCHANGED <<template, applied, stamps, stack, operations, methods>>
       ELSE Request(c, "DELETE_IN_PROGRESS", stack.template,
                    Await(c, {"NOT_FOUND"}, TRUE, "deleted"), "delete")
    /\ UNCHANGED raced

Deleted(c) ==
    /\ caller[c].pc = "deleted"
    /\ template' = {} /\ applied' = TRUE
    /\ Become(c, StateAfter(c))
    /\ UNCHANGED <<stamps, stack, operations, methods, raced>>

OutputDone(c) ==
    /\ caller[c].pc = "done" /\ Become(c, Resting)
    /\ UNCHANGED <<template, applied, stamps, stack, operations, methods, raced>>

\* Any other call of Heat may fail: the method ends with the error.
SendFails(c) ==
    /\ caller[c].pc \in {"send", "senddelete"} /\ Raise(c)
    /\ UNCHANGED <<template, applied, stamps, stack, operations, methods>>

-----------------------------------------------------------------------------
(* Heat *)

\* Heat finishes the operation it is at work on.
HeatWorks ==
    /\ InProgress
    /\ stack' \in
         CASE stack.status = "CREATE_IN_PROGRESS" ->
                {[stack EXCEPT !.status = s, !.stamp = operations] :
                    s \in {"CREATE_COMPLETE", "CREATE_FAILED"}}
           [] stack.status = "UPDATE_IN_PROGRESS" ->
                {[stack EXCEPT !.status = s, !.stamp = operations] :
                    s \in {"UPDATE_COMPLETE", "UPDATE_FAILED"}}
           [] stack.status = "DELETE_IN_PROGRESS" ->
                {NoStack, [stack EXCEPT !.status = "DELETE_FAILED", !.stamp = operations]}
    /\ UNCHANGED <<template, applied, stamps, caller, operations, methods, raced>>

HeatNext ==
    \/ \E c \in Callers :
          \/ Set(c) \/ BeginUpdateTemplate(c) \/ Reload(c)
          \/ Load(c) \/ LoadFails(c) \/ Poll(c) \/ PollFails(c) \/ Output(c)
          \/ BeginPush(c) \/ GetStatus(c) \/ Send(c) \/ SendFails(c) \/ FinishPush(c)
          \/ BeginStackDelete(c) \/ DeleteKnown(c) \/ SendDelete(c) \/ Deleted(c)
          \/ OutputDone(c)
    \/ HeatWorks

HeatSpec == HeatInit /\ [][HeatNext]_heat

-----------------------------------------------------------------------------
\* A template that counts as applied is the one Heat has, so that a push may
\* skip it: what is set or merged while a push waits for Heat is not taken
\* for applied when the push ends, and a push that fails is made again.
\* (Methods that wait for Heat at the same time, and a deletion that is given
\* up, break this.)
AppliedIsInHeat ==
    applied /\ template # Unknown /\ Busy = {} /\ ~raced =>
        template \ {"version"} = stack.template \ {"version"}
=============================================================================
