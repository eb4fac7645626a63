------------------------------ MODULE AgentCalls ------------------------------
(***************************************************************************)
(* Calls of agents on virtual machines during the execution of a task.     *)
(* A call subscribes to the result of its plan, sends the plan and waits   *)
(* on an event with a timeout; the receiver, a green thread that the first *)
(* subscription starts and the end of the session kills, takes results     *)
(* from the queue and sets events.                                         *)
(*                                                                         *)
(* A session starts and finishes twice in a task, for the clean-up and for *)
(* the action.  Green threads switch at network calls and at event.wait.   *)
(***************************************************************************)
EXTENDS Naturals, FiniteSets

CONSTANTS
    Calls,     \* the calls made in one execution
    Sends,     \* those that do not wait for a result (send, sendRaw)
    Built,     \* those whose plan is built in the format 2 (call, send)
    Ids,       \* identifiers a template may bring along
    Given,     \* the identifier in the template of each call, or None
    Faults,    \* a subset of AllFaults
    MaxAnswers,  \* bound: how often an agent may execute and answer a plan
    None

AllFaults == {"disconnect", "garbage"}

Keys == Calls \cup Ids

\* A result: the message has an identifier of its own and names the plan in
\* its body, unless the body is not JSON.
Messages == [source : Keys, from : Calls, valid : BOOLEAN]

ASSUME ConstantsAssumption ==
    /\ Sends \subseteq Calls /\ Built \subseteq Calls
    /\ Given \in [Calls -> Ids \cup {None}]
    /\ None \notin Keys \cup Messages /\ Calls \cap Ids = {}
    /\ Faults \subseteq AllFaults
    /\ MaxAnswers \in Nat

VARIABLES
    pc,             \* where each call is
    session,        \* what the task executor does
    subscriptions,  \* AgentListener._subscriptions: whose event it is
    event,          \* the result each event was sent
    receiver,       \* AgentListener._receive_thread
    broken,         \* the receiver of this session has failed
    hooks,          \* AgentListener.stop is called when the session finishes
    hand,           \* the message the receiver has taken and acknowledges
    declared,       \* the queue of results exists
    plans,          \* how often the plan of each call may still be answered
    results         \* messages in the queue of results

listener == <<subscriptions, event, receiver, broken, hooks, hand>>
broker == <<declared, plans, results>>
vars == <<pc, session, listener, broker>>

Ended == {"returned", "unsent", "timeout", "KeyError"}
InProgress == {"sending", "waiting"}
Alive == {"starting", "receiving"}

AgentTypeOK ==
    /\ pc \in [Calls -> {"idle"} \cup InProgress \cup Ended]
    /\ session \in {"cleaning", "between", "acting", "over"}
    /\ subscriptions \in [Keys -> Calls \cup {None}]
    /\ event \in [Calls -> Messages \cup {None}]
    /\ receiver \in Alive \cup {"none", "dead"}
    /\ broken \in BOOLEAN /\ hooks \in BOOLEAN /\ declared \in BOOLEAN
    /\ hand \in Messages \cup {None}
    /\ plans \in [Calls -> 0 .. MaxAnswers]
    /\ results \in SUBSET Messages

\* The queue may exist from an earlier execution: it is durable.
AgentInit ==
    /\ pc = [c \in Calls |-> "idle"]
    /\ session = "cleaning"
    /\ subscriptions = [k \in Keys |-> None]
    /\ event = [c \in Calls |-> None]
    /\ receiver = "none" /\ broken = FALSE /\ hooks = FALSE
    /\ hand = None
    /\ declared \in BOOLEAN
    /\ plans = [c \in Calls |-> 0] /\ results = {}

-----------------------------------------------------------------------------
(* The calls *)

\* A plan of format 2 gets a fresh identifier whatever its template says;
\* another keeps the one it has, if any.
PlanId_mutant(c) == IF Given[c] = None THEN c ELSE Given[c]
PlanId(c) == IF c \in Built \/ Given[c] = None THEN c ELSE Given[c]

\* Agent._send up to the sending, with AgentListener.subscribe and start.
Registered == TRUE
Begin(c) ==
    /\ pc[c] = "idle" /\ session \in {"cleaning", "acting"}
    /\ pc' = [pc EXCEPT ![c] = "sending"]
    /\ IF c \in Sends
       THEN UNCHANGED <<subscriptions, receiver, broken, hooks>>
       ELSE /\ subscriptions' = [subscriptions EXCEPT ![PlanId(c)] = c]
            /\ IF receiver = "none"
               THEN receiver' = "starting" /\ broken' = FALSE /\ hooks' = Registered
               ELSE UNCHANGED <<receiver, broken, hooks>>
    /\ UNCHANGED <<session, event, hand, broker>>

Send(c) ==
    /\ pc[c] = "sending"
    /\ plans' = [plans EXCEPT ![c] = MaxAnswers]
    /\ pc' = [pc EXCEPT ![c] = IF c \in Sends THEN "returned" ELSE "waiting"]
    /\ UNCHANGED <<session, listener, declared, results>>

\* The connection fails.  Nothing removes the subscription.
SendFails(c) ==
    /\ "disconnect" \in Faults /\ pc[c] = "sending"
    /\ pc' = [pc EXCEPT ![c] = "unsent"]
    /\ UNCHANGED <<session, listener, broker>>

\* The event was sent before the timer went off.
Return(c) ==
    /\ pc[c] = "waiting" /\ event[c] # None
    /\ pc' = [pc EXCEPT ![c] = "returned"]
    /\ UNCHANGED <<session, listener, broker>>

\* The timer goes off first, though the event may have been sent meanwhile:
\* then there is no subscription to remove and KeyError replaces
\* TimeoutException.
Unsubscribed(key) == [subscriptions EXCEPT ![key] = None]
TimeOut(c) ==
    /\ pc[c] = "waiting"
    /\ pc' = [pc EXCEPT ![c] =
           IF subscriptions[PlanId(c)] = None THEN "KeyError" ELSE "timeout"]
    /\ subscriptions' = Unsubscribed(PlanId(c))
    /\ UNCHANGED <<session, event, receiver, broken, hooks, hand, broker>>

-----------------------------------------------------------------------------
(* The agents and the broker.  An agent need not answer, and answers again *)
(* when its plan is delivered again; without the queue a result is lost.   *)

Answer(c) ==
    /\ plans[c] > 0
    /\ \E valid \in (IF "garbage" \in Faults THEN BOOLEAN ELSE {TRUE}) :
          results' = IF declared
                     THEN results \cup {[source |-> PlanId(c), from |-> c,
                                         valid |-> valid]}
                     ELSE results
    /\ plans' = [plans EXCEPT ![c] = @ - 1]
    /\ UNCHANGED <<pc, session, listener, declared>>

-----------------------------------------------------------------------------
(* The receiver *)

Declare ==
    /\ receiver = "starting"
    /\ receiver' = "receiving"
    /\ declared' = TRUE
    /\ UNCHANGED <<pc, session, subscriptions, event, broken, hooks, hand,
                   plans, results>>

Receive ==
    /\ receiver = "receiving" /\ hand = None
    /\ \E m \in results : hand' = m /\ results' = results \ {m}
    /\ UNCHANGED <<pc, session, subscriptions, event, receiver, broken, hooks,
                   declared, plans>>

\* The message is acknowledged: the event of its subscription, if there is
\* one, is sent and forgotten.  A body that is not JSON ends the thread.
Key_mutant(m) == m.from  \* the identifier of the message
Key(m) == m.source
Sent(m) == m
Dispatch ==
    LET key == Key(hand)
        waiter == subscriptions[key]
    IN  /\ hand # None
        /\ hand' = None
        /\ IF hand.valid
           THEN /\ IF waiter # None
                   THEN /\ subscriptions' = [subscriptions EXCEPT ![key] = None]
                        /\ event' = [event EXCEPT ![waiter] = Sent(hand)]
                   ELSE UNCHANGED <<subscriptions, event>>
                /\ UNCHANGED <<receiver, broken>>
           ELSE /\ receiver' = "dead" /\ broken' = TRUE
                /\ UNCHANGED <<subscriptions, event>>
        /\ UNCHANGED <<pc, session, hooks, broker>>

\* A message in hand goes back to the queue unless it was acknowledged.
PutBack ==
    /\ hand' = None
    /\ results' \in {results, results \cup ({hand} \ {None})}

\* The connection of the receiver fails.  Nothing starts another one.
Break ==
    /\ "disconnect" \in Faults /\ receiver \in Alive
    /\ receiver' = "dead" /\ broken' = TRUE
    /\ PutBack
    /\ UNCHANGED <<pc, session, subscriptions, event, hooks, declared, plans>>

-----------------------------------------------------------------------------
(* TaskExecutor: the session finishes when no call is in progress, since   *)
(* Parallel blocks wait for their branches.                                *)

\* AgentListener.stop: what it raises for a dead receiver is swallowed.
Stopped_mutant == "dead"
Stopped == "none"
FinishSession ==
    /\ session \in {"cleaning", "acting"}
    /\ \A c \in Calls : pc[c] \notin InProgress
    /\ session' = IF session = "cleaning" THEN "between" ELSE "over"
    /\ IF hooks
       THEN /\ receiver' = IF receiver = "none" THEN "none" ELSE Stopped
            /\ hooks' = FALSE
            /\ PutBack
       ELSE UNCHANGED <<receiver, hooks, hand, results>>
    /\ UNCHANGED <<pc, subscriptions, event, broken, declared, plans>>

\* There is an action to run, and the clean-up raised no exception.
StartAction ==
    /\ session = "between"
    /\ session' = "acting"
    /\ UNCHANGED <<pc, listener, broker>>

-----------------------------------------------------------------------------
CallStep(c) == Begin(c) \/ Send(c) \/ SendFails(c) \/ Return(c) \/ TimeOut(c)
ReceiverStep == Declare \/ Receive \/ Dispatch

AgentNext ==
    \/ \E c \in Calls : CallStep(c) \/ Answer(c)
    \/ ReceiverStep \/ Break
    \/ FinishSession \/ StartAction

AgentSpec == AgentInit /\ [][AgentNext]_vars

\* Green threads that can run do; timers need not go off.
AgentFairSpec ==
    /\ AgentSpec
    /\ \A c \in Calls : WF_vars(Send(c)) /\ WF_vars(Return(c))
    /\ WF_vars(ReceiverStep)

-----------------------------------------------------------------------------
(* Properties *)

\* A call whose plan is built in the format 2, or brings along no identifier
\* or one that no other raw plan has, is answered with the result of this
\* plan, however late or often others are answered.
OwnId(c) ==
    \/ c \in Built \/ Given[c] = None
    \/ \A d \in Calls \ Built : Given[d] = Given[c] => d = c
OwnAnswer ==
    \A c \in Calls : OwnId(c) /\ event[c] # None => event[c].from = c

\* A call that has ended is not subscribed (unless the sending failed), so
\* that a late result cannot reach it.
NoStaleSubscription ==
    \A k \in Keys : subscriptions[k] # None =>
        pc[subscriptions[k]] \in InProgress \cup {"unsent"}

\* Results reach the call they are for, and none once that has ended
\* (AgentListener.subscribe, unsubscribe and _receive).
RightAnswers == OwnAnswer /\ NoStaleSubscription

\* As long as none has failed there is a receiver for every call that waits,
\* in the second session of the task too.
WaitingIsServed ==
    (\E c \in Calls : pc[c] = "waiting") /\ ~broken => receiver \in Alive

\* No receiver outlives its session.
NoReceiverLeft ==
    session \in {"between", "over"} => receiver = "none"

\* The receiver (AgentListener.start, stop) runs when somebody waits, and in no
\* other time than that of its session.
ReceiverServes == WaitingIsServed /\ NoReceiverLeft

\* A result in the queue reaches the call that waits for it, with no need
\* of the timer, unless the receiver fails.
AnsweredCallReturns ==
    \A c \in Calls :
        (/\ pc[c] = "waiting" /\ OwnId(c)
         /\ \E m \in results : m.from = c)
        ~> (pc[c] # "waiting" \/ broken)
===============================================================================
