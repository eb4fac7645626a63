--------------------------- MODULE AgentCallsProofs ---------------------------
(***************************************************************************)
(* Theorems about AgentCalls, for every set of calls, plans and faults.    *)
(***************************************************************************)
EXTENDS AgentCalls, TLAPS

LEMMA PlanIdType == \A c \in Calls : PlanId(c) \in Keys
  BY ConstantsAssumption DEF PlanId, Keys

\* Plans with an identifier of their own are found under it alone.
LEMMA OwnPlanId ==
    ASSUME NEW c \in Calls, OwnId(c), NEW d \in Calls, PlanId(d) = PlanId(c)
    PROVE  d = c
<1>1. Given[c] \in Ids \cup {None} /\ Given[d] \in Ids \cup {None}
  BY ConstantsAssumption
<1>2. c \notin Ids /\ d \notin Ids
  BY ConstantsAssumption
<1>3. QED
  BY <1>1, <1>2 DEF OwnId, PlanId

-----------------------------------------------------------------------------
(* Types *)

LEMMA InitAgentType == AgentInit => AgentTypeOK
<1> SUFFICES ASSUME AgentInit PROVE AgentTypeOK
  OBVIOUS
<1>1. plans \in [Calls -> 0 .. MaxAnswers]
  BY ConstantsAssumption DEF AgentInit
<1>2. QED
  BY <1>1 DEF AgentInit, AgentTypeOK, InProgress, Ended, Alive

LEMMA CallType ==
    ASSUME AgentTypeOK, NEW c \in Calls,
           \/ Begin(c) \/ Send(c) \/ SendFails(c) \/ Return(c) \/ TimeOut(c)
    PROVE  AgentTypeOK'
<1> USE DEF AgentTypeOK
<1>1. CASE Begin(c)
  <2>1. pc' \in [Calls -> {"idle"} \cup InProgress \cup Ended]
    BY <1>1 DEF Begin, InProgress
  <2>2. subscriptions' \in [Keys -> Calls \cup {None}]
    BY <1>1, PlanIdType DEF Begin
  <2>3. /\ receiver' \in Alive \cup {"none", "dead"}
        /\ broken' \in BOOLEAN /\ hooks' \in BOOLEAN
    BY <1>1 DEF Begin, Alive, Registered
  <2>4. UNCHANGED <<session, event, hand, declared, plans, results>>
    BY <1>1 DEF Begin, broker
  <2>5. QED
    BY <2>1, <2>2, <2>3, <2>4
<1>2. CASE Send(c)
  <2>1. pc' \in [Calls -> {"idle"} \cup InProgress \cup Ended]
    BY <1>2 DEF Send, InProgress, Ended
  <2>2. plans' \in [Calls -> 0 .. MaxAnswers]
    BY <1>2, ConstantsAssumption DEF Send
  <2>3. QED
    BY <1>2, <2>1, <2>2 DEF Send, listener
<1>3. CASE SendFails(c)
  BY <1>3 DEF SendFails, listener, broker, Ended
<1>4. CASE Return(c)
  BY <1>4 DEF Return, listener, broker, Ended
<1>5. CASE TimeOut(c)
  <2>1. pc' \in [Calls -> {"idle"} \cup InProgress \cup Ended]
    BY <1>5 DEF TimeOut, Ended
  <2>2. subscriptions' \in [Keys -> Calls \cup {None}]
    BY <1>5 DEF TimeOut, Unsubscribed
  <2>3. QED
    BY <1>5, <2>1, <2>2 DEF TimeOut, broker
<1>6. QED
  BY <1>1, <1>2, <1>3, <1>4, <1>5

LEMMA ReceiverType ==
    ASSUME AgentTypeOK, ReceiverStep \/ Break \/ FinishSession \/ StartAction
    PROVE  AgentTypeOK'
<1> USE DEF AgentTypeOK
<1>1. CASE Declare
  BY <1>1 DEF Declare, Alive
<1>2. CASE Receive
  BY <1>2 DEF Receive
<1>3. CASE Dispatch
  <2>1. hand \in Messages
    BY <1>3 DEF Dispatch
  <2>2. hand.source \in Keys
    BY <2>1 DEF Messages
  <2>3. /\ subscriptions' \in [Keys -> Calls \cup {None}]
        /\ event' \in [Calls -> Messages \cup {None}]
    <3>1. CASE UNCHANGED <<subscriptions, event>>
      BY <3>1
    <3>2. CASE /\ subscriptions[Key(hand)] # None
               /\ subscriptions' = [subscriptions EXCEPT ![Key(hand)] = None]
               /\ event' = [event EXCEPT ![subscriptions[Key(hand)]] = Sent(hand)]
      BY <2>1, <2>2, <3>2 DEF Key, Sent
    <3>3. QED
      BY <1>3, <3>1, <3>2 DEF Dispatch
  <2>4. receiver' \in Alive \cup {"none", "dead"} /\ broken' \in BOOLEAN
    BY <1>3 DEF Dispatch
  <2>5. QED
    BY <1>3, <2>3, <2>4 DEF Dispatch, broker
<1>4. ASSUME PutBack
      PROVE  hand' \in Messages \cup {None} /\ results' \in SUBSET Messages
  BY <1>4 DEF PutBack
<1>5. CASE Break
  BY <1>4, <1>5 DEF Break
<1>6. CASE FinishSession
  <2>1. /\ receiver' \in Alive \cup {"none", "dead"} /\ hooks' \in BOOLEAN
        /\ hand' \in Messages \cup {None} /\ results' \in SUBSET Messages
    BY <1>4, <1>6 DEF FinishSession, Stopped
  <2>2. QED
    BY <1>6, <2>1 DEF FinishSession
<1>7. CASE StartAction
  BY <1>7 DEF StartAction, listener, broker
<1>8. QED
  BY <1>1, <1>2, <1>3, <1>5, <1>6, <1>7 DEF ReceiverStep

LEMMA AnswerType ==
    ASSUME AgentTypeOK, NEW c \in Calls, Answer(c)
    PROVE  AgentTypeOK'
<1> USE DEF AgentTypeOK
<1>1. plans' \in [Calls -> 0 .. MaxAnswers]
  <2>1. plans[c] \in Nat /\ plans[c] > 0 /\ plans[c] <= MaxAnswers /\ MaxAnswers \in Nat
    BY ConstantsAssumption DEF Answer
  <2>2. plans[c] - 1 \in 0 .. MaxAnswers
    BY <2>1
  <2>3. QED
    BY <2>2 DEF Answer
<1>2. results' \in SUBSET Messages
  <2>1. PICK valid \in BOOLEAN :
            results' \in {results, results \cup {[source |-> PlanId(c), from |-> c,
                                                  valid |-> valid]}}
    BY DEF Answer
  <2>2. [source |-> PlanId(c), from |-> c, valid |-> valid] \in Messages
    BY PlanIdType DEF Messages
  <2>3. QED
    BY <2>1, <2>2
<1>3. QED
  BY <1>1, <1>2 DEF Answer, listener

LEMMA StepAgentType == AgentTypeOK /\ [AgentNext]_vars => AgentTypeOK'
<1> SUFFICES ASSUME AgentTypeOK, [AgentNext]_vars PROVE AgentTypeOK'
  OBVIOUS
<1>1. CASE UNCHANGED vars
  BY <1>1 DEF AgentTypeOK, vars, listener, broker
<1>2. CASE AgentNext
  BY <1>2, CallType, ReceiverType, AnswerType DEF AgentNext, CallStep
<1>3. QED
  BY <1>1, <1>2

\* Every variable of the calls, the receiver and the broker keeps its type.
THEOREM AgentTypeCorrect == AgentSpec => []AgentTypeOK
<1>1. AgentInit => AgentTypeOK
  BY InitAgentType
<1>2. AgentTypeOK /\ [AgentNext]_vars => AgentTypeOK'
  BY StepAgentType
<1>3. QED
  BY <1>1, <1>2, PTL DEF AgentSpec

-----------------------------------------------------------------------------
(* The inductive invariant.  That a waiter is handed its own result needs   *)
(* to know where results and subscriptions come from (ResultsOfPlans,       *)
(* KeysOfPlans); that it is not subscribed when it returns, that an event   *)
(* is sent only once its subscription is gone (SentOnce).                   *)

ResultsOfPlans ==
    /\ \A m \in results : m.source = PlanId(m.from)
    /\ hand # None => hand.source = PlanId(hand.from)

KeysOfPlans ==
    \A k \in Keys : subscriptions[k] # None =>
        /\ PlanId(subscriptions[k]) = k
        /\ subscriptions[k] \notin Sends

\* A call that is subscribed, or has not begun, was sent nothing.
SentOnce ==
    /\ \A k \in Keys : subscriptions[k] # None => event[subscriptions[k]] = None
    /\ \A c \in Calls : pc[c] = "idle" => event[c] = None

\* The receiver is there exactly when stop will be called, and fails only
\* with `broken' set; it alone takes messages.
ReceiverKnown ==
    /\ receiver # "none" <=> hooks
    /\ receiver = "dead" => broken
    /\ hand # None => receiver = "receiving"
    /\ \A c \in Calls \ Sends : pc[c] \in InProgress => receiver # "none"
    /\ \A c \in Calls : pc[c] = "waiting" => c \notin Sends
    /\ \A c \in Calls : pc[c] \in InProgress => session \in {"cleaning", "acting"}

AgentInv ==
    /\ AgentTypeOK
    /\ ResultsOfPlans
    /\ KeysOfPlans
    /\ SentOnce
    /\ OwnAnswer
    /\ NoStaleSubscription
    /\ ReceiverKnown
    /\ NoReceiverLeft


LEMMA InitAgentInv == AgentInit => AgentInv
<1> SUFFICES ASSUME AgentInit PROVE AgentInv
  OBVIOUS
<1>1. AgentTypeOK
  BY InitAgentType
<1>2. /\ \A k \in Keys : subscriptions[k] = None
      /\ \A c \in Calls : event[c] = None /\ pc[c] = "idle"
  BY DEF AgentInit
<1>3. ResultsOfPlans /\ KeysOfPlans /\ SentOnce /\ OwnAnswer /\ NoStaleSubscription
  BY <1>2 DEF AgentInit, ResultsOfPlans, KeysOfPlans, SentOnce, OwnAnswer,
              NoStaleSubscription
<1>4. ReceiverKnown /\ NoReceiverLeft
  BY <1>2 DEF AgentInit, ReceiverKnown, NoReceiverLeft, InProgress
<1>5. QED
  BY <1>1, <1>3, <1>4 DEF AgentInv

\* The subscription of a call that begins is the only one that changes.
LEMMA BeginInv ==
    ASSUME AgentInv, NEW c \in Calls, Begin(c)
    PROVE  AgentInv'
<1> USE DEF AgentInv
<1>1. AgentTypeOK'
  BY CallType
<1>2. /\ pc[c] = "idle" /\ session \in {"cleaning", "acting"}
      /\ pc' = [pc EXCEPT ![c] = "sending"]
      /\ UNCHANGED <<session, event, hand, declared, plans, results>>
  BY DEF Begin, broker
<1>3. /\ pc'[c] = "sending"
      /\ \A d \in Calls \ {c} : pc'[d] = pc[d]
  BY <1>2 DEF AgentTypeOK
<1>4. \A k \in Keys : subscriptions'[k] # None =>
          \/ subscriptions'[k] = subscriptions[k]
          \/ subscriptions'[k] = c /\ c \notin Sends /\ k = PlanId(c)
  BY PlanIdType DEF Begin, AgentTypeOK
<1>5. ResultsOfPlans' /\ OwnAnswer'
  BY <1>2 DEF ResultsOfPlans, OwnAnswer, OwnId, PlanId
<1>6. KeysOfPlans'
  BY <1>4 DEF KeysOfPlans, PlanId
<1>7. SentOnce'
  BY <1>2, <1>3, <1>4 DEF SentOnce
<1>8. NoStaleSubscription'
  BY <1>3, <1>4 DEF NoStaleSubscription, InProgress, AgentTypeOK
<1>9. ReceiverKnown'
  <2>1. CASE c \in Sends
    BY <1>2, <1>3, <2>1 DEF Begin, ReceiverKnown, InProgress
  <2>2. CASE c \notin Sends /\ receiver = "none"
    BY <1>2, <1>3, <2>2 DEF Begin, ReceiverKnown, InProgress, Registered
  <2>3. CASE c \notin Sends /\ receiver # "none"
    BY <1>2, <1>3, <2>3 DEF Begin, ReceiverKnown, InProgress
  <2>4. QED
    BY <2>1, <2>2, <2>3
<1>10. NoReceiverLeft'
  BY <1>2 DEF NoReceiverLeft
<1>11. QED
  BY <1>1, <1>5, <1>6, <1>7, <1>8, <1>9, <1>10

\* A call that goes on or ends touches no subscription but its own.
LEMMA CallInv ==
    ASSUME AgentInv, NEW c \in Calls,
           Send(c) \/ SendFails(c) \/ Return(c) \/ TimeOut(c)
    PROVE  AgentInv'
<1> USE DEF AgentInv
<1>1. AgentTypeOK'
  BY CallType
<1>2. UNCHANGED <<session, event, receiver, broken, hooks, hand, results>>
  BY DEF Send, SendFails, Return, TimeOut, listener, broker
<1>3. /\ pc[c] \in InProgress
      /\ \A d \in Calls \ {c} : pc'[d] = pc[d]
      /\ pc'[c] # "idle"
      /\ pc'[c] = "waiting" => c \notin Sends
      /\ pc'[c] \in InProgress => session \in {"cleaning", "acting"}
  BY DEF Send, SendFails, Return, TimeOut, InProgress, AgentTypeOK, ReceiverKnown
<1>4. \A k \in Keys : subscriptions'[k] # None => subscriptions'[k] = subscriptions[k]
  BY DEF Send, SendFails, Return, TimeOut, listener, Unsubscribed, AgentTypeOK
<1>5. ResultsOfPlans' /\ OwnAnswer'
  BY <1>2 DEF ResultsOfPlans, OwnAnswer, OwnId, PlanId
<1>6. KeysOfPlans'
  BY <1>4 DEF KeysOfPlans, PlanId
<1>7. SentOnce'
  BY <1>2, <1>3, <1>4 DEF SentOnce
<1>8. NoStaleSubscription'
  <2>1. ASSUME NEW k \in Keys, subscriptions'[k] = c, c # None
        PROVE  pc'[c] \in InProgress \cup {"unsent"}
    <3>1. subscriptions[k] = c /\ PlanId(c) = k /\ c \notin Sends /\ event[c] = None
      BY <1>4, <2>1 DEF KeysOfPlans, SentOnce
    <3>2. ~Return(c)
      BY <3>1 DEF Return
    <3>3. ~TimeOut(c)
      BY <2>1, <3>1 DEF TimeOut, Unsubscribed, AgentTypeOK
    <3>4. QED
      BY <3>1, <3>2, <3>3 DEF Send, SendFails, InProgress, AgentTypeOK
  <2>2. QED
    BY <1>3, <1>4, <2>1 DEF NoStaleSubscription, AgentTypeOK
<1>9. ReceiverKnown'
  BY <1>2, <1>3 DEF ReceiverKnown
<1>10. NoReceiverLeft'
  BY <1>2 DEF NoReceiverLeft
<1>11. QED
  BY <1>1, <1>5, <1>6, <1>7, <1>8, <1>9, <1>10

LEMMA AnswerInv ==
    ASSUME AgentInv, NEW c \in Calls, Answer(c)
    PROVE  AgentInv'
<1> USE DEF AgentInv
<1>1. AgentTypeOK'
  BY AnswerType
<1>2. UNCHANGED <<pc, session, subscriptions, event, receiver, broken, hooks, hand>>
  BY DEF Answer, listener
<1>3. \A m \in results' : m \in results \/ (m.source = PlanId(c) /\ m.from = c)
  BY DEF Answer
<1>4. ResultsOfPlans'
  BY <1>2, <1>3 DEF ResultsOfPlans, PlanId
<1>5. KeysOfPlans' /\ SentOnce' /\ NoStaleSubscription'
  BY <1>2 DEF KeysOfPlans, SentOnce, NoStaleSubscription, PlanId
<1>6. OwnAnswer'
  BY <1>2 DEF OwnAnswer, OwnId, PlanId
<1>7. ReceiverKnown' /\ NoReceiverLeft'
  BY <1>2 DEF ReceiverKnown, NoReceiverLeft
<1>8. QED
  BY <1>1, <1>4, <1>5, <1>6, <1>7

\* The result in hand names the plan of the call it is from, and the waiter
\* found under this name has a plan of the same name.
LEMMA DispatchInv ==
    ASSUME AgentInv, Dispatch
    PROVE  AgentInv'
<1> USE DEF AgentInv
<1> DEFINE key == Key(hand)
           waiter == subscriptions[key]
<1>1. AgentTypeOK'
  BY ReceiverType DEF ReceiverStep
<1>2. /\ hand \in Messages /\ hand.source \in Keys /\ key = hand.source
      /\ hand.from \in Calls /\ key = PlanId(hand.from)
      /\ receiver = "receiving" /\ hand' = None
      /\ UNCHANGED <<pc, session, hooks, results>>
  <2>1. hand # None /\ hand \in Messages
    BY DEF Dispatch, AgentTypeOK
  <2>2. QED
    BY <2>1 DEF Dispatch, Key, Messages, ResultsOfPlans, ReceiverKnown, broker
<1>3. CASE UNCHANGED <<subscriptions, event>>
  <2>1. KeysOfPlans' /\ SentOnce' /\ NoStaleSubscription'
    BY <1>2, <1>3 DEF KeysOfPlans, SentOnce, NoStaleSubscription, PlanId
  <2>2. OwnAnswer' /\ ResultsOfPlans'
    BY <1>2, <1>3 DEF OwnAnswer, OwnId, PlanId, ResultsOfPlans
  <2>3. ReceiverKnown' /\ NoReceiverLeft'
    BY <1>2, <1>3 DEF Dispatch, ReceiverKnown, NoReceiverLeft
  <2>4. QED
    BY <1>1, <2>1, <2>2, <2>3
<1>4. CASE /\ waiter # None
           /\ subscriptions' = [subscriptions EXCEPT ![key] = None]
           /\ event' = [event EXCEPT ![waiter] = hand]
           /\ UNCHANGED <<receiver, broken>>
  <2>1. /\ waiter \in Calls /\ PlanId(waiter) = key /\ pc[waiter] # "idle"
    BY <1>2, <1>4 DEF AgentTypeOK, KeysOfPlans, NoStaleSubscription, InProgress
  <2>2. \A k \in Keys : subscriptions'[k] # None =>
            subscriptions'[k] = subscriptions[k] /\ subscriptions'[k] # waiter
    BY <1>2, <1>4, <2>1 DEF KeysOfPlans, AgentTypeOK
  <2>3. event'[waiter] = hand /\ \A d \in Calls \ {waiter} : event'[d] = event[d]
    BY <1>4, <2>1 DEF AgentTypeOK
  <2>4. KeysOfPlans' /\ NoStaleSubscription'
    BY <1>2, <2>2 DEF KeysOfPlans, NoStaleSubscription, PlanId
  <2>5. SentOnce'
    BY <1>2, <2>1, <2>2, <2>3 DEF SentOnce, AgentTypeOK
  <2>6. OwnAnswer'
    <3>1. OwnId(waiter) => hand.from = waiter
      BY <1>2, <2>1, OwnPlanId
    <3>2. \A d \in Calls : OwnId(d) /\ event'[d] # None => event'[d].from = d
      BY <2>3, <3>1 DEF OwnAnswer
    <3>3. QED
      BY <3>2 DEF OwnAnswer, OwnId, PlanId
  <2>7. ResultsOfPlans' /\ ReceiverKnown' /\ NoReceiverLeft'
    BY <1>2, <1>4 DEF ResultsOfPlans, ReceiverKnown, NoReceiverLeft, PlanId
  <2>8. QED
    BY <1>1, <2>4, <2>5, <2>6, <2>7
<1>5. QED
  BY <1>3, <1>4 DEF Dispatch, Sent

\* The other steps of the receiver and of the session.
LEMMA OtherAgentInv ==
    ASSUME AgentInv, Declare \/ Receive \/ Break \/ FinishSession \/ StartAction
    PROVE  AgentInv'
<1> USE DEF AgentInv
<1>1. AgentTypeOK'
  BY ReceiverType DEF ReceiverStep
<1>2. UNCHANGED <<pc, subscriptions, event>>
  BY DEF Declare, Receive, Break, FinishSession, StartAction, listener
<1>3. KeysOfPlans' /\ SentOnce' /\ NoStaleSubscription'
  BY <1>2 DEF KeysOfPlans, SentOnce, NoStaleSubscription, PlanId
<1>4. OwnAnswer'
  BY <1>2 DEF OwnAnswer, OwnId, PlanId
<1>5. ResultsOfPlans'
  <2>1. /\ \A m \in results' : m \in results \/ (m = hand /\ hand # None)
        /\ hand' # None => hand' = hand \/ hand' \in results
    BY DEF Declare, Receive, Break, FinishSession, StartAction, PutBack, listener, broker
  <2>2. QED
    BY <2>1 DEF ResultsOfPlans, PlanId
<1>6. ReceiverKnown' /\ NoReceiverLeft'
  <2>1. CASE Declare
    BY <1>2, <2>1 DEF Declare, ReceiverKnown, NoReceiverLeft
  <2>2. CASE Receive
    BY <1>2, <2>2 DEF Receive, ReceiverKnown, NoReceiverLeft
  <2>3. CASE Break
    BY <1>2, <2>3 DEF Break, PutBack, ReceiverKnown, NoReceiverLeft, Alive
  <2>4. CASE FinishSession
    BY <1>2, <2>4 DEF FinishSession, PutBack, Stopped, ReceiverKnown, NoReceiverLeft
  <2>5. CASE StartAction
    BY <2>5 DEF StartAction, ReceiverKnown, NoReceiverLeft, listener
  <2>6. QED
    BY <2>1, <2>2, <2>3, <2>4, <2>5
<1>7. QED
  BY <1>1, <1>3, <1>4, <1>5, <1>6

LEMMA StepAgentInv == AgentInv /\ [AgentNext]_vars => AgentInv'
<1> SUFFICES ASSUME AgentInv, [AgentNext]_vars PROVE AgentInv'
  OBVIOUS
<1>1. CASE UNCHANGED vars
  <2>1. AgentTypeOK'
    BY <1>1, StepAgentType DEF AgentInv
  <2>2. ResultsOfPlans' /\ KeysOfPlans' /\ SentOnce' /\ OwnAnswer' /\ NoStaleSubscription'
    BY <1>1 DEF AgentInv, vars, listener, broker, ResultsOfPlans, KeysOfPlans, SentOnce,
                OwnAnswer, NoStaleSubscription, OwnId, PlanId
  <2>3. ReceiverKnown' /\ NoReceiverLeft'
    BY <1>1 DEF AgentInv, vars, listener, broker, ReceiverKnown, NoReceiverLeft
  <2>4. QED
    BY <2>1, <2>2, <2>3 DEF AgentInv
<1>2. CASE AgentNext
  BY <1>2, BeginInv, CallInv, AnswerInv, DispatchInv, OtherAgentInv
     DEF AgentNext, CallStep, ReceiverStep
<1>3. QED
  BY <1>1, <1>2

LEMMA AgentInvariant == AgentSpec => []AgentInv
<1>1. AgentInit => AgentInv
  BY InitAgentInv
<1>2. AgentInv /\ [AgentNext]_vars => AgentInv'
  BY StepAgentInv
<1>3. QED
  BY <1>1, <1>2, PTL DEF AgentSpec

-----------------------------------------------------------------------------
\* A call whose plan has an identifier of its own gets the result of this
\* plan, whatever is answered late, twice or never.
THEOREM Answered == AgentSpec => []OwnAnswer
<1>1. AgentInv => OwnAnswer
  BY DEF AgentInv
<1>2. QED
  BY <1>1, AgentInvariant, PTL

\* Calls that returned or timed out are not subscribed any more.
THEOREM Unsubscribing == AgentSpec => []NoStaleSubscription
<1>1. AgentInv => NoStaleSubscription
  BY DEF AgentInv
<1>2. QED
  BY <1>1, AgentInvariant, PTL

\* Results reach their own calls, and no call that has ended.
THEOREM AnsweredRightly == AgentSpec => []RightAnswers
BY Answered, Unsubscribing, PTL DEF RightAnswers

\* Whoever waits has a receiver, in each session, until one fails.
THEOREM Served == AgentSpec => []WaitingIsServed
<1>1. AgentInv => WaitingIsServed
  BY DEF AgentInv, ReceiverKnown, WaitingIsServed, AgentTypeOK, InProgress
<1>2. QED
  BY <1>1, AgentInvariant, PTL

\* The receiver ends with the session that started it.
THEOREM ReceiverEnds == AgentSpec => []NoReceiverLeft
<1>1. AgentInv => NoReceiverLeft
  BY DEF AgentInv
<1>2. QED
  BY <1>1, AgentInvariant, PTL

\* Receivers run for those who wait, and end with their session.
THEOREM ReceiverServing == AgentSpec => []ReceiverServes
BY Served, ReceiverEnds, PTL DEF ReceiverServes

===============================================================================
