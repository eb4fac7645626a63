--------------------------- MODULE MethodLocksProofs ---------------------------
(***************************************************************************)
(* What the method locks guarantee for every library of calls, every       *)
(* number of threads and every nesting of Parallel blocks.                 *)
(***************************************************************************)
EXTENDS MethodLocks, TLAPS

USE DEF Threads, Main

-----------------------------------------------------------------------------
(* The stack of a thread. *)

\* What the thread executes is a call or, outside every body, what its
\* branch belongs to.
LEMMA TopType ==
    ASSUME TypeOK, NEW t \in Threads, stack[t] # <<>>
    PROVE  /\ Len(stack[t]) \in Nat \ {0}
           /\ Top(t) = stack[t][Len(stack[t])]
           /\ Top(t) \in Frames
           /\ Top(t).call \in Calls
<1>1. stack[t] \in Seq(Frames)
  BY DEF TypeOK
<1>2. Len(stack[t]) \in Nat \ {0}
  BY <1>1
<1>3. stack[t][Len(stack[t])] \in Frames
  BY <1>1, <1>2
<1>4. QED
  BY <1>2, <1>3 DEF Top, Frames

\* Entering a body puts one frame on the stack of the thread.
LEMMA PushType ==
    ASSUME TypeOK, NEW t \in Threads, NEW owns \in BOOLEAN, want[t] \in Calls,
           stack' = Push(t, owns)
    PROVE  /\ stack' \in [Threads -> Seq(Frames)]
           /\ Len(stack'[t]) = Len(stack[t]) + 1
           /\ \A k \in 1 .. Len(stack[t]) : stack'[t][k] = stack[t][k]
           /\ stack'[t][Len(stack[t]) + 1] = [call |-> want[t], owns |-> owns]
           /\ \A u \in Threads \ {t} : stack'[u] = stack[u]
<1> DEFINE frame == [call |-> want[t], owns |-> owns]
<1>1. frame \in Frames
  BY DEF Frames
<1>2. stack[t] \in Seq(Frames)
  BY DEF TypeOK
<1>3. stack' = [stack EXCEPT ![t] = Append(stack[t], frame)]
  BY DEF Push
<1>4. stack'[t] = Append(stack[t], frame)
  BY <1>3 DEF TypeOK
<1>5. Append(stack[t], frame) \in Seq(Frames)
  BY <1>1, <1>2
<1>6. stack' \in [Threads -> Seq(Frames)]
  BY <1>3, <1>5 DEF TypeOK
<1>7. /\ Len(stack'[t]) = Len(stack[t]) + 1
      /\ \A k \in 1 .. Len(stack[t]) : stack'[t][k] = stack[t][k]
      /\ stack'[t][Len(stack[t]) + 1] = frame
  BY <1>1, <1>2, <1>4
<1>8. \A u \in Threads \ {t} : stack'[u] = stack[u]
  BY <1>3 DEF TypeOK
<1>9. QED
  BY <1>6, <1>7, <1>8

\* Leaving a body takes it off again.
LEMMA PopType ==
    ASSUME TypeOK, NEW t \in Threads, stack[t] # <<>>, stack' = Pop(t)
    PROVE  /\ stack' \in [Threads -> Seq(Frames)]
           /\ Len(stack'[t]) = Len(stack[t]) - 1
           /\ \A k \in 1 .. Len(stack[t]) - 1 : stack'[t][k] = stack[t][k]
           /\ \A u \in Threads \ {t} : stack'[u] = stack[u]
<1> DEFINE n == Len(stack[t])
           rest == SubSeq(stack[t], 1, n - 1)
<1>1. stack[t] \in Seq(Frames) /\ n \in Nat \ {0}
  BY TopType DEF TypeOK
<1>2. /\ rest \in Seq(Frames)
      /\ Len(rest) = n - 1
      /\ \A k \in 1 .. n - 1 : rest[k] = stack[t][k]
  BY <1>1
<1>3. stack' = [stack EXCEPT ![t] = rest]
  BY DEF Pop
<1>4. stack'[t] = rest /\ \A u \in Threads \ {t} : stack'[u] = stack[u]
  BY <1>3 DEF TypeOK
<1>5. stack' \in [Threads -> Seq(Frames)]
  BY <1>2, <1>3 DEF TypeOK
<1>6. QED
  BY <1>2, <1>4, <1>5

-----------------------------------------------------------------------------
(* Type correctness *)

LEMMA InitType == Init => TypeOK
<1> SUFFICES ASSUME Init PROVE TypeOK
  OBVIOUS
<1>1. /\ pc \in [Threads -> ThreadStates]
      /\ want \in [Threads -> Calls \cup {None}]
      /\ stack \in [Threads -> Seq(Frames)]
  BY ConstantsAssumption DEF Init, ThreadStates
<1>2. \A t \in Threads : /\ pc[t] = "absent" <=> t > started
                         /\ want[t] # None <=> pc[t] \in {"calling", "waiting"}
  BY ConstantsAssumption DEF Init
<1>3. /\ code \in [Threads -> Calls \cup {None}]
      /\ branches \in [Threads -> SUBSET Threads]
      /\ limit \in [Threads -> Nat] /\ raising \in [Threads -> BOOLEAN]
      /\ held \in SUBSET (Locks \X Threads)
  BY DEF Init
<1>4. steps \in 0 .. MaxSteps /\ started \in Threads
  BY ConstantsAssumption DEF Init
<1>5. QED
  BY <1>1, <1>2, <1>3, <1>4 DEF TypeOK

\* Steps of one thread that change neither its stack nor the locks.
LEMMA LocalType ==
    ASSUME TypeOK, NEW t \in Threads,
           \/ Call(t) \/ Wait(t) \/ Raise(t) \/ Catch(t) \/ Finish(t) \/ Join(t)
           \/ \E b \in Threads : Start(t, b)
    PROVE  TypeOK'
<1>1. CASE Call(t)
  <2>1. PICK d \in Calls : want' = [want EXCEPT ![t] = d]
    BY <1>1 DEF Call, Follow
  <2>2. d # None
    BY ConstantsAssumption
  <2>3. steps' \in 0 .. MaxSteps
    BY <1>1, ConstantsAssumption DEF Call, TypeOK
  <2>4. QED
    BY <1>1, <2>1, <2>2, <2>3 DEF Call, TypeOK, ThreadStates
<1>2. CASE Wait(t)
  BY <1>2 DEF Wait, TypeOK, ThreadStates
<1>3. CASE Raise(t)
  BY <1>3 DEF Raise, TypeOK
<1>4. CASE Catch(t)
  BY <1>4, ConstantsAssumption DEF Catch, TypeOK
<1>5. CASE Finish(t)
  BY <1>5 DEF Finish, TypeOK, ThreadStates
<1>6. CASE Join(t)
  <2>1. /\ raising' \in [Threads -> BOOLEAN]
        /\ branches' \in [Threads -> SUBSET Threads]
        /\ limit' \in [Threads -> Nat]
    BY <1>6 DEF Join, TypeOK
  <2>2. QED
    BY <1>6, <2>1 DEF Join, TypeOK, ThreadStates
<1>7. CASE \E b \in Threads : Start(t, b)
  BY <1>7 DEF Start, TypeOK, ThreadStates
<1>8. QED
  BY <1>1, <1>2, <1>3, <1>4, <1>5, <1>6, <1>7

\* Entering and leaving bodies.
LEMMA BodyType ==
    ASSUME TypeOK, NEW t \in Threads, Enter(t) \/ Acquire(t) \/ Leave(t)
    PROVE  TypeOK'
<1>1. ASSUME pc[t] = "calling" PROVE want[t] \in Calls
  BY <1>1 DEF TypeOK
<1>2. CASE Enter(t)
  <2>1. stack' \in [Threads -> Seq(Frames)]
    BY <1>1, <1>2, PushType DEF Enter
  <2>2. QED
    BY <1>2, <2>1 DEF Enter, TypeOK, ThreadStates
<1>3. CASE Acquire(t)
  <2>1. stack' \in [Threads -> Seq(Frames)]
    BY <1>1, <1>3, PushType DEF Acquire
  <2>2. held' \in SUBSET (Locks \X Threads)
    BY <1>1, <1>3 DEF Acquire, TypeOK, Locks
  <2>3. QED
    BY <1>3, <2>1, <2>2 DEF Acquire, TypeOK, ThreadStates
<1>4. CASE Leave(t)
  <2>1. stack' \in [Threads -> Seq(Frames)]
    BY <1>4, PopType DEF Leave
  <2>2. held' \in SUBSET (Locks \X Threads)
    BY <1>4 DEF Leave, TypeOK
  <2>3. \A u \in Threads : pc'[u] = pc[u] \/ (pc[u] = "waiting" /\ pc'[u] = "calling")
    BY <1>4 DEF Leave, Woken, Waiters
  <2>4. pc' = [u \in Threads |-> pc'[u]]
    BY <1>4 DEF Leave
  <2>5. pc' \in [Threads -> ThreadStates]
    BY <2>3, <2>4 DEF TypeOK, ThreadStates
  <2>6. QED
    BY <1>4, <2>1, <2>2, <2>3, <2>5 DEF Leave, TypeOK
<1>5. QED
  BY <1>2, <1>3, <1>4

LEMMA ParallelType ==
    ASSUME TypeOK, NEW t \in Threads, Parallel(t)
    PROVE  TypeOK'
<1>0. PICK n \in 1 .. MaxThreads - started : \E size \in 1 .. n :
          LET new == Spawned(n) IN
          /\ pc' = [u \in Threads |-> IF u = t THEN "joining"
                        ELSE IF u \in new THEN "pending" ELSE pc[u]]
          /\ code' = [u \in Threads |-> IF u \in new THEN Top(t).call ELSE code[u]]
          /\ branches' = [branches EXCEPT ![t] = new]
          /\ limit' = [limit EXCEPT ![t] = size]
          /\ started' = started + n
  BY DEF Parallel
<1>1. PICK size \in 1 .. n :
          /\ pc' = [u \in Threads |-> IF u = t THEN "joining"
                        ELSE IF u \in Spawned(n) THEN "pending" ELSE pc[u]]
          /\ code' = [u \in Threads |->
                         IF u \in Spawned(n) THEN Top(t).call ELSE code[u]]
          /\ branches' = [branches EXCEPT ![t] = Spawned(n)]
          /\ limit' = [limit EXCEPT ![t] = size]
          /\ started' = started + n
  BY <1>0
<1>2. started \in Threads /\ MaxThreads \in Nat /\ n \in Nat /\ size \in Nat
  BY ConstantsAssumption DEF TypeOK
<1>3. Spawned(n) = started + 1 .. started + n /\ Spawned(n) \subseteq Threads
  BY <1>2 DEF Spawned
<1>4. started' \in Threads
  BY <1>1, <1>2
<1>5. /\ pc[t] = "running" /\ t <= started /\ want[t] = None
  BY DEF Parallel, TypeOK
<1>6. pc' \in [Threads -> ThreadStates]
  BY <1>1 DEF TypeOK, ThreadStates
<1>7. code' \in [Threads -> Calls \cup {None}]
  BY <1>1, TopType DEF Parallel, TypeOK
<1>8. branches' \in [Threads -> SUBSET Threads] /\ limit' \in [Threads -> Nat]
  BY <1>1, <1>2, <1>3 DEF TypeOK
<1>9. ASSUME NEW u \in Threads PROVE pc'[u] = "absent" <=> u > started'
  <2>1. pc[u] = "absent" <=> u > started
    BY DEF TypeOK
  <2>2. started' = started + n /\ u \in Nat
    BY <1>1, <1>2
  <2>3. CASE u = t
    BY <1>1, <1>2, <1>5, <2>2, <2>3
  <2>4. CASE u # t /\ u \in Spawned(n)
    BY <1>1, <1>2, <1>3, <2>2, <2>4
  <2>5. CASE u # t /\ u \notin Spawned(n)
    <3>1. pc'[u] = pc[u]
      BY <1>1, <2>5
    <3>2. QED
      BY <1>2, <1>3, <2>1, <2>2, <2>5, <3>1
  <2>6. QED
    BY <2>3, <2>4, <2>5
<1>10. ASSUME NEW u \in Threads
       PROVE  want'[u] # None <=> pc'[u] \in {"calling", "waiting"}
  <2>1. u \in Spawned(n) => pc[u] = "absent"
    BY <1>2, <1>3 DEF TypeOK
  <2>2. QED
    BY <1>1, <1>5, <2>1 DEF Parallel, TypeOK
<1>11. QED
  BY <1>4, <1>6, <1>7, <1>8, <1>9, <1>10 DEF Parallel, TypeOK

LEMMA StepType == TypeOK /\ [Next]_vars => TypeOK'
<1> SUFFICES ASSUME TypeOK, [Next]_vars PROVE TypeOK'
  OBVIOUS
<1>1. CASE UNCHANGED vars
  BY <1>1 DEF vars, TypeOK
<1>2. ASSUME NEW t \in Threads, Step(t) PROVE TypeOK'
  BY <1>2, LocalType, BodyType, ParallelType DEF Step
<1>3. QED
  BY <1>1, <1>2 DEF Next

\* Every variable keeps its type: threads are numbered in the order they
\* start, and a thread holds a call exactly while it is about to make it.
THEOREM TypeCorrect == Spec => []TypeOK
<1>1. QED
  BY InitType, StepType, PTL DEF Spec

-----------------------------------------------------------------------------
(* The inductive invariant *)

\* A frame owns the lock of its call when it is the outermost of the thread
\* that needs this lock.
OutermostOwns ==
    \A t \in Threads : \A k \in 1 .. Len(stack[t]) :
        stack[t][k].owns <=>
            /\ Locked(stack[t][k].call)
            /\ \A j \in 1 .. k - 1 :
                  Lock(stack[t][j].call) # Lock(stack[t][k].call)

OneOwner ==
    \A lock \in Locks : \A t, u \in Owners(lock) : t = u

\* Threads that have not begun or have ended are in no body.
IdleOutside ==
    \A t \in Threads : pc[t] \notin Active => stack[t] = <<>>

WaiterHasOwner ==
    \A t \in Threads : pc[t] = "waiting" => Owners(Lock(want[t])) \ {t} # {}

LockInv ==
    TypeOK /\ OutermostOwns /\ HeldWhileInside /\ OneOwner /\ IdleOutside
           /\ WaiterHasOwner

LEMMA SameLock ==
    ASSUME NEW c \in Calls, NEW d \in Calls, Lock(c) = Lock(d)
    PROVE  /\ Locked(c) <=> Locked(d)
           /\ Lock(c) \in Locks
<1>1. c.method = d.method /\ ArgValues(c) = ArgValues(d)
  BY DEF Lock
<1>2. QED
  BY <1>1 DEF Locked, Locks

LEMMA BodiesPush ==
    ASSUME TypeOK, NEW t \in Threads, NEW owns \in BOOLEAN, want[t] \in Calls,
           stack' = Push(t, owns)
    PROVE  /\ Bodies(t)' = Bodies(t) \cup {want[t]}
           /\ \A u \in Threads \ {t} : Bodies(u)' = Bodies(u)
<1> DEFINE n == Len(stack[t])
<1>1. /\ n \in Nat /\ Len(stack'[t]) = n + 1
      /\ \A k \in 1 .. n : stack'[t][k] = stack[t][k]
      /\ stack'[t][n + 1] = [call |-> want[t], owns |-> owns]
      /\ \A u \in Threads \ {t} : stack'[u] = stack[u]
  <2>1. n \in Nat
    BY DEF TypeOK
  <2>2. QED
    BY <2>1, PushType
<1>2. ASSUME NEW c \in Calls
      PROVE  (\E k \in 1 .. n + 1 : stack'[t][k].call = c)
                 <=> (c = want[t] \/ \E k \in 1 .. n : stack[t][k].call = c)
  <2>1. stack'[t][n + 1].call = want[t] /\ n + 1 \in 1 .. n + 1
    BY <1>1
  <2>2. \A k \in 1 .. n : stack'[t][k].call = stack[t][k].call /\ k \in 1 .. n + 1
    BY <1>1
  <2>3. \A k \in 1 .. n + 1 : k = n + 1 \/ k \in 1 .. n
    BY <1>1
  <2> HIDE DEF n
  <2>4. QED
    BY <2>1, <2>2, <2>3
<1>3. Bodies(t)' = Bodies(t) \cup {want[t]}
  BY <1>1, <1>2 DEF Bodies
<1>4. \A u \in Threads \ {t} : Bodies(u)' = Bodies(u)
  BY <1>1 DEF Bodies
<1>5. QED
  BY <1>3, <1>4

LEMMA BodiesPop ==
    ASSUME TypeOK, NEW t \in Threads, stack[t] # <<>>, stack' = Pop(t)
    PROVE  /\ Bodies(t) = Bodies(t)' \cup {Top(t).call}
           /\ \A u \in Threads \ {t} : Bodies(u)' = Bodies(u)
<1> DEFINE n == Len(stack[t])
<1>1. /\ n \in Nat \ {0} /\ Top(t) = stack[t][n] /\ Len(stack'[t]) = n - 1
      /\ \A k \in 1 .. n - 1 : stack'[t][k] = stack[t][k]
      /\ \A u \in Threads \ {t} : stack'[u] = stack[u]
      /\ Top(t).call \in Calls
  BY TopType, PopType
<1>2. ASSUME NEW c \in Calls
      PROVE  (\E k \in 1 .. n : stack[t][k].call = c)
                 <=> (c = Top(t).call \/ \E k \in 1 .. n - 1 : stack'[t][k].call = c)
  <2>1. n \in 1 .. n /\ Top(t) = stack[t][n]
    BY <1>1
  <2>2. \A k \in 1 .. n - 1 : stack'[t][k].call = stack[t][k].call /\ k \in 1 .. n
    BY <1>1
  <2>3. \A k \in 1 .. n : k = n \/ k \in 1 .. n - 1
    BY <1>1
  <2> HIDE DEF n
  <2>4. QED
    BY <2>1, <2>2, <2>3
<1>3. Bodies(t) = Bodies(t)' \cup {Top(t).call}
  <2>1. Bodies(t) = {c \in Calls : \E k \in 1 .. n : stack[t][k].call = c}
    BY DEF Bodies
  <2>2. Bodies(t)' = {c \in Calls : \E k \in 1 .. n - 1 : stack'[t][k].call = c}
    BY <1>1 DEF Bodies
  <2> HIDE DEF n
  <2>3. QED
    BY <1>1, <1>2, <2>1, <2>2
<1>4. \A u \in Threads \ {t} : Bodies(u)' = Bodies(u)
  BY <1>1 DEF Bodies
<1>5. QED
  BY <1>3, <1>4

\* A new frame owns the lock of its call exactly when no body the thread is
\* in needs this lock.
LEMMA OutermostPush ==
    ASSUME LockInv, NEW t \in Threads, NEW owns \in BOOLEAN, want[t] \in Calls,
           stack' = Push(t, owns),
           owns <=> /\ Locked(want[t])
                    /\ \A c \in Bodies(t) : Lock(c) # Lock(want[t])
    PROVE  OutermostOwns'
<1> DEFINE n == Len(stack[t])
<1>1. /\ n \in Nat /\ Len(stack'[t]) = n + 1
      /\ \A k \in 1 .. n : stack'[t][k] = stack[t][k]
      /\ stack'[t][n + 1] = [call |-> want[t], owns |-> owns]
      /\ \A u \in Threads \ {t} : stack'[u] = stack[u]
  <2>1. n \in Nat
    BY DEF LockInv, TypeOK
  <2>2. QED
    BY <2>1, PushType DEF LockInv
<1>2. \A j \in 1 .. n : stack[t][j].call \in Calls
  <2>1. stack[t] \in Seq(Frames)
    BY DEF LockInv, TypeOK
  <2>2. ASSUME NEW j \in 1 .. n PROVE stack[t][j] \in Frames
    BY <2>1
  <2>3. QED
    BY <2>2 DEF Frames
<1>3. owns <=> /\ Locked(want[t])
               /\ \A j \in 1 .. n : Lock(stack[t][j].call) # Lock(want[t])
  BY <1>2 DEF Bodies
<1>4. ASSUME NEW k \in 1 .. n + 1
      PROVE  stack'[t][k].owns <=>
                 /\ Locked(stack'[t][k].call)
                 /\ \A j \in 1 .. k - 1 :
                       Lock(stack'[t][j].call) # Lock(stack'[t][k].call)
  <2>1. CASE k \in 1 .. n
    <3>1. \A j \in 1 .. k - 1 : j \in 1 .. n
      BY <1>1, <2>1
    <3>2. stack[t][k].owns <=>
              /\ Locked(stack[t][k].call)
              /\ \A j \in 1 .. k - 1 : Lock(stack[t][j].call) # Lock(stack[t][k].call)
      BY <2>1 DEF LockInv, OutermostOwns
    <3> HIDE DEF n
    <3>3. QED
      BY <1>1, <2>1, <3>1, <3>2
  <2>2. CASE k = n + 1
    <3>1. k - 1 = n
      BY <1>1, <2>2
    <3> HIDE DEF n
    <3>2. QED
      BY <1>1, <1>3, <2>2, <3>1
  <2>3. QED
    BY <1>1, <2>1, <2>2
<1>5. ASSUME NEW u \in Threads, NEW k \in 1 .. Len(stack'[u])
      PROVE  stack'[u][k].owns <=>
                 /\ Locked(stack'[u][k].call)
                 /\ \A j \in 1 .. k - 1 :
                       Lock(stack'[u][j].call) # Lock(stack'[u][k].call)
  <2>1. CASE u = t
    BY <1>1, <1>4, <2>1
  <2>2. CASE u # t
    <3>1. stack'[u] = stack[u]
      BY <1>1, <2>2
    <3>2. k \in 1 .. Len(stack[u])
      BY <3>1
    <3>3. stack[u][k].owns <=>
              /\ Locked(stack[u][k].call)
              /\ \A j \in 1 .. k - 1 : Lock(stack[u][j].call) # Lock(stack[u][k].call)
      BY <3>2 DEF LockInv, OutermostOwns
    <3>4. QED
      BY <3>1, <3>3
  <2>3. QED
    BY <2>1, <2>2
<1>6. QED
  BY <1>5 DEF OutermostOwns

LEMMA EnterInv ==
    ASSUME LockInv, NEW t \in Threads, Enter(t)
    PROVE  LockInv'
<1>1. TypeOK' /\ want[t] \in Calls /\ stack' = Push(t, FALSE) /\ held' = held
  BY BodyType DEF LockInv, TypeOK, Enter
<1>2. /\ Bodies(t)' = Bodies(t) \cup {want[t]}
      /\ \A u \in Threads \ {t} : Bodies(u)' = Bodies(u)
  BY <1>1, BodiesPush DEF LockInv
<1>3. Locked(want[t]) => /\ <<Lock(want[t]), t>> \in held
                         /\ \E c \in Bodies(t) : Lock(c) = Lock(want[t])
  <2>1. Lock(want[t]) \in Locks
    BY <1>1 DEF Locks
  <2>2. Locked(want[t]) => <<Lock(want[t]), t>> \in held
    BY DEF Enter, Reenters, Owners
  <2>3. QED
    BY <2>1, <2>2 DEF LockInv, HeldWhileInside
<1>4. OutermostOwns'
  BY <1>1, <1>3, OutermostPush
<1>5. HeldWhileInside'
  <2>1. ASSUME NEW lock \in Locks, NEW u \in Threads
        PROVE  <<lock, u>> \in held <=>
                   \E c \in Bodies(u)' : Locked(c) /\ Lock(c) = lock
    <3>1. <<lock, u>> \in held <=> \E c \in Bodies(u) : Locked(c) /\ Lock(c) = lock
      BY DEF LockInv, HeldWhileInside
    <3>2. CASE u = t
      BY <1>2, <1>3, <3>1, <3>2
    <3>3. CASE u # t
      BY <1>2, <3>1, <3>3
    <3>4. QED
      BY <3>2, <3>3
  <2>2. QED
    BY <1>1, <2>1 DEF HeldWhileInside
<1>6. OneOwner'
  BY <1>1 DEF LockInv, OneOwner, Owners
<1>7. IdleOutside'
  <2>1. \A u \in Threads \ {t} : stack'[u] = stack[u]
    BY <1>1, PushType DEF LockInv
  <2>2. \A u \in Threads : pc'[u] = IF u = t THEN "running" ELSE pc[u]
    BY DEF Enter, LockInv, TypeOK
  <2>3. QED
    BY <2>1, <2>2 DEF LockInv, IdleOutside, Active
<1>8. WaiterHasOwner'
  <2>1. ASSUME NEW u \in Threads, pc'[u] = "waiting"
        PROVE  Owners(Lock(want[u]))' \ {u} # {}
    <3>1. pc[u] = "waiting" /\ want'[u] = want[u]
      BY <2>1 DEF Enter, LockInv, TypeOK
    <3>2. PICK v \in Owners(Lock(want[u])) : v # u
      BY <3>1 DEF LockInv, WaiterHasOwner
    <3>3. v \in Threads /\ <<Lock(want'[u]), v>> \in held'
      BY <1>1, <3>1, <3>2 DEF Owners
    <3>4. QED
      BY <3>2, <3>3 DEF Owners
  <2>2. QED
    BY <2>1 DEF WaiterHasOwner
<1>9. QED
  BY <1>1, <1>4, <1>5, <1>6, <1>7, <1>8 DEF LockInv

LEMMA AcquireInv ==
    ASSUME LockInv, NEW t \in Threads, Acquire(t)
    PROVE  LockInv'
<1> DEFINE mine == Lock(want[t])
<1>1. /\ TypeOK' /\ want[t] \in Calls /\ stack' = Push(t, TRUE)
      /\ held' = held \cup {<<mine, t>>} /\ mine \in Locks
  BY BodyType DEF LockInv, TypeOK, Acquire, Locks
<1>2. /\ Bodies(t)' = Bodies(t) \cup {want[t]}
      /\ \A u \in Threads \ {t} : Bodies(u)' = Bodies(u)
  BY <1>1, BodiesPush DEF LockInv
<1>3. /\ Locked(want[t])
      /\ \A u \in Threads : <<mine, u>> \notin held
  BY DEF Acquire, Owners
<1>4. \A c \in Bodies(t) : Lock(c) # mine
  <2>1. ASSUME NEW c \in Bodies(t), Lock(c) = mine PROVE FALSE
    <3>1. Locked(c)
      BY <1>1, <1>3, <2>1, SameLock DEF Bodies
    <3>2. QED
      BY <1>1, <1>3, <2>1, <3>1 DEF LockInv, HeldWhileInside
  <2>2. QED
    BY <2>1
<1>5. OutermostOwns'
  BY <1>1, <1>3, <1>4, OutermostPush
<1>6. HeldWhileInside'
  <2>1. ASSUME NEW lock \in Locks, NEW u \in Threads
        PROVE  <<lock, u>> \in held' <=>
                   \E c \in Bodies(u)' : Locked(c) /\ Lock(c) = lock
    <3>1. <<lock, u>> \in held <=> \E c \in Bodies(u) : Locked(c) /\ Lock(c) = lock
      BY DEF LockInv, HeldWhileInside
    <3>2. <<lock, u>> \in held' <=> <<lock, u>> \in held \/ (lock = mine /\ u = t)
      BY <1>1
    <3>3. CASE u = t
      BY <1>2, <1>3, <3>1, <3>2, <3>3
    <3>4. CASE u # t
      BY <1>2, <3>1, <3>2, <3>4
    <3>5. QED
      BY <3>3, <3>4
  <2>2. QED
    BY <2>1 DEF HeldWhileInside
<1>7. OneOwner'
  BY <1>1, <1>3 DEF LockInv, OneOwner, Owners
<1>8. IdleOutside'
  <2>1. \A u \in Threads \ {t} : stack'[u] = stack[u]
    BY <1>1, PushType DEF LockInv
  <2>2. \A u \in Threads : pc'[u] = IF u = t THEN "running" ELSE pc[u]
    BY DEF Acquire, LockInv, TypeOK
  <2>3. QED
    BY <2>1, <2>2 DEF LockInv, IdleOutside, Active
<1>9. WaiterHasOwner'
  <2>1. ASSUME NEW u \in Threads, pc'[u] = "waiting"
        PROVE  Owners(Lock(want[u]))' \ {u} # {}
    <3>1. pc[u] = "waiting" /\ want'[u] = want[u]
      BY <2>1 DEF Acquire, LockInv, TypeOK
    <3>2. PICK v \in Owners(Lock(want[u])) : v # u
      BY <3>1 DEF LockInv, WaiterHasOwner
    <3>3. v \in Threads /\ <<Lock(want'[u]), v>> \in held'
      BY <1>1, <3>1, <3>2 DEF Owners
    <3>4. QED
      BY <3>2, <3>3 DEF Owners
  <2>2. QED
    BY <2>1 DEF WaiterHasOwner
<1>10. QED
  BY <1>1, <1>5, <1>6, <1>7, <1>8, <1>9 DEF LockInv

LEMMA LeaveInv ==
    ASSUME LockInv, NEW t \in Threads, Leave(t)
    PROVE  LockInv'
<1> DEFINE n == Len(stack[t])
           top == Top(t)
<1>1. /\ TypeOK' /\ stack[t] # <<>> /\ stack' = Pop(t)
      /\ held' = held \ Released(t)
      /\ n \in Nat \ {0} /\ top = stack[t][n] /\ top.call \in Calls
  BY BodyType, TopType DEF LockInv, Leave
<1>2. /\ Len(stack'[t]) = n - 1
      /\ \A k \in 1 .. n - 1 : stack'[t][k] = stack[t][k]
      /\ \A u \in Threads \ {t} : stack'[u] = stack[u]
  BY <1>1, PopType DEF LockInv
<1>3. /\ Bodies(t) = Bodies(t)' \cup {top.call}
      /\ \A u \in Threads \ {t} : Bodies(u)' = Bodies(u)
  BY <1>1, BodiesPop DEF LockInv
<1>4. top.owns <=>
          /\ Locked(top.call)
          /\ \A j \in 1 .. n - 1 : Lock(stack[t][j].call) # Lock(top.call)
  <2>1. n \in 1 .. Len(stack[t])
    BY <1>1
  <2>2. QED
    BY <1>1, <2>1 DEF LockInv, OutermostOwns
<1>5. \A c \in Calls : c \in Bodies(t)' <=> \E j \in 1 .. n - 1 : stack[t][j].call = c
  <2> HIDE DEF n
  <2> QED
    BY <1>2 DEF Bodies
<1>6. \A j \in 1 .. n - 1 : stack[t][j].call \in Calls
  <2>1. stack[t] \in Seq(Frames)
    BY DEF LockInv, TypeOK
  <2>2. ASSUME NEW j \in 1 .. n - 1 PROVE stack[t][j] \in Frames
    BY <1>1, <2>1
  <2>3. QED
    BY <2>2 DEF Frames
<1>7. top.owns <=>
          /\ Locked(top.call)
          /\ \A c \in Bodies(t)' : Lock(c) # Lock(top.call)
  <2> HIDE DEF n, top
  <2>1. \A c \in Bodies(t)' : c \in Calls
    BY DEF Bodies
  <2>2. QED
    BY <1>4, <1>5, <1>6, <2>1
<1>8. OutermostOwns'
  <2>1. ASSUME NEW u \in Threads, NEW k \in 1 .. Len(stack'[u])
        PROVE  stack'[u][k].owns <=>
                   /\ Locked(stack'[u][k].call)
                   /\ \A j \in 1 .. k - 1 :
                         Lock(stack'[u][j].call) # Lock(stack'[u][k].call)
    <3>1. /\ k \in 1 .. Len(stack[u])
          /\ \A j \in 1 .. k : stack'[u][j] = stack[u][j]
      <4>1. CASE u = t
        BY <1>1, <1>2, <4>1
      <4>2. CASE u # t
        BY <1>2, <4>2
      <4>3. QED
        BY <4>1, <4>2
    <3>2. stack'[u][k] = stack[u][k]
      BY <3>1
    <3>3. \A j \in 1 .. k - 1 : stack'[u][j] = stack[u][j]
      BY <3>1
    <3>4. stack[u][k].owns <=>
              /\ Locked(stack[u][k].call)
              /\ \A j \in 1 .. k - 1 : Lock(stack[u][j].call) # Lock(stack[u][k].call)
      BY <3>1 DEF LockInv, OutermostOwns
    <3>5. QED
      BY <3>2, <3>3, <3>4
  <2>2. QED
    BY <2>1 DEF OutermostOwns
<1>9. HeldWhileInside'
  <2>1. ASSUME NEW lock \in Locks, NEW u \in Threads
        PROVE  <<lock, u>> \in held' <=>
                   \E c \in Bodies(u)' : Locked(c) /\ Lock(c) = lock
    <3> HIDE DEF top
    <3>1. <<lock, u>> \in held <=> \E c \in Bodies(u) : Locked(c) /\ Lock(c) = lock
      BY DEF LockInv, HeldWhileInside
    <3>2. <<lock, u>> \in held' <=>
              <<lock, u>> \in held /\ ~(top.owns /\ u = t /\ lock = Lock(top.call))
      BY <1>1 DEF Released, top
    <3>3. CASE u = t
      <4>1. ASSUME NEW c \in Bodies(t)', Lock(c) = Lock(top.call)
            PROVE  Locked(c) <=> Locked(top.call)
        BY <1>1, <4>1, SameLock DEF Bodies
      <4>2. QED
        BY <1>3, <1>7, <3>1, <3>2, <3>3, <4>1
    <3>4. CASE u # t
      BY <1>3, <3>1, <3>2, <3>4
    <3>5. QED
      BY <3>3, <3>4
  <2>2. QED
    BY <2>1 DEF HeldWhileInside
<1>10. OneOwner'
  BY <1>1 DEF LockInv, OneOwner, Owners
<1>11. IdleOutside'
  <2>1. \A u \in Threads : pc'[u] = pc[u] \/ (pc[u] = "waiting" /\ pc'[u] = "calling")
    BY DEF Leave, Woken, Waiters
  <2>2. pc[t] = "running"
    BY DEF Leave
  <2>3. QED
    BY <1>2, <2>1, <2>2 DEF LockInv, IdleOutside, Active
<1>12. WaiterHasOwner'
  <2>1. ASSUME NEW u \in Threads, pc'[u] = "waiting"
        PROVE  Owners(Lock(want[u]))' \ {u} # {}
    <3>1. /\ pc[u] = "waiting" /\ want'[u] = want[u]
          /\ \A entry \in Released(t) : u \notin Woken(entry[1])
      BY <2>1 DEF Leave
    <3>2. PICK v \in Owners(Lock(want[u])) : v # u
      BY <3>1 DEF LockInv, WaiterHasOwner
    <3>3. u \in Woken(Lock(want[u]))
      BY <3>1 DEF Woken, Waiters
    <3>4. <<Lock(want[u]), v>> \notin Released(t)
      <4>1. <<Lock(want[u]), v>>[1] = Lock(want[u])
        OBVIOUS
      <4>2. QED
        BY <3>1, <3>3, <4>1
    <3>5. v \in Threads /\ <<Lock(want'[u]), v>> \in held'
      BY <1>1, <3>1, <3>2, <3>4 DEF Owners
    <3>6. QED
      BY <3>2, <3>5 DEF Owners
  <2>2. QED
    BY <2>1 DEF WaiterHasOwner
<1>13. QED
  BY <1>1, <1>8, <1>9, <1>10, <1>11, <1>12 DEF LockInv

\* All other steps leave stacks and locks alone.
LEMMA OtherInv ==
    ASSUME LockInv, NEW t \in Threads,
           \/ Call(t) \/ Wait(t) \/ Raise(t) \/ Catch(t) \/ Finish(t) \/ Join(t)
           \/ Parallel(t) \/ \E b \in Threads : Start(t, b)
    PROVE  LockInv'
<1>1. TypeOK'
  BY LocalType, ParallelType DEF LockInv
<1>2. stack' = stack /\ held' = held
  BY DEF Call, Wait, Raise, Catch, Finish, Join, Parallel, Start
<1>3. \A u \in Threads : Bodies(u)' = Bodies(u)
  BY <1>2 DEF Bodies
<1>4. OutermostOwns' /\ HeldWhileInside' /\ OneOwner'
  <2>1. OutermostOwns'
    BY <1>2 DEF LockInv, OutermostOwns
  <2>2. HeldWhileInside'
    BY <1>2, <1>3 DEF LockInv, HeldWhileInside
  <2>3. OneOwner'
    BY <1>2 DEF LockInv, OneOwner, Owners
  <2>4. QED
    BY <2>1, <2>2, <2>3
<1>5. IdleOutside'
  <2>1. ASSUME NEW u \in Threads, pc'[u] \notin Active
        PROVE  pc[u] \notin Active \/ stack[u] = <<>>
    <3>1. CASE pc'[u] = pc[u]
      BY <2>1, <3>1
    <3>2. CASE Finish(t) /\ u = t
      BY <3>2 DEF Finish
    <3>3. CASE Parallel(t) /\ u # t /\ pc'[u] = "pending"
      <4>1. pc[u] \in {"pending", "absent"}
        <5>1. PICK n \in 1 .. MaxThreads - started :
                  pc' = [v \in Threads |-> IF v = t THEN "joining"
                            ELSE IF v \in Spawned(n) THEN "pending" ELSE pc[v]]
          BY <3>3 DEF Parallel
        <5>2. pc[u] = "pending" \/ u \in Spawned(n)
          BY <3>3, <5>1
        <5>3. started \in Nat /\ (u > started => pc[u] = "absent")
          BY DEF LockInv, TypeOK
        <5>4. CASE u \in Spawned(n)
          BY <5>3, <5>4 DEF Spawned
        <5>5. QED
          BY <5>2, <5>4
      <4>2. QED
        BY <4>1 DEF Active
    <3>4. CASE pc' = [pc EXCEPT ![t] = "calling"] \/ pc' = [pc EXCEPT ![t] = "waiting"]
               \/ pc' = [pc EXCEPT ![t] = "running"] \/ pc' = pc
      BY <2>1, <3>1, <3>4 DEF Active, LockInv, TypeOK
    <3>5. CASE \E b \in Threads : Start(t, b)
      BY <2>1, <3>1, <3>5 DEF Start, Active, LockInv, TypeOK
    <3>6. CASE Parallel(t)
      <4>1. u = t => pc'[u] = "joining"
        BY <3>6 DEF Parallel
      <4>2. pc'[u] \in {pc[u], "joining", "pending"}
        BY <3>6 DEF Parallel
      <4>3. QED
        BY <2>1, <3>1, <3>3, <3>6, <4>1, <4>2 DEF Active
    <3>7. CASE Finish(t)
      <4>1. u # t => pc'[u] = pc[u]
        BY <3>7 DEF Finish, LockInv, TypeOK
      <4>2. QED
        BY <3>1, <3>2, <3>7, <4>1
    <3>8. QED
      BY <3>4, <3>5, <3>6, <3>7 DEF Call, Wait, Raise, Catch, Join
  <2>2. QED
    BY <1>2, <2>1 DEF LockInv, IdleOutside
<1>6. WaiterHasOwner'
  <2>1. ASSUME NEW u \in Threads, pc'[u] = "waiting"
        PROVE  Owners(Lock(want'[u])) \ {u} # {}
    <3>1. CASE pc[u] = "waiting"
      <4>1. want'[u] = want[u]
        BY <2>1, <3>1 DEF Call, Wait, Raise, Catch, Finish, Join, Parallel, Start,
                          LockInv, TypeOK
      <4>2. QED
        BY <3>1, <4>1 DEF LockInv, WaiterHasOwner
    <3>2. CASE pc[u] # "waiting"
      <4>1. u = t /\ Wait(t)
        BY <2>1, <3>2 DEF Call, Wait, Raise, Catch, Finish, Join, Parallel, Start,
                          LockInv, TypeOK
      <4>2. want' = want /\ Owners(Lock(want[t])) # {} /\ t \notin Owners(Lock(want[t]))
        BY <4>1 DEF Wait, Reenters
      <4>3. QED
        BY <4>1, <4>2
    <3>3. QED
      BY <3>1, <3>2
  <2>2. QED
    BY <1>2, <2>1 DEF WaiterHasOwner, Owners
<1>7. QED
  BY <1>1, <1>4, <1>5, <1>6 DEF LockInv

LEMMA InitInv == Init => LockInv
<1> SUFFICES ASSUME Init PROVE LockInv
  OBVIOUS
<1>1. TypeOK
  BY InitType
<1>2. \A t \in Threads : stack[t] = <<>> /\ pc[t] # "waiting"
  BY DEF Init
<1>3. held = {}
  BY DEF Init
<1>4. \A t \in Threads : Bodies(t) = {}
  BY <1>2 DEF Bodies
<1>5. OutermostOwns
  BY <1>2 DEF OutermostOwns
<1>6. HeldWhileInside /\ OneOwner /\ IdleOutside /\ WaiterHasOwner
  BY <1>2, <1>3, <1>4 DEF HeldWhileInside, OneOwner, IdleOutside, WaiterHasOwner,
                          Owners
<1>7. QED
  BY <1>1, <1>5, <1>6 DEF LockInv

LEMMA StepInv == LockInv /\ [Next]_vars => LockInv'
<1> SUFFICES ASSUME LockInv, [Next]_vars PROVE LockInv'
  OBVIOUS
<1>1. CASE UNCHANGED vars
  <2>1. TypeOK'
    BY <1>1, StepType DEF LockInv
  <2>2. \A t \in Threads : Bodies(t)' = Bodies(t)
    BY <1>1 DEF vars, Bodies
  <2>3. OutermostOwns' /\ IdleOutside'
    BY <1>1 DEF vars, LockInv, OutermostOwns, IdleOutside
  <2>4. HeldWhileInside'
    BY <1>1, <2>2 DEF vars, LockInv, HeldWhileInside
  <2>5. OneOwner' /\ WaiterHasOwner'
    BY <1>1 DEF vars, LockInv, OneOwner, WaiterHasOwner, Owners
  <2>6. QED
    BY <2>1, <2>3, <2>4, <2>5 DEF LockInv
<1>2. ASSUME NEW t \in Threads, Step(t) PROVE LockInv'
  BY <1>2, EnterInv, AcquireInv, LeaveInv, OtherInv DEF Step
<1>3. QED
  BY <1>1, <1>2 DEF Next

\* The invariant the theorems about locks rest on.
THEOREM LockInvariant == Spec => []LockInv
<1>1. QED
  BY InitInv, StepInv, PTL DEF Spec

-----------------------------------------------------------------------------
(* The theorems *)

\* Synchronize does what it says: bodies that exclude each other never run
\* in two threads at once, whatever calls, forks and fails.
THEOREM Synchronized == Spec => []MutualExclusion
<1>1. LockInv => MutualExclusion
  <2> SUFFICES ASSUME LockInv, NEW t \in Threads, NEW u \in Threads, t # u,
                      NEW c \in Bodies(t), NEW d \in Bodies(u), Excludes(c, d)
               PROVE  FALSE
    BY DEF MutualExclusion
  <2>1. c \in Calls /\ d \in Calls
    BY DEF Bodies
  <2>2. Locked(c) /\ Locked(d)
    BY DEF Excludes, Locked
  <2>3. Lock(c) = Lock(d) /\ Lock(c) \in Locks
    BY <2>1 DEF Excludes, Lock, Locks
  <2>4. <<Lock(c), t>> \in held /\ <<Lock(c), u>> \in held
    BY <2>2, <2>3 DEF LockInv, HeldWhileInside
  <2>5. QED
    BY <2>3, <2>4 DEF LockInv, OneOwner, Owners
<1>2. QED
  BY <1>1, LockInvariant, PTL

\* Every entry in the lock lists belongs to a body its owner is in, and the
\* other way round: exceptions leave no lock behind.
THEOREM NothingLeftLocked == Spec => []HeldWhileInside
<1>1. LockInv => HeldWhileInside
  BY DEF LockInv
<1>2. QED
  BY <1>1, LockInvariant, PTL

\* No wake-up is lost: whoever waits, waits for a lock that a thread which
\* has not ended holds.
THEOREM NoLostWakeup == Spec => []WaitedLockIsHeld
<1>1. LockInv => WaitedLockIsHeld
  <2> SUFFICES ASSUME LockInv, NEW t \in Threads, pc[t] = "waiting"
               PROVE  \E u \in Owners(Lock(want[t])) \ {t} : pc[u] \in Active
    BY DEF WaitedLockIsHeld
  <2>1. PICK u \in Owners(Lock(want[t])) : u # t
    BY DEF LockInv, WaiterHasOwner
  <2>2. u \in Threads /\ <<Lock(want[t]), u>> \in held /\ Lock(want[t]) \in Locks
    <3>1. want[t] \in Calls
      BY DEF LockInv, TypeOK
    <3>2. QED
      BY <2>1, <3>1 DEF Owners, Locks
  <2>3. Bodies(u) # {}
    BY <2>2 DEF LockInv, HeldWhileInside
  <2>4. stack[u] # <<>>
    BY <2>3 DEF Bodies
  <2>5. QED
    BY <2>1, <2>2, <2>4 DEF LockInv, IdleOutside
<1>2. QED
  BY <1>1, LockInvariant, PTL

\* The three together: what the locks of methods promise.
THEOREM LocksProtected == Spec => []LocksProtect
BY Synchronized, NothingLeftLocked, NoLostWakeup, PTL DEF LocksProtect

\* A Parallel block ends after all its branches: none survives the block or
\* the failure of another branch.
THEOREM StructuredConcurrency == Spec => []BranchesAreAwaited
<1>1. Init => BranchesAreAwaited
  BY DEF Init, BranchesAreAwaited
<1>2. ASSUME TypeOK, BranchesAreAwaited, [Next]_vars PROVE BranchesAreAwaited'
  <2>1. CASE UNCHANGED vars
    BY <1>2, <2>1 DEF vars, BranchesAreAwaited
  <2>2. ASSUME NEW t \in Threads, Step(t) PROVE BranchesAreAwaited'
    <3> SUFFICES ASSUME NEW b \in Threads \ {Main}, pc'[b] \notin {"absent", "ended"}
                 PROVE  \E u \in Threads : pc'[u] = "joining" /\ b \in branches'[u]
      BY DEF BranchesAreAwaited
    <3>1. CASE Join(t)
      <4>1. /\ pc' = [pc EXCEPT ![t] = "running"]
            /\ branches' = [branches EXCEPT ![t] = {}]
            /\ pc[t] = "joining" /\ \A c \in branches[t] : pc[c] = "ended"
        BY <3>1 DEF Join, AllEnded
      <4>2. pc[b] \notin {"absent", "ended"}
        BY <1>2, <4>1 DEF TypeOK
      <4>3. PICK u \in Threads : pc[u] = "joining" /\ b \in branches[u]
        BY <1>2, <4>2 DEF BranchesAreAwaited
      <4>4. u # t
        BY <4>1, <4>2, <4>3
      <4>5. QED
        BY <1>2, <4>1, <4>3, <4>4 DEF TypeOK
    <3>2. CASE Parallel(t)
      <4>1. PICK n \in 1 .. MaxThreads - started :
                /\ pc' = [u \in Threads |-> IF u = t THEN "joining"
                              ELSE IF u \in Spawned(n) THEN "pending" ELSE pc[u]]
                /\ branches' = [branches EXCEPT ![t] = Spawned(n)]
        BY <3>2 DEF Parallel
      <4>2. \A u \in Spawned(n) : u \in Threads => pc[u] = "absent"
        BY <1>2 DEF TypeOK, Spawned
      <4>3. CASE b \in Spawned(n)
        BY <1>2, <4>1, <4>3 DEF TypeOK
      <4>4. CASE b \notin Spawned(n)
        <5>1. pc[b] \notin {"absent", "ended"}
          BY <3>2, <4>1, <4>4 DEF Parallel
        <5>2. PICK u \in Threads : pc[u] = "joining" /\ b \in branches[u]
          BY <1>2, <5>1 DEF BranchesAreAwaited
        <5>3. u # t /\ u \notin Spawned(n)
          BY <3>2, <4>2, <5>2 DEF Parallel
        <5>4. QED
          BY <1>2, <4>1, <5>2, <5>3 DEF TypeOK
      <4>5. QED
        BY <4>3, <4>4
    <3>3. CASE ~Join(t) /\ ~Parallel(t)
      <4>1. branches' = branches
        BY <2>2, <3>3 DEF Step, Call, Enter, Acquire, Wait, Leave, Raise, Catch,
                          Finish, Start
      <4>2. \A u \in Threads : pc[u] = "joining" => pc'[u] = "joining"
        BY <1>2, <2>2, <3>3 DEF Step, Call, Enter, Acquire, Wait, Leave, Raise, Catch,
                                Finish, Start, TypeOK, Woken, Waiters
      <4>3. pc[b] \notin {"absent", "ended"}
        BY <1>2, <2>2, <3>3 DEF Step, Call, Enter, Acquire, Wait, Leave, Raise, Catch,
                                Finish, Start, TypeOK, Woken, Waiters
      <4>4. QED
        BY <1>2, <4>1, <4>2, <4>3 DEF BranchesAreAwaited
    <3>4. QED
      BY <3>1, <3>2, <3>3
  <2>3. QED
    BY <1>2, <2>1, <2>2 DEF Next
<1>3. QED
  BY <1>1, <1>2, TypeCorrect, PTL DEF Spec
===============================================================================
