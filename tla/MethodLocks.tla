------------------------------ MODULE MethodLocks ------------------------------
(***************************************************************************)
(* The green threads of one execution of the MuranoPL interpreter: method  *)
(* calls with the locks invoke_method takes around every body, exceptions  *)
(* that leave bodies, and Parallel blocks (or pselect) whose branches run  *)
(* in threads of their own.                                                *)
(*                                                                         *)
(* Green threads switch only where they wait or yield, which any body may  *)
(* do between two calls; an action is what happens between two switches.   *)
(***************************************************************************)
EXTENDS Naturals, Sequences, FiniteSets

CONSTANTS
    Calls,        \* the calls bodies make: records [method, this, arg]
    Static,       \* methods that are static: their receiver is a type
    OnThis,       \* methods that lock their receiver (Synchronize onThis,
                  \* which is the default)
    OnArgs,       \* methods that lock the value of their argument
    None,         \* no call, no argument
    Root,         \* the call of the engine: the action of the task
    MayCall,      \* <<c, d>>: the body of c may make the call d
    MayFork,      \* <<c, d>>: a branch of a Parallel block in the body of c
                  \* may make the call d
    MaxThreads,   \* bound: threads that can be started
    MaxSteps      \* bound: calls made and exceptions caught

ASSUME ConstantsAssumption ==
    /\ Root \in Calls /\ None \notin Calls
    /\ MayCall \subseteq Calls \X Calls
    /\ MayFork \subseteq Calls \X Calls
    /\ MaxThreads \in Nat \ {0} /\ MaxSteps \in Nat

-----------------------------------------------------------------------------
(* Which lock a call takes. *)

\* The values of the arguments to lock; an argument that is absent is left
\* out of the dictionary.
ArgValues(c) == IF c.method \in OnArgs THEN {c.arg} \ {None} ELSE {}

\* Without receiver and without argument values there is nothing to lock.
Locked(c) == c.method \in OnThis \/ ArgValues(c) # {}

\* The lock list is that of the type or of the object and the method, or of
\* the method alone; the entry in it is that of the argument values.
Lock(c) ==
    [method |-> c.method,
     this   |-> IF c.method \in OnThis \ Static THEN c.this ELSE None,
     args   |-> ArgValues(c)]

Locks == {Lock(c) : c \in Calls}

Frames == [call : Calls, owns : BOOLEAN]
ThreadStates ==
    {"absent", "pending", "running", "calling", "waiting", "joining", "ended"}

VARIABLES
    pc,        \* what each thread does
    stack,     \* the methods it is in, and whether it took their lock there
    want,      \* the call it is about to enter
    code,      \* the call whose Parallel block it is a branch of
    branches,  \* the branches of the Parallel block it executes
    limit,     \* how many of them may run at a time
    raising,   \* an exception is on its way up
    held,      \* the lock entries and their owners: <<lock, thread>>
    steps,     \* calls made and exceptions caught
    started    \* threads started

vars == <<pc, stack, want, code, branches, limit, raising, held, steps, started>>

Threads == 1 .. MaxThreads
Main == 1

TypeOK ==
    /\ pc \in [Threads -> ThreadStates]
    /\ stack \in [Threads -> Seq(Frames)]
    /\ want \in [Threads -> Calls \cup {None}]
    /\ code \in [Threads -> Calls \cup {None}]
    /\ branches \in [Threads -> SUBSET Threads]
    /\ limit \in [Threads -> Nat]
    /\ raising \in [Threads -> BOOLEAN]
    /\ held \in SUBSET (Locks \X Threads)
    /\ steps \in 0 .. MaxSteps
    /\ started \in Threads
    /\ \A t \in Threads : /\ pc[t] = "absent" <=> t > started
                          /\ want[t] # None <=> pc[t] \in {"calling", "waiting"}

Init ==
    /\ pc = [t \in Threads |-> IF t = Main THEN "calling" ELSE "absent"]
    /\ stack = [t \in Threads |-> <<>>]
    /\ want = [t \in Threads |-> IF t = Main THEN Root ELSE None]
    /\ code = [t \in Threads |-> None]
    /\ branches = [t \in Threads |-> {}]
    /\ limit = [t \in Threads |-> 0]
    /\ raising = [t \in Threads |-> FALSE]
    /\ held = {}
    /\ steps = 0
    /\ started = 1

-----------------------------------------------------------------------------
Top(t) == stack[t][Len(stack[t])]
Pop(t) == [stack EXCEPT ![t] = SubSeq(@, 1, Len(@) - 1)]
Push(t, owns) ==
    [stack EXCEPT ![t] = Append(@, [call |-> want[t], owns |-> owns])]

\* What t executes: the body of the method on top of its stack, or else its
\* branch of a Parallel block.
Executes(t) == IF stack[t] = <<>> THEN code[t] ELSE Top(t).call
Follow(t) ==
    {d \in Calls : <<Executes(t), d>> \in IF stack[t] = <<>> THEN MayFork ELSE MayCall}

Owners(lock) == {t \in Threads : <<lock, t>> \in held}
Waiters(lock) == {t \in Threads : pc[t] = "waiting" /\ Lock(want[t]) = lock}
Active == {"running", "calling", "waiting", "joining"}

\* A body comes to a call.  (Bound: MaxSteps.)
Call(t) ==
    /\ pc[t] = "running" /\ ~raising[t]
    /\ steps < MaxSteps
    /\ \E d \in Follow(t) : want' = [want EXCEPT ![t] = d]
    /\ pc' = [pc EXCEPT ![t] = "calling"]
    /\ steps' = steps + 1
    /\ UNCHANGED <<stack, code, branches, limit, raising, held, started>>

\* Without lock, or with a lock this thread has taken further down.
Reenters_mutant(t) == FALSE
Reenters(t) == t \in Owners(Lock(want[t]))
Enter(t) ==
    /\ pc[t] = "calling"
    /\ Locked(want[t]) => Reenters(t)
    /\ stack' = Push(t, FALSE)
    /\ pc' = [pc EXCEPT ![t] = "running"]
    /\ want' = [want EXCEPT ![t] = None]
    /\ UNCHANGED <<code, branches, limit, raising, held, steps, started>>

\* The lock is free: append an entry to the list.
Acquire(t) ==
    /\ pc[t] = "calling"
    /\ Locked(want[t]) /\ Owners(Lock(want[t])) = {}
    /\ held' = held \cup {<<Lock(want[t]), t>>}
    /\ stack' = Push(t, TRUE)
    /\ pc' = [pc EXCEPT ![t] = "running"]
    /\ want' = [want EXCEPT ![t] = None]
    /\ UNCHANGED <<code, branches, limit, raising, steps, started>>

\* Another thread has it: wait on the event of its entry.
Wait(t) ==
    /\ pc[t] = "calling"
    /\ Locked(want[t]) /\ Owners(Lock(want[t])) # {} /\ ~Reenters(t)
    /\ pc' = [pc EXCEPT ![t] = "waiting"]
    /\ UNCHANGED <<stack, want, code, branches, limit, raising, held, steps, started>>

\* The body ends, by return or by exception.  The thread that took the lock
\* there removes the entry and wakes all that wait on its event: they look
\* at the list again.
Woken(lock) == Waiters(lock)
Released_mutant(t) == {<<Lock(Top(t).call), t>>}  \* also when it re-entered
Released(t) == IF Top(t).owns THEN {<<Lock(Top(t).call), t>>} ELSE {}
Leave(t) ==
    /\ pc[t] = "running" /\ stack[t] # <<>>
    /\ stack' = Pop(t)
    /\ held' = held \ Released(t)
    /\ pc' = [u \in Threads |->
                 IF \E entry \in Released(t) : u \in Woken(entry[1])
                 THEN "calling" ELSE pc[u]]
    /\ UNCHANGED <<want, code, branches, limit, raising, steps, started>>

\* An exception leaves the statement that is executed ...
Raise(t) ==
    /\ pc[t] = "running" /\ ~raising[t] /\ Executes(t) # None
    /\ raising' = [raising EXCEPT ![t] = TRUE]
    /\ UNCHANGED <<pc, stack, want, code, branches, limit, held, steps, started>>

\* ... and is caught by a Try block around it.  (Bound: MaxSteps.)
Catch(t) ==
    /\ pc[t] = "running" /\ raising[t] /\ Executes(t) # None
    /\ steps < MaxSteps
    /\ raising' = [raising EXCEPT ![t] = FALSE]
    /\ steps' = steps + 1
    /\ UNCHANGED <<pc, stack, want, code, branches, limit, held, started>>

\* A Parallel block in the body: a thread for each branch, of which at most
\* `size' run at a time.  (Bound: MaxThreads.)
Spawned(n) == started + 1 .. started + n
Parallel(t) ==
    /\ pc[t] = "running" /\ ~raising[t] /\ stack[t] # <<>>
    /\ \E n \in 1 .. MaxThreads - started : \E size \in 1 .. n :
          LET new == Spawned(n) IN
          /\ pc' = [u \in Threads |-> IF u = t THEN "joining"
                                      ELSE IF u \in new THEN "pending" ELSE pc[u]]
          /\ code' = [u \in Threads |-> IF u \in new THEN Top(t).call ELSE code[u]]
          /\ branches' = [branches EXCEPT ![t] = new]
          /\ limit' = [limit EXCEPT ![t] = size]
          /\ started' = started + n
    /\ UNCHANGED <<stack, want, raising, held, steps>>

\* The pool starts the next branch when fewer than its size are running.
Running(t) == {b \in branches[t] : pc[b] \in Active}
HasRoom(t) == Cardinality(Running(t)) < limit[t]
Start(t, b) ==
    /\ pc[t] = "joining" /\ b \in branches[t] /\ pc[b] = "pending"
    /\ HasRoom(t)
    /\ \A c \in branches[t] : pc[c] = "pending" => b <= c
    /\ pc' = [pc EXCEPT ![b] = "running"]
    /\ UNCHANGED <<stack, want, code, branches, limit, raising, held, steps, started>>

\* A thread comes to its end; a branch keeps the exception it ends with.
Finish(t) ==
    /\ pc[t] = "running" /\ stack[t] = <<>>
    /\ pc' = [pc EXCEPT ![t] = "ended"]
    /\ UNCHANGED <<stack, want, code, branches, limit, raising, held, steps, started>>

\* All branches have ended: the block ends, with an exception if one did.
AllEnded_mutant(t) ==  \* the first failure is reported at once
    \E b \in branches[t] : pc[b] = "ended"
AllEnded(t) == \A b \in branches[t] : pc[b] = "ended"
Join(t) ==
    /\ pc[t] = "joining" /\ AllEnded(t)
    /\ raising' = [raising EXCEPT ![t] = \E b \in branches[t] : raising[b]]
    /\ branches' = [branches EXCEPT ![t] = {}]
    /\ limit' = [limit EXCEPT ![t] = 0]
    /\ pc' = [pc EXCEPT ![t] = "running"]
    /\ UNCHANGED <<stack, want, code, held, steps, started>>

Step(t) ==
    \/ Call(t) \/ Enter(t) \/ Acquire(t) \/ Wait(t) \/ Leave(t)
    \/ Raise(t) \/ Catch(t) \/ Parallel(t) \/ Finish(t) \/ Join(t)
    \/ \E b \in Threads : Start(t, b)

Next == \E t \in Threads : Step(t)

Spec == Init /\ [][Next]_vars

\* The hub of green threads runs every thread that can run again and again.
FairSpec == Spec /\ \A t \in Threads : WF_vars(Step(t))

-----------------------------------------------------------------------------
(* Properties *)

\* The bodies t is in.
Bodies(t) == {c \in Calls : \E k \in 1 .. Len(stack[t]) : stack[t][k].call = c}

\* Synchronize, in its own terms: two calls of a method exclude each other
\* unless the method is not to lock its receiver and has no argument value
\* to lock, the receivers differ, or the locked argument values differ.
Excludes(c, d) ==
    /\ c.method = d.method
    /\ c.method \in OnThis \/ ArgValues(c) # {}
    /\ c.method \in OnThis \ Static => c.this = d.this
    /\ ArgValues(c) = ArgValues(d)

\* Two threads are never in bodies that exclude each other.
MutualExclusion ==
    \A t, u \in Threads : t # u =>
        \A c \in Bodies(t), d \in Bodies(u) : ~Excludes(c, d)

\* A thread waits only for a lock that another thread, still to end, has
\* taken and will release: no wake-up is lost.
WaitedLockIsHeld ==
    \A t \in Threads : pc[t] = "waiting" =>
        \E u \in Owners(Lock(want[t])) \ {t} : pc[u] \in Active

\* A lock is in the lists for as long as its owner is in the outermost body
\* it was taken for: none is left behind by an exception, none is released
\* by an inner call.
HeldWhileInside ==
    \A lock \in Locks, t \in Threads :
        <<lock, t>> \in held <=> \E c \in Bodies(t) : Locked(c) /\ Lock(c) = lock

\* The locks of methods (synchronize in executor.py) protect their bodies for
\* as long as they run and no longer, and who waits for one waits for a thread.
LocksProtect == MutualExclusion /\ HeldWhileInside /\ WaitedLockIsHeld

\* A branch lives only while the thread that executes the block waits for
\* it: nothing goes on in the background when the block has ended, not even
\* after the failure of another branch.
BranchesAreAwaited ==
    \A b \in Threads \ {Main} : pc[b] \notin {"absent", "ended"} =>
        \E t \in Threads : pc[t] = "joining" /\ b \in branches[t]

\* The call of the engine returns, if bodies call methods in an order that
\* is the same for all (re-entrance apart).
EngineCallReturns == <>(pc[Main] = "ended")
===============================================================================
