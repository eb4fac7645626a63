------------------------------- MODULE Statements -------------------------------
(***************************************************************************)
(* The interpreter of MuranoPL method bodies: blocks of statements and of  *)
(* macros, exceptions with Try, Catch, Else and Finally, and calls.        *)
(*                                                                         *)
(* The calls of `execute' that are under way are a stack.  What an         *)
(* expression evaluates to is chosen.  Branches of Parallel share nothing  *)
(* that is modelled here, so they run one after the other (MethodLocks has *)
(* their interleavings).                                                   *)
(***************************************************************************)
EXTENDS Naturals, Sequences, SequencesExt, FiniteSets

CONSTANTS
    Programs,        \* bodies of methods
    MaxRounds,       \* bound: of one loop
    MaxDepth         \* bound: of the stack (a method may call itself)

\* A block is a sequence of nodes, a record with the field `op':
\*   "evaluate"                      an expression or an assignment
\*   "call"     blocks               of another method, with that body
\*   "return" "break" "continue" "rethrow"
\*   "throw"    names
\*   "loop"     blocks <<Do>>        While, For, Repeat
\*   "pick"     blocks, several, default   If, Match (one), Switch (several)
\*   "parallel" blocks
\*   "try"      body, catch, finally, else  catch: list of [with, do]
\* Blocks that a macro does not have are NoBlock.
NoBlock == <<[op |-> "none"]>>

VARIABLES
    stack,     \* activations
    signal,    \* what is being raised
    balance    \* history: of Try with Finally, those entered whose Finally has not begun

interpreting == <<stack, signal, balance>>

Calm == [kind |-> "none", names |-> {}]
Raising(names) == [kind |-> "raise", names |-> names]
Flow(kind) == [kind |-> kind, names |-> {}]

\* What a context has under $?currentException: nothing of its own, None, or
\* an exception, by its names.
Unset == [set |-> FALSE, names |-> {}]
Current(names) == [set |-> TRUE, names |-> names]

Block(code) == [at |-> "block", code |-> code]
Context(at) == [at |-> at, current |-> Unset]

StatementsInit == stack = <<>> /\ signal = Calm /\ balance = 0

\* MethodBlock.execute, called by the engine.
StartMethod ==
    /\ stack = <<>> /\ signal = Calm
    /\ \E body \in Programs : stack' = <<Context("method"), Block(body)>>
    /\ UNCHANGED <<signal, balance>>

-----------------------------------------------------------------------------
\* Contexts: a method has one of its own and so has a branch, which sees what
\* is set outside.
Places == {n \in DOMAIN stack : stack[n].at \in {"method", "branch"}}
Innermost(P) == CHOOSE n \in P : \A m \in P : m <= n
Here == Innermost(Places)
\* The method that is running.
MethodAt == Innermost({n \in Places : stack[n].at = "method"})
CurrentException ==
    LET known == {n \in Places : n >= MethodAt /\ stack[n].current.set} IN
    IF known = {} THEN {} ELSE stack[Innermost(known)].current.names

Activation == stack[Len(stack)]
Below == Front(stack)
Replace(frame) == Append(Below, frame)
Quiet == UNCHANGED <<signal, balance>>

\* CodeBlock.execute: the next statement of the block on top.
NextIs(op) == /\ stack # <<>> /\ signal = Calm /\ Activation.at = "block"
            /\ Activation.code # <<>> /\ Activation.code[1].op = op
Node == Activation.code[1]
Rest == Append(Below, Block(Tail(Activation.code)))

\* Statement.execute: what Python raises gets its type for a name.
Evaluate ==
    /\ NextIs("evaluate") /\ stack' = Rest
    /\ signal' \in {Calm, Raising({"Python"})}
    /\ UNCHANGED balance

CallMethod ==
    /\ NextIs("call") /\ Len(stack) < MaxDepth
    /\ stack' = Rest \o <<Context("method"), Block(Node.blocks[1])>> /\ Quiet

\* Return, Break and Continue, and Throw, with the names resolved.
Jump ==
    /\ \E op \in {"return", "break", "continue"} : NextIs(op) /\ signal' = Flow(op)
    /\ stack' = Rest /\ UNCHANGED balance
Throw ==
    /\ NextIs("throw") /\ signal' = Raising(Node.names)
    /\ stack' = Rest /\ UNCHANGED balance

\* RethrowMacro: a TypeError if there is no current exception.
Rethrow ==
    /\ NextIs("rethrow")
    /\ signal' = Raising(IF CurrentException = {} THEN {"TypeError"} ELSE CurrentException)
    /\ stack' = Rest /\ UNCHANGED balance

-----------------------------------------------------------------------------
(* Macros with blocks *)

Loop ==
    /\ NextIs("loop") /\ Quiet
    /\ stack' = Append(Rest, [at |-> "loop", body |-> Node.blocks[1], rounds |-> 0])

\* As often as the condition or the collection says.
NextRound ==
    /\ stack # <<>> /\ signal = Calm /\ Activation.at = "loop" /\ Quiet
    /\ \/ /\ Activation.rounds < MaxRounds
          /\ stack' = Append(Replace([Activation EXCEPT !.rounds = @ + 1]),
                             Block(Activation.body))
       \/ stack' = Below

\* The first branch whose condition holds, or all those, in turn; the default
\* if none does.
Pick ==
    /\ NextIs("pick") /\ Quiet
    /\ \E some \in SUBSET DOMAIN Node.blocks :
          /\ ~Node.several => Cardinality(some) <= 1
          /\ stack' = IF some = {}
                      THEN IF Node.default = NoBlock THEN Rest
                           ELSE Append(Rest, Block(Node.default))
                      ELSE Append(Rest, Block(FlattenSeq(
                               [n \in DOMAIN Node.blocks |->
                                   IF n \in some THEN Node.blocks[n] ELSE <<>>])))

Parallel ==
    /\ NextIs("parallel") /\ Quiet
    /\ stack' = IF Node.blocks = <<>> THEN Rest
                ELSE Append(Rest, [at |-> "parallel", left |-> Node.blocks, first |-> Calm])

\* All branches run, whatever one of them raises; then what the first of them
\* in the order of the source raised is raised again.  six.reraise is given an
\* instance for the type: that does it in Python 2; Python 3 cannot call it.
NextBranch ==
    /\ stack # <<>> /\ signal = Calm /\ Activation.at = "parallel"
    /\ IF Activation.left # <<>>
       THEN /\ stack' = Replace([Activation EXCEPT !.left = Tail(@)])
                            \o <<Context("branch"), Block(Head(Activation.left))>>
            /\ UNCHANGED signal
       ELSE /\ stack' = Below
            /\ signal' \in IF Activation.first = Calm THEN {Calm}
                          ELSE {Activation.first, Raising({"TypeError"})}
    /\ UNCHANGED balance

-----------------------------------------------------------------------------
(* TryBlockMacro *)

Try ==
    /\ NextIs("try")
    /\ stack' = Rest \o <<[at |-> "try", node |-> Node, phase |-> "body", then |-> Calm],
                          Block(Node.body)>>
    /\ balance' = IF Node.finally = NoBlock THEN balance ELSE balance + 1
    /\ UNCHANGED signal

\* The context in which the macro runs is the one its Try is in.
SetCurrent(frames, names) ==
    LET place == Innermost({n \in DOMAIN frames : frames[n].at \in {"method", "branch"}}) IN
    [frames EXCEPT ![place].current = Current(names)]

\* The first Catch that has one of the names, or none at all, in its With.
CatchBlock(node, names) ==
    LET fit == {n \in DOMAIN node.catch :
                   node.catch[n].with = {} \/ node.catch[n].with \cap names # {}}
    IN  IF fit = {} THEN 0 ELSE CHOOSE n \in fit : \A m \in fit : n <= m

\* Leave the Try with a signal: first through its Finally.
Finishing(frames, try, with) ==
    IF try.node.finally = NoBlock THEN frames
    ELSE frames \o <<[try EXCEPT !.phase = "finally", !.then = with],
                     Block(try.node.finally)>>
LeavesBy_mutant(try, with) == IF with.kind \in {"break", "continue"} THEN Below
                              ELSE Finishing(Below, try, with)
LeavesBy(try, with) == Finishing(Below, try, with)
Begun(frames) ==
    Cardinality({n \in DOMAIN frames : frames[n].at = "try" /\ frames[n].phase = "finally"})
LeaveTry(frames, with) ==
    /\ stack' = frames
    /\ signal' = IF Activation.node.finally = NoBlock THEN with ELSE Calm
    /\ balance' = balance + Begun(stack) - Begun(frames)

\* The body, a Catch or the Else ended well.
TryEnded ==
    /\ stack # <<>> /\ signal = Calm /\ Activation.at = "try"
    /\ \/ /\ Activation.phase = "body" /\ Activation.node.else # NoBlock
          /\ stack' = Append(Replace([Activation EXCEPT !.phase = "else"]),
                             Block(Activation.node.else))
          /\ Quiet
       \/ /\ \/ Activation.phase = "else"
             \/ Activation.phase = "body" /\ Activation.node.else = NoBlock
          /\ LeaveTry(LeavesBy(Activation, Calm), Calm)
       \/ /\ Activation.phase = "catch"
          /\ LeaveTry(SetCurrent(LeavesBy(Activation, Calm), {}), Calm)
       \/ /\ Activation.phase = "finally"
          /\ stack' = Below /\ signal' = Activation.then
          /\ UNCHANGED balance

\* An exception of the body goes through the blocks of Catch; if these are
\* there, $?currentException is None afterwards.
TryFailed ==
    /\ signal # Calm /\ stack # <<>> /\ Activation.at = "try"
    /\ LET found == CatchBlock(Activation.node, signal.names) IN
       \/ /\ Activation.phase = "body" /\ signal.kind = "raise" /\ found # 0
          /\ IF Activation.node.catch[found].do = NoBlock
             THEN LeaveTry(SetCurrent(LeavesBy(Activation, Calm), {}), Calm)
             ELSE /\ stack' = Append(SetCurrent(Replace([Activation EXCEPT !.phase = "catch"]),
                                                signal.names),
                                     Block(Activation.node.catch[found].do))
                  /\ signal' = Calm /\ UNCHANGED balance
       \/ /\ Activation.phase = "body" /\ signal.kind = "raise" /\ found = 0
          /\ LeaveTry(IF Activation.node.catch = <<>> THEN LeavesBy(Activation, signal)
                      ELSE SetCurrent(LeavesBy(Activation, signal), {}), signal)
       \/ /\ \/ Activation.phase = "body" /\ signal.kind # "raise"
             \/ Activation.phase = "else"
          /\ LeaveTry(LeavesBy(Activation, signal), signal)
       \/ /\ Activation.phase = "catch"
          /\ LeaveTry(SetCurrent(LeavesBy(Activation, signal), {}), signal)
       \/ /\ Activation.phase = "finally"
          /\ stack' = Below /\ UNCHANGED <<signal, balance>>

-----------------------------------------------------------------------------
(* The end of blocks and methods *)

EndBlock ==
    /\ stack # <<>> /\ signal = Calm /\ stack' = Below /\ Quiet
    /\ \/ Activation.at = "block" /\ Activation.code = <<>>
       \/ Activation.at \in {"method", "branch"}

\* Break and Continue end at a loop, Return at its method, where the others
\* are an error; a branch of Parallel keeps what it raised, if nothing
\* before did.
Unwind ==
    /\ signal # Calm /\ stack # <<>> /\ Activation.at # "try"
    /\ \/ Activation.at = "block" /\ stack' = Below /\ UNCHANGED signal
       \/ /\ Activation.at = "loop"
          /\ stack' = IF signal.kind = "continue" THEN stack ELSE Below
          /\ signal' = IF signal.kind \in {"break", "continue"} THEN Calm ELSE signal
       \/ /\ Activation.at = "method" /\ stack' = Below
          /\ signal' = CASE signal.kind = "return" -> Calm
                         [] signal.kind = "raise" -> signal
                         [] OTHER -> Raising({"DslInvalidOperationError"})
       \/ /\ Activation.at = "branch" /\ signal' = Calm
          /\ LET par == stack[Len(stack) - 1] IN
             stack' = Append(SubSeq(stack, 1, Len(stack) - 2),
                             [par EXCEPT !.first = IF @ = Calm THEN signal ELSE @])
    /\ UNCHANGED balance

StatementsNext ==
    \/ StartMethod \/ Evaluate \/ CallMethod \/ Jump \/ Throw \/ Rethrow
    \/ Loop \/ NextRound \/ Pick \/ Parallel \/ NextBranch
    \/ Try \/ TryEnded \/ TryFailed \/ EndBlock \/ Unwind

StatementsSpec == StatementsInit /\ [][StatementsNext]_interpreting

-----------------------------------------------------------------------------
\* Whatever way a Try is left, through jumps, exceptions, other Trys and
\* methods, its Finally has begun exactly once: those still owed are the ones
\* of Trys that are under way.
FinallyRuns ==
    balance = Cardinality({n \in DOMAIN stack :
                  /\ stack[n].at = "try" /\ stack[n].node.finally # NoBlock
                  /\ stack[n].phase # "finally"})
=============================================================================
