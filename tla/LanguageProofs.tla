---------------------------- MODULE LanguageProofs ----------------------------
(***************************************************************************)
(* Proofs about MuranoPL as it runs: statements (Statements), calls of     *)
(* methods (MethodCalls) and assignments (Assignments).                    *)
(*                                                                         *)
(* The property of the statements compares the number of Trys with a       *)
(* Finally that were entered with the Finallys that have begun.  Its       *)
(* inductive invariant counts, frame by frame, the Trys on the stack whose *)
(* Finally is still owed: pushing an activation adds what that activation  *)
(* owes, unwinding takes it away, and a stack that is empty owes nothing.  *)
(*                                                                         *)
(* Of the calls it says that each stands on those below it: a body runs in *)
(* the class of its method, its caller is the call below, and it may write *)
(* what constructors may exactly if one of those below makes an object.    *)
(*                                                                         *)
(* An assignment makes a copy of each value between the one it lands in    *)
(* and the end of its path.  Whoever reads another path afterwards finds,  *)
(* step by step, the copy at those places and elsewhere what was there     *)
(* before, unless the path goes through the place that was assigned to.    *)
(***************************************************************************)
EXTENDS Statements, MethodCalls, Assignments, SequenceTheorems, FiniteSetTheorems,
        WellFoundedInduction, TLAPS

-----------------------------------------------------------------------------
(* Stacks of activations *)

\* What an activation has that its Finally depends on.
IsActivation(f) == "at" \in DOMAIN f /\ (f.at = "try" => {"node", "phase"} \subseteq DOMAIN f)
Owes(f) == f.at = "try" /\ f.node.finally # NoBlock /\ f.phase # "finally"
InFinally(f) == f.at = "try" /\ f.phase = "finally"
DebtOf(f) == IF Owes(f) THEN 1 ELSE 0
StartOf(f) == IF InFinally(f) THEN 1 ELSE 0

On(s, f) == Append(s, f)
IsStack(s) == \E F : s \in Seq(F) /\ \A f \in F : IsActivation(f)
Good(s) == IsStack(s) /\ (s # <<>> => s[1].at = "method")
Owing(s) == Cardinality({n \in DOMAIN s : Owes(s[n])})

\* What one more index adds to a set of indices.
LEMMA OneMore ==
  ASSUME NEW n \in Nat, NEW A \in SUBSET (1 .. n), NEW B \in SUBSET (1 .. n + 1),
         \A k \in 1 .. n : k \in A <=> k \in B
  PROVE  Cardinality(A) \in Nat /\ Cardinality(B) = Cardinality(A) + (IF n + 1 \in B THEN 1 ELSE 0)
<1>1. IsFiniteSet(1 .. n)
  BY FS_Interval
<1>2. IsFiniteSet(A)
  BY <1>1, FS_Subset
<1>3. Cardinality(A) \in Nat
  BY <1>2, FS_CardinalityType
<1>a. n + 1 \notin A /\ \A k \in 1 .. n + 1 : k \in 1 .. n \/ k = n + 1
  OBVIOUS
<1>4. CASE n + 1 \in B
  <2>1. B = A \cup {n + 1} /\ n + 1 \notin A
    BY <1>4, <1>a
  <2>2. Cardinality(A \cup {n + 1}) = IF n + 1 \in A THEN Cardinality(A) ELSE Cardinality(A) + 1
    BY <1>2, FS_AddElement
  <2> QED  BY <1>3, <1>4, <2>1, <2>2
<1>5. CASE n + 1 \notin B
  <2>1. B = A
    BY <1>5, <1>a
  <2> QED  BY <1>3, <1>5, <2>1
<1> QED  BY <1>4, <1>5

\* Something on top of a stack counts for itself.
LEMMA Push ==
  ASSUME NEW s, IsStack(s), NEW f, IsActivation(f), NEW t, t = On(s, f)
  PROVE  /\ IsStack(t) /\ t # <<>> /\ Len(s) \in Nat /\ Len(t) = Len(s) + 1
         /\ t[Len(t)] = f /\ \A n \in 1 .. Len(s) : t[n] = s[n]
         /\ Owing(s) \in Nat /\ Owing(t) = Owing(s) + DebtOf(f)
         /\ Begun(s) \in Nat /\ Begun(t) = Begun(s) + StartOf(f)
<1>1. PICK F : s \in Seq(F) /\ \A g \in F : IsActivation(g)
  BY DEF IsStack
<1> DEFINE G == F \cup {f}
<1>2. s \in Seq(G) /\ \A g \in G : IsActivation(g)
  <2>1. F \subseteq G
    OBVIOUS
  <2> QED  BY <1>1, <2>1, SeqMonotonic
<1> HIDE DEF G
<1>3. f \in G
  BY DEF G
<1>4. /\ t \in Seq(G) /\ Len(t) = Len(s) + 1 /\ t[Len(s) + 1] = f
      /\ \A n \in 1 .. Len(s) : t[n] = s[n]
  BY <1>2, <1>3, AppendProperties DEF On
<1>5. /\ Len(s) \in Nat /\ DOMAIN s = 1 .. Len(s)
      /\ Len(t) \in Nat /\ DOMAIN t = 1 .. Len(s) + 1
  BY <1>2, <1>4, LenProperties
<1>6. IsStack(t) /\ t # <<>>
  BY <1>2, <1>4, <1>5, EmptySeq DEF IsStack
<1> DEFINE n == Len(s)
           A == {k \in DOMAIN s : Owes(s[k])}
           B == {k \in DOMAIN t : Owes(t[k])}
           C == {k \in DOMAIN s : s[k].at = "try" /\ s[k].phase = "finally"}
           D == {k \in DOMAIN t : t[k].at = "try" /\ t[k].phase = "finally"}
<1>7. /\ n \in Nat /\ A \in SUBSET (1 .. n) /\ B \in SUBSET (1 .. n + 1)
      /\ C \in SUBSET (1 .. n) /\ D \in SUBSET (1 .. n + 1)
  BY <1>5
<1>8. /\ \A k \in 1 .. n : k \in A <=> k \in B
      /\ \A k \in 1 .. n : k \in C <=> k \in D
  BY <1>4, <1>5
<1>9. (n + 1 \in B <=> Owes(f)) /\ (n + 1 \in D <=> InFinally(f))
  BY <1>4, <1>5 DEF InFinally
<1>10. Owing(s) = Cardinality(A) /\ Owing(t) = Cardinality(B)
  BY DEF Owing
<1>11. Begun(s) = Cardinality(C) /\ Begun(t) = Cardinality(D)
  BY DEF Begun
<1> HIDE DEF n, A, B, C, D
<1>12. Cardinality(A) \in Nat /\ Cardinality(B) = Cardinality(A) + (IF n + 1 \in B THEN 1 ELSE 0)
  BY <1>7, <1>8, OneMore
<1>13. Cardinality(C) \in Nat /\ Cardinality(D) = Cardinality(C) + (IF n + 1 \in D THEN 1 ELSE 0)
  BY <1>7, <1>8, OneMore
<1> QED  BY <1>4, <1>5, <1>6, <1>9, <1>10, <1>11, <1>12, <1>13 DEF DebtOf, StartOf

\* A stack is what is below its top, and the top.
LEMMA Pop ==
  ASSUME NEW s, IsStack(s), s # <<>>
  PROVE  /\ IsStack(Front(s)) /\ IsActivation(s[Len(s)]) /\ s = On(Front(s), s[Len(s)])
         /\ Len(s) \in Nat \ {0} /\ Len(Front(s)) = Len(s) - 1
         /\ \A n \in 1 .. Len(s) - 1 : Front(s)[n] = s[n]
<1>1. PICK F : s \in Seq(F) /\ \A g \in F : IsActivation(g)
  BY DEF IsStack
<1>2. Len(s) \in Nat \ {0} /\ \A n \in 1 .. Len(s) : s[n] \in F
  BY <1>1, EmptySeq, LenProperties
<1> DEFINE m == Len(s) - 1
           r == SubSeq(s, 1, m)
<1>3. m \in Nat /\ Len(s) = m + 1
  BY <1>2
<1> HIDE DEF m
<1>4. r \in Seq(F) /\ Len(r) = m /\ \A n \in 1 .. m : r[n] = s[n]
  <2>1. \A i \in 1 .. m : s[i] \in F
    BY <1>2, <1>3
  <2> HIDE DEF r
  <2>2. /\ r \in Seq(F) /\ Len(r) = (IF 1 <= m THEN m - 1 + 1 ELSE 0)
        /\ \A i \in 1 .. m - 1 + 1 : r[i] = s[1 + i - 1]
    BY <1>3, <2>1, SubSeqProperties DEF r
  <2> QED  BY <1>3, <2>2
<1>5. r = Front(s)
  BY DEF Front, m
<1> HIDE DEF r
<1>6. s = Append(r, s[Len(s)])
  <2>1. s[Len(s)] \in F
    BY <1>2
  <2>2. /\ Append(r, s[Len(s)]) \in Seq(F) /\ Len(Append(r, s[Len(s)])) = m + 1
        /\ Append(r, s[Len(s)])[m + 1] = s[Len(s)]
        /\ \A n \in 1 .. m : Append(r, s[Len(s)])[n] = r[n]
    BY <1>4, <2>1, AppendProperties
  <2>3. \A i \in 1 .. Len(s) : s[i] = Append(r, s[Len(s)])[i]
    BY <1>3, <1>4, <2>2
  <2> QED  BY <1>1, <1>3, <2>2, <2>3, SeqEqual
<1> QED  BY <1>1, <1>2, <1>3, <1>4, <1>5, <1>6 DEF IsStack, On

\* What is put on a stack that begins with a method.
LEMMA GoodPush ==
  ASSUME NEW s, Good(s), NEW f, IsActivation(f), s = <<>> => f.at = "method", NEW t, t = On(s, f)
  PROVE  /\ Good(t) /\ t # <<>> /\ t[Len(t)] = f
         /\ Owing(s) \in Nat /\ Owing(t) = Owing(s) + DebtOf(f)
         /\ Begun(s) \in Nat /\ Begun(t) = Begun(s) + StartOf(f)
<1>1. /\ IsStack(t) /\ t # <<>> /\ Len(s) \in Nat /\ Len(t) = Len(s) + 1
      /\ t[Len(t)] = f /\ \A n \in 1 .. Len(s) : t[n] = s[n]
      /\ Owing(s) \in Nat /\ Owing(t) = Owing(s) + DebtOf(f)
      /\ Begun(s) \in Nat /\ Begun(t) = Begun(s) + StartOf(f)
  <2>1. IsStack(s)
    BY DEF Good
  <2> QED  BY <2>1, Push
<1>2. CASE s = <<>>
  <2>1. Len(s) = 0
    BY <1>2, EmptySeq
  <2> QED  BY <1>1, <1>2, <2>1 DEF Good
<1>3. CASE s # <<>>
  <2>1. Len(s) \in Nat \ {0}
    BY <1>3, Pop DEF Good
  <2> QED  BY <1>1, <1>3, <2>1 DEF Good
<1> QED  BY <1>2, <1>3

\* ... that is no Try
LEMMA PlainPush ==
  ASSUME NEW s, Good(s), NEW f, IsActivation(f), f.at # "try", s = <<>> => f.at = "method",
         NEW t, t = On(s, f)
  PROVE  Good(t) /\ t # <<>> /\ Owing(t) = Owing(s) /\ Begun(t) = Begun(s)
<1>1. ~Owes(f) /\ ~InFinally(f)
  BY DEF Owes, InFinally
<1> QED  BY <1>1, GoodPush DEF DebtOf, StartOf

\* What is below the top of a stack that begins with a method.
LEMMA GoodPop ==
  ASSUME NEW s, Good(s), s # <<>>
  PROVE  /\ Good(Front(s)) /\ IsActivation(s[Len(s)])
         /\ Front(s) = <<>> => s[Len(s)].at = "method"
         /\ Owing(Front(s)) \in Nat /\ Owing(s) = Owing(Front(s)) + DebtOf(s[Len(s)])
         /\ Begun(Front(s)) \in Nat /\ Begun(s) = Begun(Front(s)) + StartOf(s[Len(s)])
<1> DEFINE r == Front(s)
           f == s[Len(s)]
<1>1. /\ IsStack(r) /\ IsActivation(f) /\ s = On(r, f)
      /\ Len(s) \in Nat \ {0} /\ Len(r) = Len(s) - 1
      /\ \A n \in 1 .. Len(s) - 1 : r[n] = s[n]
  BY Pop DEF Good
<1> HIDE DEF r, f
<1>2. /\ Owing(r) \in Nat /\ Owing(s) = Owing(r) + DebtOf(f)
      /\ Begun(r) \in Nat /\ Begun(s) = Begun(r) + StartOf(f)
  BY <1>1, Push
<1>3. r = <<>> => f.at = "method"
  <2> SUFFICES ASSUME r = <<>> PROVE f.at = "method"
    OBVIOUS
  <2>1. Len(r) = 0
    BY EmptySeq
  <2>2. f = s[1]
    <3>1. Len(s) = 1
      BY <1>1, <2>1
    <3> QED  BY <3>1 DEF f
  <2> QED  BY <2>2 DEF Good
<1>4. Good(r)
  <2> SUFFICES ASSUME r # <<>> PROVE r[1].at = "method"
    BY <1>1 DEF Good
  <2>1. Len(r) \in Nat \ {0}
    BY <1>1, Pop
  <2> QED  BY <1>1, <2>1 DEF Good
<1> QED  BY <1>1, <1>2, <1>3, <1>4 DEF r, f

\* Two activations at once.
LEMMA PushTwo ==
  ASSUME NEW s, IsStack(s), NEW f, IsActivation(f), NEW g, IsActivation(g)
  PROVE  s \o <<f, g>> = On(On(s, f), g)
<1>1. PICK F : s \in Seq(F) /\ \A h \in F : IsActivation(h)
  BY DEF IsStack
<1> DEFINE G == F \cup {f, g}
<1>2. s \in Seq(G)
  <2>1. F \subseteq G
    OBVIOUS
  <2> QED  BY <1>1, <2>1, SeqMonotonic
<1> HIDE DEF G
<1>3. f \in G /\ g \in G
  BY DEF G
<1> QED  BY <1>2, <1>3 DEF On

\* SetCurrent changes nothing that matters to a Finally, wherever it is.
LEMMA CurrentKeeps ==
  ASSUME NEW s, Good(s), NEW names
  PROVE  LET t == SetCurrent(s, names) IN
         Good(t) /\ (t = <<>> => s = <<>>) /\ Owing(t) = Owing(s) /\ Begun(t) = Begun(s)
<1> DEFINE place == Innermost({n \in DOMAIN s : s[n].at \in {"method", "branch"}})
           t == SetCurrent(s, names)
<1>1. PICK p : t = [s EXCEPT ![p].current = Current(names)]
  BY DEF SetCurrent
<1>2. PICK F : s \in Seq(F) /\ \A g \in F : IsActivation(g)
  BY DEF Good, IsStack
<1>3. Len(s) \in Nat /\ DOMAIN s = 1 .. Len(s) /\ \A n \in 1 .. Len(s) : s[n] \in F
  BY <1>2, LenProperties
<1> HIDE DEF t
<1>4. /\ DOMAIN t = DOMAIN s
      /\ \A n \in DOMAIN s : \/ t[n] = s[n]
                             \/ t[n] = [s[n] EXCEPT !.current = Current(names)]
  BY <1>1, <1>3
<1>5. \A n \in DOMAIN s : /\ IsActivation(t[n]) /\ t[n].at = s[n].at
                          /\ Owes(t[n]) <=> Owes(s[n])
                          /\ InFinally(t[n]) <=> InFinally(s[n])
  <2> TAKE n \in DOMAIN s
  <2>1. IsActivation(s[n])
    BY <1>2, <1>3
  <2>2. CASE t[n] = s[n]
    BY <2>1, <2>2
  <2>3. CASE t[n] = [s[n] EXCEPT !.current = Current(names)]
    <3> DEFINE f == s[n]
               g == t[n]
    <3>1. IsActivation(f) /\ g = [f EXCEPT !.current = Current(names)]
      BY <2>1, <2>3
    <3> HIDE DEF f, g
    <3>2. DOMAIN g = DOMAIN f /\ g.at = f.at /\ IsActivation(g)
      BY <3>1 DEF IsActivation
    <3>3. f.at = "try" => g.node = f.node /\ g.phase = f.phase
      BY <3>1 DEF IsActivation
    <3>4. (Owes(g) <=> Owes(f)) /\ (InFinally(g) <=> InFinally(f))
      BY <3>2, <3>3 DEF Owes, InFinally
    <3> QED  BY <3>2, <3>4 DEF f, g
  <2> QED  BY <1>4, <2>2, <2>3
<1>6. \E G : t \in Seq(G) /\ \A g \in G : IsActivation(g)
  <2> DEFINE G == {t[n] : n \in 1 .. Len(s)}
  <2>1. t \in [1 .. Len(s) -> G]
    BY <1>1, <1>3, <1>4
  <2>2. t \in Seq(G)
    BY <1>3, <2>1, SeqDef
  <2> QED  BY <1>3, <1>5, <2>2
<1>7. (t = <<>> <=> s = <<>>) /\ (t # <<>> => t[1].at = "method")
  <2>1. IsStack(t) /\ IsStack(s)
    BY <1>2, <1>6 DEF IsStack
  <2>2. s # <<>> => 1 \in DOMAIN s
    BY <1>2, <1>3, EmptySeq
  <2>3. t # <<>> => 1 \in DOMAIN t
    <3>1. PICK G : t \in Seq(G)
      BY <1>6
    <3> QED  BY <3>1, EmptySeq, LenProperties
  <2>4. DOMAIN <<>> = {}
    OBVIOUS
  <2> QED  BY <1>4, <1>5, <2>2, <2>3, <2>4 DEF Good
<1>8. Owing(t) = Owing(s)
  <2>1. {n \in DOMAIN t : Owes(t[n])} = {n \in DOMAIN s : Owes(s[n])}
    BY <1>4, <1>5
  <2> QED  BY <2>1 DEF Owing
<1>9. Begun(t) = Begun(s)
  <2>1. {n \in DOMAIN t : t[n].at = "try" /\ t[n].phase = "finally"}
           = {n \in DOMAIN s : s[n].at = "try" /\ s[n].phase = "finally"}
    BY <1>4, <1>5 DEF InFinally
  <2> QED  BY <2>1 DEF Begun
<1>10. Good(t)
  BY <1>6, <1>7 DEF Good, IsStack
<1> QED  BY <1>7, <1>8, <1>9, <1>10 DEF t

-----------------------------------------------------------------------------
(* The steps of the interpreter *)

StatementsInv == Good(stack) /\ balance = Owing(stack)

\* What there is when an activation is under way.
LEMMA OnTop ==
  ASSUME StatementsInv, stack # <<>>
  PROVE  /\ Good(Below) /\ IsActivation(Activation)
         /\ Below = <<>> => Activation.at = "method"
         /\ Owing(Below) \in Nat /\ balance = Owing(Below) + DebtOf(Activation)
         /\ Begun(Below) \in Nat /\ Begun(stack) = Begun(Below) + StartOf(Activation)
BY GoodPop DEF StatementsInv, Below, Activation

LEMMA PlainFrames ==
  /\ \A code : IsActivation(Block(code)) /\ Block(code).at = "block"
  /\ \A at : IsActivation(Context(at)) <=> (at # "try")
  /\ \A at : Context(at).at = at
BY DEF Block, Context, IsActivation

\* Steps that push and pop what is no Try.
LEMMA PlainStep ==
  ASSUME StatementsInv, UNCHANGED balance, Good(stack'), Owing(stack') = balance
  PROVE  StatementsInv'
BY DEF StatementsInv

\* The next statement: the rest of its block is below what it pushes.
LEMMA RestIsGood ==
  ASSUME StatementsInv, NEW op, NextIs(op)
  PROVE  /\ Good(Rest) /\ Rest # <<>> /\ Owing(Rest) = balance /\ balance \in Nat
         /\ Begun(Rest) = Begun(stack)
<1>1. stack # <<>> /\ Activation.at = "block"
  BY DEF NextIs
<1>2. /\ Good(Below) /\ Below # <<>>
      /\ Owing(Below) \in Nat /\ balance = Owing(Below) /\ Begun(stack) = Begun(Below)
  BY <1>1, OnTop DEF DebtOf, Owes, StartOf, InFinally
<1> DEFINE f == Block(Tail(Activation.code))
<1>3. IsActivation(f) /\ f.at = "block" /\ Rest = On(Below, f)
  BY PlainFrames DEF Rest, On
<1> HIDE DEF f
<1> QED  BY <1>2, <1>3, PlainPush

\* A statement that leaves the stack to those above it.
LEMMA PushedOnRest ==
  ASSUME StatementsInv, NEW op, NextIs(op), NEW f, IsActivation(f), f.at # "try",
         stack' = On(Rest, f), UNCHANGED balance
  PROVE  StatementsInv'
BY RestIsGood, PlainPush DEF StatementsInv

LEMMA OnlyRest ==
  ASSUME StatementsInv, NEW op, NextIs(op), stack' = Rest, UNCHANGED balance
  PROVE  StatementsInv'
BY RestIsGood DEF StatementsInv

LEMMA StatementSteps ==
  ASSUME StatementsInv,
         Evaluate \/ CallMethod \/ Jump \/ Throw \/ Rethrow \/ Loop \/ Pick \/ Parallel
  PROVE  StatementsInv'
<1>1. CASE Evaluate \/ Throw \/ Rethrow \/ Jump
  <2>1. PICK op : NextIs(op) /\ stack' = Rest /\ UNCHANGED balance
    BY <1>1 DEF Evaluate, Throw, Rethrow, Jump
  <2> QED  BY <2>1, OnlyRest
<1>2. CASE CallMethod
  <2> DEFINE f == Context("method")
             g == Block(Node.blocks[1])
  <2>1. PICK op : NextIs(op) /\ stack' = Rest \o <<f, g>> /\ UNCHANGED balance
    BY <1>2 DEF CallMethod, Quiet
  <2>2. IsActivation(f) /\ f.at = "method" /\ IsActivation(g) /\ g.at = "block"
    BY PlainFrames
  <2> HIDE DEF f, g
  <2>3. Good(Rest) /\ Owing(Rest) = balance
    BY <2>1, RestIsGood
  <2>4. stack' = On(On(Rest, f), g)
    BY <2>1, <2>2, <2>3, PushTwo DEF Good
  <2>5. Good(On(Rest, f)) /\ On(Rest, f) # <<>> /\ Owing(On(Rest, f)) = balance
    BY <2>2, <2>3, PlainPush
  <2>6. Good(stack') /\ Owing(stack') = balance
    BY <2>2, <2>4, <2>5, PlainPush
  <2> QED  BY <2>1, <2>6 DEF StatementsInv
<1>3. CASE Loop
  <2> DEFINE f == [at |-> "loop", body |-> Node.blocks[1], rounds |-> 0]
  <2>1. PICK op : NextIs(op) /\ stack' = On(Rest, f) /\ UNCHANGED balance
    BY <1>3 DEF Loop, Quiet, On
  <2>2. IsActivation(f) /\ f.at = "loop"
    BY DEF IsActivation
  <2> HIDE DEF f
  <2> QED  BY <2>1, <2>2, PushedOnRest
<1>4. CASE Pick
  <2>1. PICK op : NextIs(op) /\ UNCHANGED balance
                  /\ (stack' = Rest \/ \E code : stack' = On(Rest, Block(code)))
    BY <1>4 DEF Pick, Quiet, On
  <2>2. CASE stack' = Rest
    BY <2>1, <2>2, OnlyRest
  <2>3. CASE \E code : stack' = On(Rest, Block(code))
    <3>1. PICK code : stack' = On(Rest, Block(code))
      BY <2>3
    <3>2. PICK f : f = Block(code)
      OBVIOUS
    <3>3. IsActivation(f) /\ f.at = "block"
      BY <3>2, PlainFrames
    <3> QED  BY <2>1, <3>1, <3>2, <3>3, PushedOnRest
  <2> QED  BY <2>1, <2>2, <2>3
<1>5. CASE Parallel
  <2> DEFINE f == [at |-> "parallel", left |-> Node.blocks, first |-> Calm]
  <2>1. PICK op : NextIs(op) /\ UNCHANGED balance /\ (stack' = Rest \/ stack' = On(Rest, f))
    BY <1>5 DEF Parallel, Quiet, On
  <2>2. IsActivation(f) /\ f.at = "parallel"
    BY DEF IsActivation
  <2> HIDE DEF f
  <2>3. CASE stack' = Rest
    BY <2>1, <2>3, OnlyRest
  <2> QED  BY <2>1, <2>2, <2>3, PushedOnRest
<1> QED  BY <1>1, <1>2, <1>3, <1>4, <1>5

\* The activation on top stays, or is replaced by one that owes as much.
LEMMA ReplacedTop ==
  ASSUME StatementsInv, stack # <<>>, NEW f, IsActivation(f), f.at = Activation.at,
         DebtOf(f) = DebtOf(Activation), StartOf(f) = StartOf(Activation), NEW t, t = On(Below, f)
  PROVE  Good(t) /\ t # <<>> /\ Owing(t) = balance /\ Begun(t) = Begun(stack)
<1>1. /\ Good(Below) /\ (Below = <<>> => Activation.at = "method")
      /\ Owing(Below) \in Nat /\ balance = Owing(Below) + DebtOf(Activation)
      /\ Begun(Below) \in Nat /\ Begun(stack) = Begun(Below) + StartOf(Activation)
  BY OnTop
<1>2. /\ Good(t) /\ t # <<>> /\ Owing(t) = Owing(Below) + DebtOf(f)
      /\ Begun(t) = Begun(Below) + StartOf(f)
  <2>1. Below = <<>> => f.at = "method"
    BY <1>1
  <2> QED  BY <1>1, <2>1, GoodPush
<1> QED  BY <1>1, <1>2

LEMMA PlainDebt ==
  ASSUME NEW f, f.at # "try"
  PROVE  DebtOf(f) = 0 /\ StartOf(f) = 0
BY DEF DebtOf, StartOf, Owes, InFinally

LEMMA PlainPop ==
  ASSUME StatementsInv, stack # <<>>, DebtOf(Activation) = 0, stack' = Below, UNCHANGED balance
  PROVE  StatementsInv'
BY OnTop DEF StatementsInv

LEMMA RoundSteps ==
  ASSUME StatementsInv, NextRound \/ NextBranch
  PROVE  StatementsInv'
<1>1. /\ stack # <<>> /\ Activation.at \in {"loop", "parallel"} /\ UNCHANGED balance
      /\ IsActivation(Activation) /\ DebtOf(Activation) = 0
  <2>1. stack # <<>> /\ Activation.at \in {"loop", "parallel"} /\ UNCHANGED balance
    BY DEF NextRound, NextBranch, Quiet
  <2> QED  BY <2>1, OnTop, PlainDebt
<1>2. CASE stack' = Below
  BY <1>1, <1>2, PlainPop
<1>3. CASE NextRound /\ stack' # Below
  <2> DEFINE f == [Activation EXCEPT !.rounds = Activation.rounds + 1]
             g == Block(Activation.body)
  <2>1. stack' = On(On(Below, f), g)
    BY <1>3 DEF NextRound, Replace, On
  <2>2. IsActivation(f) /\ f.at = Activation.at /\ IsActivation(g) /\ g.at = "block"
    BY <1>1, PlainFrames DEF IsActivation
  <2> HIDE DEF f, g
  <2>3. Good(On(Below, f)) /\ On(Below, f) # <<>> /\ Owing(On(Below, f)) = balance
    BY <1>1, <2>2, ReplacedTop, PlainDebt
  <2>4. Good(stack') /\ Owing(stack') = balance
    BY <2>1, <2>2, <2>3, PlainPush
  <2> QED  BY <1>1, <2>4, PlainStep
<1>4. CASE NextBranch /\ stack' # Below
  <2> DEFINE f == [Activation EXCEPT !.left = Tail(Activation.left)]
             g == Context("branch")
             h == Block(Head(Activation.left))
  <2>1. stack' = On(Below, f) \o <<g, h>>
    BY <1>4 DEF NextBranch, Replace, On
  <2>2. /\ IsActivation(f) /\ f.at = Activation.at /\ IsActivation(g) /\ g.at = "branch"
        /\ IsActivation(h) /\ h.at = "block"
    <3>1. IsActivation(f) /\ f.at = Activation.at
      BY <1>1 DEF IsActivation
    <3>2. IsActivation(g) /\ g.at = "branch" /\ IsActivation(h) /\ h.at = "block"
      BY PlainFrames
    <3> QED  BY <3>1, <3>2
  <2> HIDE DEF f, g, h
  <2>3. Good(On(Below, f)) /\ On(Below, f) # <<>> /\ Owing(On(Below, f)) = balance
    BY <1>1, <2>2, ReplacedTop, PlainDebt
  <2>4. stack' = On(On(On(Below, f), g), h)
    BY <2>1, <2>2, <2>3, PushTwo DEF Good
  <2> DEFINE t == On(On(Below, f), g)
  <2>5. Good(t) /\ t # <<>> /\ Owing(t) = balance
    BY <2>2, <2>3, PlainPush
  <2> HIDE DEF t
  <2>6. stack' = On(t, h)
    BY <2>4 DEF t
  <2>7. Good(stack') /\ Owing(stack') = balance
    BY <2>2, <2>5, <2>6, PlainPush
  <2> QED  BY <1>1, <2>7, PlainStep
<1> QED  BY <1>2, <1>3, <1>4

\* A Try is entered.
LEMMA TryStep ==
  ASSUME StatementsInv, Try
  PROVE  StatementsInv'
<1> DEFINE f == [at |-> "try", node |-> Node, phase |-> "body", then |-> Calm]
           g == Block(Node.body)
           debt == IF Node.finally = NoBlock THEN 0 ELSE 1
<1>1. /\ NextIs("try") /\ stack' = Rest \o <<f, g>>
      /\ balance' = IF Node.finally = NoBlock THEN balance ELSE balance + 1
  BY DEF Try
<1>2. PICK op : NextIs(op)
  BY <1>1
<1>3. Good(Rest) /\ Rest # <<>> /\ Owing(Rest) = balance /\ balance \in Nat
  BY <1>2, RestIsGood
<1>4. IsActivation(f) /\ f.at = "try" /\ IsActivation(g) /\ g.at = "block" /\ DebtOf(f) = debt
  <2>1. IsActivation(f) /\ f.at = "try" /\ DebtOf(f) = debt
    BY DEF IsActivation, DebtOf, Owes
  <2>2. IsActivation(g) /\ g.at = "block"
    BY PlainFrames
  <2> QED  BY <2>1, <2>2
<1>5. balance' = balance + debt
  BY <1>1, <1>3
<1> HIDE DEF f, g, debt
<1>6. stack' = On(On(Rest, f), g)
  BY <1>1, <1>3, <1>4, PushTwo DEF Good
<1> DEFINE t == On(Rest, f)
<1>7. Good(t) /\ t # <<>> /\ Owing(t) = balance + debt
  BY <1>3, <1>4, GoodPush
<1> HIDE DEF t
<1>8. stack' = On(t, g)
  BY <1>6 DEF t
<1>9. Good(stack') /\ Owing(stack') = balance + debt
  BY <1>4, <1>7, <1>8, PlainPush
<1> QED  BY <1>5, <1>9 DEF StatementsInv

\* A Try that is not in its Finally is left: what it owed begins.
LEMMA Leaving ==
  ASSUME StatementsInv, stack # <<>>, Activation.at = "try", Activation.phase # "finally",
         NEW with, NEW t, \/ t = LeavesBy(Activation, with)
                          \/ \E names : t = SetCurrent(LeavesBy(Activation, with), names)
  PROVE  Good(t) /\ Owing(t) = balance + Begun(stack) - Begun(t)
<1> DEFINE r == LeavesBy(Activation, with)
           f == [Activation EXCEPT !.phase = "finally", !.then = with]
           g == Block(Activation.node.finally)
<1>1. /\ Good(Below) /\ IsActivation(Activation) /\ Below # <<>>
      /\ Owing(Below) \in Nat /\ balance = Owing(Below) + DebtOf(Activation)
      /\ Begun(Below) \in Nat /\ Begun(stack) = Begun(Below) + StartOf(Activation)
  BY OnTop
<1>2. StartOf(Activation) = 0
  BY DEF StartOf, InFinally
<1>3. Good(r) /\ Owing(r) = Owing(Below) /\ Begun(r) = Begun(Below) + DebtOf(Activation)
  <2>1. CASE Activation.node.finally = NoBlock
    <3>1. r = Below
      BY <2>1 DEF LeavesBy, Finishing
    <3>2. DebtOf(Activation) = 0
      BY <2>1 DEF DebtOf, Owes
    <3> HIDE DEF r
    <3> QED  BY <1>1, <3>1, <3>2
  <2>2. CASE Activation.node.finally # NoBlock
    <3>1. r = Below \o <<f, g>>
      BY <2>2 DEF LeavesBy, Finishing
    <3>2. DebtOf(Activation) = 1
      BY <2>2 DEF DebtOf, Owes
    <3>3. f.at = "try" /\ f.phase = "finally" /\ IsActivation(f)
      BY <1>1 DEF IsActivation
    <3>4. IsActivation(g) /\ g.at = "block"
      BY PlainFrames
    <3> HIDE DEF r, f, g
    <3>5. DebtOf(f) = 0 /\ StartOf(f) = 1
      BY <3>3 DEF DebtOf, StartOf, Owes, InFinally
    <3>6. r = On(On(Below, f), g)
      BY <1>1, <3>1, <3>3, <3>4, PushTwo DEF Good
    <3> DEFINE u == On(Below, f)
    <3>7. Good(u) /\ u # <<>> /\ Owing(u) = Owing(Below) /\ Begun(u) = Begun(Below) + 1
      BY <1>1, <3>3, <3>5, GoodPush
    <3>8. r = On(u, g)
      BY <3>6
    <3> HIDE DEF u
    <3>9. Good(r) /\ Owing(r) = Owing(u) /\ Begun(r) = Begun(u)
      BY <3>4, <3>7, <3>8, PlainPush
    <3> QED  BY <3>2, <3>7, <3>9
  <2> QED  BY <2>1, <2>2
<1> HIDE DEF r
<1>4. Good(t) /\ Owing(t) = Owing(r) /\ Begun(t) = Begun(r)
  <2>1. CASE t = r
    BY <1>3, <2>1
  <2>2. CASE \E names : t = SetCurrent(r, names)
    <3>1. PICK names : t = SetCurrent(r, names)
      BY <2>2
    <3> QED  BY <1>3, <3>1, CurrentKeeps
  <2> QED  BY <2>1, <2>2 DEF r
<1>5. DebtOf(Activation) \in Nat
  BY DEF DebtOf
<1> QED  BY <1>1, <1>2, <1>3, <1>4, <1>5

LEMMA TryLeft ==
  ASSUME StatementsInv, stack # <<>>, Activation.at = "try", Activation.phase # "finally",
         NEW with, NEW next, LeaveTry(next, with),
         \/ next = LeavesBy(Activation, with)
         \/ \E names : next = SetCurrent(LeavesBy(Activation, with), names)
  PROVE  StatementsInv'
<1>1. Good(next) /\ Owing(next) = balance + Begun(stack) - Begun(next)
  BY Leaving
<1>2. stack' = next /\ balance' = balance + Begun(stack) - Begun(next)
  BY DEF LeaveTry
<1> QED  BY <1>1, <1>2 DEF StatementsInv

\* The phase of a Try changes before its Finally.
LEMMA PhaseChanged ==
  ASSUME StatementsInv, stack # <<>>, Activation.at = "try", Activation.phase # "finally",
         NEW reached \in {"else", "catch"}, NEW t, t = Replace([Activation EXCEPT !.phase = reached])
  PROVE  Good(t) /\ t # <<>> /\ Owing(t) = balance
<1> DEFINE f == [Activation EXCEPT !.phase = reached]
<1>1. IsActivation(Activation)
  BY OnTop
<1>2. /\ IsActivation(f) /\ f.at = Activation.at /\ f.node = Activation.node /\ f.phase = reached
  BY <1>1 DEF IsActivation
<1> HIDE DEF f
<1>3. DebtOf(f) = DebtOf(Activation) /\ StartOf(f) = StartOf(Activation)
  BY <1>2 DEF DebtOf, StartOf, Owes, InFinally
<1>4. t = On(Below, f)
  BY DEF Replace, On, f
<1> QED  BY <1>2, <1>3, <1>4, ReplacedTop

\* A block of a Try on top of it.
LEMMA BlockOn ==
  ASSUME NEW s, Good(s), s # <<>>, Owing(s) = balance, NEW code,
         stack' = Append(s, Block(code)), UNCHANGED balance
  PROVE  StatementsInv'
<1> DEFINE f == Block(code)
<1>1. IsActivation(f) /\ f.at = "block" /\ stack' = On(s, f)
  BY PlainFrames DEF On
<1> HIDE DEF f
<1> QED  BY <1>1, PlainPush DEF StatementsInv

LEMMA TrySteps ==
  ASSUME StatementsInv, TryEnded \/ TryFailed
  PROVE  StatementsInv'
<1>1. stack # <<>> /\ Activation.at = "try"
  BY DEF TryEnded, TryFailed
<1>2. CASE Activation.phase = "finally"
  <2>1. stack' = Below /\ UNCHANGED balance
    BY <1>2 DEF TryEnded, TryFailed
  <2>2. DebtOf(Activation) = 0
    BY <1>2 DEF DebtOf, Owes
  <2> QED  BY <1>1, <2>1, <2>2, PlainPop
<1>3. CASE Activation.phase # "finally" /\ TryEnded
  <2>1. \/ /\ stack' = Append(Replace([Activation EXCEPT !.phase = "else"]),
                              Block(Activation.node.else))
           /\ UNCHANGED balance
        \/ LeaveTry(LeavesBy(Activation, Calm), Calm)
        \/ LeaveTry(SetCurrent(LeavesBy(Activation, Calm), {}), Calm)
    BY <1>3 DEF TryEnded, Quiet
  <2>2. CASE /\ stack' = Append(Replace([Activation EXCEPT !.phase = "else"]),
                                Block(Activation.node.else))
             /\ UNCHANGED balance
    <3>1. PICK reached \in {"else", "catch"} : reached = "else"
      OBVIOUS
    <3>2. PICK t : t = Replace([Activation EXCEPT !.phase = reached])
      OBVIOUS
    <3>3. Good(t) /\ t # <<>> /\ Owing(t) = balance
      BY <1>1, <1>3, <3>2, PhaseChanged
    <3>4. PICK code : stack' = Append(t, Block(code))
      BY <2>2, <3>1, <3>2
    <3> QED  BY <2>2, <3>3, <3>4, BlockOn
  <2>3. CASE LeaveTry(LeavesBy(Activation, Calm), Calm)
    BY <1>1, <1>3, <2>3, TryLeft
  <2>4. CASE LeaveTry(SetCurrent(LeavesBy(Activation, Calm), {}), Calm)
    <3>1. PICK names : names = {}
      OBVIOUS
    <3> QED  BY <1>1, <1>3, <2>4, <3>1, TryLeft
  <2> QED  BY <2>1, <2>2, <2>3, <2>4
<1>4. CASE Activation.phase # "finally" /\ TryFailed
  <2>1. \/ \E names, code :
              /\ stack' = Append(SetCurrent(Replace([Activation EXCEPT !.phase = "catch"]), names),
                                 Block(code))
              /\ UNCHANGED balance
        \/ \E with : \/ LeaveTry(LeavesBy(Activation, with), with)
                     \/ LeaveTry(SetCurrent(LeavesBy(Activation, with), {}), with)
    BY <1>4 DEF TryFailed
  <2>2. ASSUME NEW names, NEW code, UNCHANGED balance,
               stack' = Append(SetCurrent(Replace([Activation EXCEPT !.phase = "catch"]), names),
                               Block(code))
        PROVE  StatementsInv'
    <3>1. PICK reached \in {"else", "catch"} : reached = "catch"
      OBVIOUS
    <3>2. PICK t : t = Replace([Activation EXCEPT !.phase = reached])
      OBVIOUS
    <3>3. Good(t) /\ t # <<>> /\ Owing(t) = balance
      BY <1>1, <1>4, <3>2, PhaseChanged
    <3>4. PICK u : u = SetCurrent(t, names)
      OBVIOUS
    <3>5. Good(u) /\ u # <<>> /\ Owing(u) = balance
      BY <3>3, <3>4, CurrentKeeps
    <3>6. stack' = Append(u, Block(code))
      BY <2>2, <3>1, <3>2, <3>4
    <3> QED  BY <2>2, <3>5, <3>6, BlockOn
  <2>3. ASSUME NEW with, LeaveTry(LeavesBy(Activation, with), with)
        PROVE  StatementsInv'
    BY <1>1, <1>4, <2>3, TryLeft
  <2>4. ASSUME NEW with, LeaveTry(SetCurrent(LeavesBy(Activation, with), {}), with)
        PROVE  StatementsInv'
    <3>1. PICK names : names = {}
      OBVIOUS
    <3> QED  BY <1>1, <1>4, <2>4, <3>1, TryLeft
  <2> QED  BY <2>1, <2>2, <2>3, <2>4
<1> QED  BY <1>2, <1>3, <1>4

\* What a branch raises is kept by the Parallel below it.
LEMMA BranchUnwinds ==
  ASSUME StatementsInv, stack # <<>>, Activation.at = "branch", UNCHANGED balance, NEW first,
         stack' = Append(SubSeq(stack, 1, Len(stack) - 2),
                         [stack[Len(stack) - 1] EXCEPT !.first = first])
  PROVE  StatementsInv'
<1>1. /\ Good(Below) /\ Below # <<>> /\ Owing(Below) \in Nat /\ balance = Owing(Below)
  BY OnTop, PlainDebt
<1> DEFINE b == Below
           l == Len(stack)
           r == Front(b)
           par == b[Len(b)]
<1>2. /\ Good(r) /\ IsActivation(par) /\ (r = <<>> => par.at = "method")
      /\ Owing(r) \in Nat /\ Owing(b) = Owing(r) + DebtOf(par)
  <2> HIDE DEF b
  <2> QED  BY <1>1, GoodPop DEF b
<1>3. /\ l \in Nat \ {0} /\ Len(b) = l - 1 /\ \A n \in 1 .. l - 1 : b[n] = stack[n]
  BY Pop DEF StatementsInv, Good, Below
<1>4. Len(b) \in Nat \ {0}
  <2> HIDE DEF b
  <2> QED  BY <1>1, Pop DEF Good, b
<1> DEFINE f == [par EXCEPT !.first = first]
<1>5. par = stack[l - 1]
  <2> HIDE DEF b, l
  <2> QED  BY <1>3, <1>4
<1>6. r = SubSeq(stack, 1, l - 2)
  <2>1. PICK F : stack \in Seq(F)
    BY DEF StatementsInv, Good, IsStack
  <2>2. b = SubSeq(stack, 1, l - 1)
    BY DEF Below, Front
  <2>3. r = SubSeq(b, 1, Len(b) - 1)
    BY DEF Front
  <2>4. PICK G : b \in Seq(G)
    BY <1>1 DEF Good, IsStack
  <2> HIDE DEF b, l, r
  <2>5. Len(b) - 1 = l - 2 /\ l - 2 \in Nat
    BY <1>3, <1>4
  <2>6. r = SubSeq(b, 1, l - 2)
    BY <2>3, <2>5
  <2>7. \A i \in 1 .. l - 2 : b[i] = stack[i] /\ b[i] \in F /\ stack[i] \in F
    <3>1. DOMAIN stack = 1 .. l /\ \A i \in 1 .. l : stack[i] \in F
      BY <2>1, LenProperties DEF l
    <3> QED  BY <1>3, <3>1
  <2> DEFINE k == l - 2
             u == SubSeq(stack, 1, k)
             v == SubSeq(b, 1, k)
  <2>8. k \in Nat
    BY <2>5
  <2>9. \A i \in 1 .. k : b[i] = stack[i] /\ b[i] \in F /\ stack[i] \in F
    BY <2>7
  <2> HIDE DEF k, u, v
  <2>10. u \in Seq(F) /\ Len(u) = k /\ \A i \in 1 .. k : u[i] = stack[i]
    <3>1. /\ u \in Seq(F) /\ Len(u) = (IF 1 <= k THEN k - 1 + 1 ELSE 0)
          /\ \A i \in 1 .. k - 1 + 1 : u[i] = stack[1 + i - 1]
      BY <2>8, <2>9, SubSeqProperties DEF u
    <3> QED  BY <2>8, <3>1
  <2>11. v \in Seq(F) /\ Len(v) = k /\ \A i \in 1 .. k : v[i] = b[i]
    <3>1. /\ v \in Seq(F) /\ Len(v) = (IF 1 <= k THEN k - 1 + 1 ELSE 0)
          /\ \A i \in 1 .. k - 1 + 1 : v[i] = b[1 + i - 1]
      BY <2>8, <2>9, SubSeqProperties DEF v
    <3> QED  BY <2>8, <3>1
  <2>12. u = v
    <3>1. \A i \in 1 .. Len(u) : u[i] = v[i]
      BY <2>9, <2>10, <2>11
    <3> QED  BY <2>10, <2>11, <3>1, SeqEqual
  <2> QED  BY <2>6, <2>12 DEF u, v, k
<1>7. stack' = On(r, f)
  BY <1>5, <1>6 DEF On
<1> HIDE DEF b, l, r, par
<1>8. IsActivation(f) /\ f.at = par.at /\ (par.at = "try" => f.node = par.node /\ f.phase = par.phase)
  BY <1>2 DEF IsActivation
<1> HIDE DEF f
<1>9. DebtOf(f) = DebtOf(par)
  BY <1>8 DEF DebtOf, Owes
<1>10. Good(stack') /\ Owing(stack') = Owing(r) + DebtOf(f)
  <2>1. r = <<>> => f.at = "method"
    BY <1>2, <1>8
  <2>2. Good(r) /\ IsActivation(f)
    BY <1>2, <1>8
  <2> QED  BY <1>7, <2>1, <2>2, GoodPush
<1> QED  BY <1>1, <1>2, <1>9, <1>10 DEF StatementsInv, b

LEMMA UnwindSteps ==
  ASSUME StatementsInv, EndBlock \/ Unwind
  PROVE  StatementsInv'
<1>1. stack # <<>> /\ UNCHANGED balance
  BY DEF EndBlock, Unwind, Quiet
<1>2. CASE EndBlock
  <2>1. stack' = Below /\ Activation.at \in {"block", "method", "branch"}
    BY <1>2 DEF EndBlock
  <2> QED  BY <1>1, <2>1, PlainDebt, PlainPop
<1>3. CASE Unwind
  <2>1. /\ Activation.at # "try"
        /\ \/ stack' = Below
           \/ stack' = stack
           \/ /\ Activation.at = "branch"
              /\ \E first : stack' = Append(SubSeq(stack, 1, Len(stack) - 2),
                                            [stack[Len(stack) - 1] EXCEPT !.first = first])
    <3>1. CASE Activation.at = "branch"
      <4> DEFINE par == stack[Len(stack) - 1]
                 first == IF par.first = Calm THEN signal ELSE par.first
      <4>1. stack' = Append(SubSeq(stack, 1, Len(stack) - 2), [par EXCEPT !.first = first])
        BY <1>3, <3>1 DEF Unwind
      <4> QED  BY <3>1, <4>1
    <3>2. CASE Activation.at # "branch"
      BY <1>3, <3>2 DEF Unwind
    <3> QED  BY <3>1, <3>2
  <2>2. CASE stack' = Below
    BY <1>1, <2>1, <2>2, PlainDebt, PlainPop
  <2>3. CASE stack' = stack
    BY <1>1, <2>3 DEF StatementsInv
  <2>4. CASE Activation.at = "branch" /\ stack' # Below /\ stack' # stack
    BY <1>1, <2>1, <2>4, BranchUnwinds
  <2> QED  BY <2>1, <2>2, <2>3, <2>4
<1> QED  BY <1>2, <1>3

\* Whatever way a Try is left, through jumps, exceptions, other Trys and
\* methods, its Finally has begun once (TryBlockMacro.execute): for all
\* programs and depths.
THEOREM EveryFinallyRuns == StatementsSpec => []FinallyRuns
<1>1. StatementsInit => StatementsInv
  <2> SUFFICES ASSUME StatementsInit PROVE StatementsInv
    OBVIOUS
  <2>1. stack = <<>> /\ balance = 0
    BY DEF StatementsInit
  <2>2. IsStack(stack)
    <3>1. stack \in Seq({}) /\ \A f \in {} : IsActivation(f)
      BY <2>1, EmptySeq
    <3> QED  BY <3>1 DEF IsStack
  <2>3. {n \in DOMAIN stack : Owes(stack[n])} = {}
    BY <2>1
  <2>4. Owing(stack) = 0
    BY <2>3, FS_EmptySet DEF Owing
  <2> QED  BY <2>1, <2>2, <2>4 DEF StatementsInv, Good
<1>2. StatementsInv /\ [StatementsNext]_interpreting => StatementsInv'
  <2> SUFFICES ASSUME StatementsInv, [StatementsNext]_interpreting PROVE StatementsInv'
    OBVIOUS
  <2>1. CASE StartMethod
    <3>1. PICK body : stack' = <<Context("method"), Block(body)>>
      BY <2>1 DEF StartMethod
    <3>2. stack = <<>> /\ UNCHANGED balance
      BY <2>1 DEF StartMethod
    <3> DEFINE f == Context("method")
               g == Block(body)
               t == On(stack, f)
    <3>3. IsActivation(f) /\ f.at = "method" /\ IsActivation(g) /\ g.at = "block"
      BY PlainFrames
    <3>4. stack' = On(t, g)
      <4>1. stack' = <<f, g>>
        BY <3>1
      <4> HIDE DEF f, g
      <4> QED  BY <3>2, <4>1 DEF On
    <3> HIDE DEF f, g
    <3>5. Good(t) /\ t # <<>> /\ Owing(t) = balance
      BY <3>3, PlainPush DEF StatementsInv
    <3> HIDE DEF t
    <3>6. Good(stack') /\ Owing(stack') = balance
      BY <3>3, <3>4, <3>5, PlainPush
    <3> QED  BY <3>2, <3>6 DEF StatementsInv
  <2>2. CASE Evaluate \/ CallMethod \/ Jump \/ Throw \/ Rethrow \/ Loop \/ Pick \/ Parallel
    BY <2>2, StatementSteps
  <2>3. CASE NextRound \/ NextBranch
    BY <2>3, RoundSteps
  <2>4. CASE Try
    BY <2>4, TryStep
  <2>5. CASE TryEnded \/ TryFailed
    BY <2>5, TrySteps
  <2>6. CASE EndBlock \/ Unwind
    BY <2>6, UnwindSteps
  <2>7. CASE UNCHANGED interpreting
    BY <2>7 DEF interpreting, StatementsInv
  <2> QED  BY <2>1, <2>2, <2>3, <2>4, <2>5, <2>6, <2>7 DEF StatementsNext
<1>3. StatementsInv => FinallyRuns
  <2>1. Owing(stack) = Cardinality({n \in DOMAIN stack :
            /\ stack[n].at = "try" /\ stack[n].node.finally # NoBlock
            /\ stack[n].phase # "finally"})
    BY DEF Owing, Owes
  <2> QED  BY <2>1 DEF StatementsInv, FinallyRuns
<1> QED  BY <1>1, <1>2, <1>3, PTL DEF StatementsSpec

-----------------------------------------------------------------------------
(* Helpers *)

\* Of some natural numbers one is the least.
LEMMA LeastNatural ==
  ASSUME NEW T \in SUBSET Nat, T # {}
  PROVE  \E m \in T : \A n \in T : m <= n
<1> DEFINE R == OpToRel(<, Nat)
<1>1. IsWellFoundedOn(R, Nat)
  BY NatLessThanWellFounded, Zenon
<1>2. R = {ss \in Nat \X Nat : ss[1] < ss[2]}
  BY DEF OpToRel
<1> HIDE DEF R
<1>3. PICK x \in T : \A y \in T : ~(<<y, x>> \in R)
  BY <1>1, WFMin, Zenon
<1>4. \A y \in T : ~(y < x)
  BY <1>2, <1>3
<1> QED  BY <1>3, <1>4

\* A sequence with another last element, and one without it.
LEMMA TopReplaced ==
  ASSUME NEW S, NEW s \in Seq(S), s # <<>>, NEW x \in S
  PROVE  /\ Append(Front(s), x) \in Seq(S) /\ Len(Append(Front(s), x)) = Len(s)
         /\ Append(Front(s), x)[Len(s)] = x /\ \A i \in 1..(Len(s) - 1) : Append(Front(s), x)[i] = s[i]
         /\ Front(s) \in Seq(S) /\ Len(Front(s)) = Len(s) - 1 /\ \A i \in 1..(Len(s) - 1) : Front(s)[i] = s[i]
         /\ Last(s) = s[Len(s)] /\ Last(s) \in S /\ Len(s) \in Nat \ {0} /\ Len(s) \in DOMAIN s
<1>1. Len(s) \in Nat \ {0} /\ \A i \in 1..Len(s) : s[i] \in S
  BY EmptySeq
<1>2. Front(s) \in Seq(S) /\ Len(Front(s)) = Len(s) - 1 /\ \A i \in 1..(Len(s) - 1) : Front(s)[i] = s[i]
  <2>1. /\ SubSeq(s, 1, Len(s) - 1) \in Seq(S)
        /\ Len(SubSeq(s, 1, Len(s) - 1)) = (IF 1 <= Len(s) - 1 THEN (Len(s) - 1) - 1 + 1 ELSE 0)
        /\ \A i \in 1..((Len(s) - 1) - 1 + 1) : SubSeq(s, 1, Len(s) - 1)[i] = s[1 + i - 1]
    BY <1>1, SubSeqProperties
  <2>2. Front(s) = SubSeq(s, 1, Len(s) - 1)
    BY DEF Front
  <2>3. (Len(s) - 1) - 1 + 1 = Len(s) - 1 /\ \A i \in 1..(Len(s) - 1) : 1 + i - 1 = i
    BY <1>1
  <2> QED  BY <1>1, <2>1, <2>2, <2>3
<1> DEFINE f == Front(s)
<1>3. f \in Seq(S) /\ Len(f) = Len(s) - 1 /\ \A i \in 1..(Len(s) - 1) : f[i] = s[i]
  BY <1>2
<1> HIDE DEF f
<1>4. /\ Append(f, x) \in Seq(S) /\ Len(Append(f, x)) = Len(s)
      /\ Append(f, x)[Len(s)] = x /\ \A i \in 1..(Len(s) - 1) : Append(f, x)[i] = s[i]
  BY <1>1, <1>3
<1>5. Last(s) = s[Len(s)]
  BY DEF Last
<1> QED  BY <1>1, <1>2, <1>4, <1>5 DEF f

-----------------------------------------------------------------------------
(* Calls of methods *)

\* What every class inherits from is inherited by those that inherit from it,
\* and of two ancestors one inherits from the other.
LEMMA LineagesAreChains ==
  ASSUME CallsAssumption
  PROVE  \A c \in CallClasses :
           /\ Lineages[c] \subseteq CallClasses /\ c \in Lineages[c]
           /\ \A b \in Lineages[c] : Lineages[b] \subseteq Lineages[c]
           /\ \A b \in Lineages[c] : b = c \/ (ParentOf[c] \in CallClasses /\ b \in Lineages[ParentOf[c]])
<1> DEFINE Closed(S) == \A d \in S : ParentOf[d] # NoParent => ParentOf[d] \in S
<1>1. \A c \in CallClasses : Lineages[c] = {b \in CallClasses : \A S \in SUBSET CallClasses :
                                               c \in S /\ Closed(S) => b \in S}
  BY DEF Lineages
<1>2. ParentOf \in [CallClasses -> CallClasses \cup {NoParent}] /\ NoParent \notin CallClasses
  BY DEF CallsAssumption
<1> SUFFICES ASSUME NEW c \in CallClasses
             PROVE  /\ Lineages[c] \subseteq CallClasses /\ c \in Lineages[c]
                    /\ \A b \in Lineages[c] : Lineages[b] \subseteq Lineages[c]
                    /\ \A b \in Lineages[c] : b = c \/ (ParentOf[c] \in CallClasses /\ b \in Lineages[ParentOf[c]])
  OBVIOUS
<1>3. Lineages[c] \subseteq CallClasses /\ c \in Lineages[c]
  BY <1>1
<1>4. ASSUME NEW b \in Lineages[c], NEW a \in Lineages[b] PROVE a \in Lineages[c]
  <2> HIDE DEF Closed
  <2>1. b \in CallClasses /\ a \in CallClasses
    BY <1>1, <1>3, <1>4
  <2>2. ASSUME NEW S \in SUBSET CallClasses, c \in S, Closed(S) PROVE a \in S
    <3>1. b \in S
      BY <1>1, <2>2
    <3> QED  BY <1>1, <1>4, <2>1, <2>2, <3>1
  <2> QED  BY <1>1, <2>1, <2>2
<1>5. ASSUME NEW b \in Lineages[c], b # c PROVE ParentOf[c] \in CallClasses /\ b \in Lineages[ParentOf[c]]
  <2>0. \A S \in SUBSET CallClasses : c \in S /\ Closed(S) => b \in S
    BY <1>1
  <2>1. CASE ParentOf[c] = NoParent
    <3>1. {c} \in SUBSET CallClasses /\ c \in {c} /\ Closed({c})
      BY <2>1
    <3>2. b \in {c}
      BY <2>0, <3>1, Zenon
    <3> QED  BY <1>5, <3>2
  <2>2. CASE ParentOf[c] # NoParent
    <3>1. ParentOf[c] \in CallClasses
      BY <1>2, <2>2
    <3>2. ASSUME NEW S \in SUBSET CallClasses, ParentOf[c] \in S, Closed(S) PROVE b \in S
      <4>1. S \cup {c} \in SUBSET CallClasses /\ c \in S \cup {c} /\ Closed(S \cup {c})
        BY <3>2
      <4>2. b \in S \cup {c}
        BY <2>0, <4>1, Zenon
      <4> QED  BY <1>5, <4>2
    <3>3. b \in CallClasses
      BY <1>3
    <3> HIDE DEF Closed
    <3> QED  BY <1>1, <3>1, <3>2, <3>3
  <2> QED  BY <2>1, <2>2
<1> QED  BY <1>3, <1>4, <1>5

\* Of some ancestors of a class there is one that inherits from the others.
LEMMA NearestExists ==
  ASSUME CallsAssumption, NEW c \in CallClasses, NEW H \in SUBSET Lineages[c], H # {}
  PROVE  \E b \in H : b \in Nearest(H)
<1>1. /\ \A d \in CallClasses : d \in Lineages[d] /\ Lineages[d] \subseteq CallClasses
      /\ \A d \in CallClasses : \A b \in Lineages[d] :
            b = d \/ (ParentOf[d] \in CallClasses /\ b \in Lineages[ParentOf[d]])
  BY LineagesAreChains
<1>2. Lineages[c] = {b \in CallClasses : \A S \in SUBSET CallClasses :
          c \in S /\ (\A d \in S : ParentOf[d] # NoParent => ParentOf[d] \in S) => b \in S}
  BY DEF Lineages
<1> SUFFICES ASSUME ~\E b \in H : H \subseteq Lineages[b] PROVE FALSE
  BY DEF Nearest
<1> DEFINE U == {d \in CallClasses : H \subseteq Lineages[d]}
<1>3. c \in U /\ U \in SUBSET CallClasses
  OBVIOUS
<1>4. ASSUME NEW d \in U, ParentOf[d] # NoParent PROVE ParentOf[d] \in U
  <2>1. d \notin H /\ d \in CallClasses /\ H \subseteq Lineages[d]
    OBVIOUS
  <2>2. \A h \in H : ParentOf[d] \in CallClasses /\ h \in Lineages[ParentOf[d]]
    BY <1>1, <2>1
  <2> QED  BY <2>2
<1>5. Lineages[c] \subseteq U
  BY <1>2, <1>3, <1>4
<1> QED  BY <1>5

\* What a body is given: each value at one place (the body of PassedArrives).
Arrived(m, passed, bound) ==
    LET standard == NamesOf(m.scheme)
        places(v) == Cardinality({k \in DOMAIN bound.named : bound.named[k] = v})
                     + Cardinality({k \in DOMAIN bound.varargs : bound.varargs[k] = v})
                     + Cardinality({k \in DOMAIN bound.kwargs : bound.kwargs[k] = v})
    IN  /\ DOMAIN bound.named = standard
        /\ \A i \in DOMAIN passed.args : places(passed.args[i]) = 1
        /\ \A k \in DOMAIN passed.kwargs :
              /\ places(passed.kwargs[k]) = 1
              /\ k \in standard => bound.named[k] = passed.kwargs[k]

LEMMA BoundArrives ==
  ASSUME CallsAssumption, NEW m \in Methods, ~m.native, NEW passed, IsLabelled(passed),
         NEW bound \in Bound(m, passed)
  PROVE  Arrived(m, passed, bound)
<1> DEFINE standard == StandardOf(m.scheme)
           names == NamesOf(m.scheme)
           name(i) == m.scheme[i].name
<1>1. \A i, j \in standard : name(i) = name(j) => i = j
  BY DEF CallsAssumption, StandardOf
<1>2. \A n : n \in names <=> \E i \in standard : n = name(i)
  BY DEF NamesOf
<1>3. PICK mapped \in StubArguments(m.scheme, passed) : bound \in Canonized(m.scheme, mapped)
  BY DEF Bound
<1>4. /\ \A i \in standard \cap DOMAIN passed.args : name(i) \notin DOMAIN passed.kwargs
      /\ mapped = [args |-> [i \in standard \cup DOMAIN passed.args |->
                                IF i \in DOMAIN passed.args THEN passed.args[i]
                                ELSE IF name(i) \in DOMAIN passed.kwargs
                                     THEN passed.kwargs[name(i)] ELSE Default],
                   kwargs |-> Without(passed.kwargs, names)]
  BY <1>3 DEF StubArguments
<1>5. bound = [named |-> [n \in names |->
                             LET i == CHOOSE i \in standard : name(i) = n
                             IN  IF name(i) \in DOMAIN mapped.kwargs
                                 THEN mapped.kwargs[name(i)] ELSE mapped.args[i]],
               varargs |-> Without(mapped.args, standard), kwargs |-> Without(mapped.kwargs, names)]
  BY <1>3 DEF Canonized
<1> DEFINE value(i) == IF i \in DOMAIN passed.args THEN passed.args[i]
                       ELSE IF name(i) \in DOMAIN passed.kwargs
                            THEN passed.kwargs[name(i)] ELSE Default
<1>6. /\ DOMAIN mapped.args = standard \cup DOMAIN passed.args
      /\ \A i \in standard \cup DOMAIN passed.args : mapped.args[i] = value(i)
      /\ DOMAIN mapped.kwargs = DOMAIN passed.kwargs \ names
      /\ \A k \in DOMAIN passed.kwargs \ names : mapped.kwargs[k] = passed.kwargs[k]
  <2>1. mapped.args = [i \in standard \cup DOMAIN passed.args |-> value(i)]
    BY <1>4
  <2>2. mapped.kwargs = [k \in DOMAIN passed.kwargs \ names |-> passed.kwargs[k]]
    BY <1>4 DEF Without
  <2> HIDE DEF value, names, standard
  <2> QED  BY <2>1, <2>2
<1> HIDE DEF value
<1>7. DOMAIN bound.named = names /\ \A i \in standard : bound.named[name(i)] = value(i)
  <2>1. bound.named = [n \in names |->
                             LET i == CHOOSE i \in standard : name(i) = n
                             IN  IF name(i) \in DOMAIN mapped.kwargs
                                 THEN mapped.kwargs[name(i)] ELSE mapped.args[i]]
    BY <1>5
  <2> HIDE DEF names, standard
  <2>2. ASSUME NEW i \in standard PROVE bound.named[name(i)] = value(i)
    <3>1. (CHOOSE j \in standard : name(j) = name(i)) = i
      <4> HIDE DEF name
      <4> QED  BY <1>1
    <3>2. name(i) \in names /\ name(i) \notin DOMAIN mapped.kwargs
      BY <1>2, <1>6
    <3> HIDE DEF name
    <3> QED  BY <1>6, <2>1, <3>1, <3>2
  <2> QED  BY <2>1, <2>2
<1>8. /\ DOMAIN bound.varargs = DOMAIN passed.args \ standard
      /\ \A i \in DOMAIN passed.args \ standard : bound.varargs[i] = passed.args[i]
  <2>1. bound.varargs = [i \in DOMAIN mapped.args \ standard |-> mapped.args[i]]
    BY <1>5 DEF Without
  <2> HIDE DEF names, standard
  <2> QED  BY <1>6, <2>1 DEF value
<1>9. /\ DOMAIN bound.kwargs = DOMAIN passed.kwargs \ names
      /\ \A k \in DOMAIN passed.kwargs \ names : bound.kwargs[k] = passed.kwargs[k]
  <2>1. bound.kwargs = [k \in DOMAIN mapped.kwargs \ names |-> mapped.kwargs[k]]
    BY <1>5 DEF Without
  <2> HIDE DEF names, standard
  <2> QED  BY <1>6, <2>1
<1> DEFINE inNamed(v) == {k \in DOMAIN bound.named : bound.named[k] = v}
           inArgs(v) == {k \in DOMAIN bound.varargs : bound.varargs[k] = v}
           inKwargs(v) == {k \in DOMAIN bound.kwargs : bound.kwargs[k] = v}
           places(v) == Cardinality(inNamed(v)) + Cardinality(inArgs(v)) + Cardinality(inKwargs(v))
<1>10. \A v, a : /\ inNamed(v) = {a} /\ inArgs(v) = {} /\ inKwargs(v) = {} => places(v) = 1
                 /\ inNamed(v) = {} /\ inArgs(v) = {a} /\ inKwargs(v) = {} => places(v) = 1
                 /\ inNamed(v) = {} /\ inArgs(v) = {} /\ inKwargs(v) = {a} => places(v) = 1
  <2>1. \A a : Cardinality({a}) = 1
    BY FS_Singleton
  <2>2. Cardinality({}) = 0
    BY FS_EmptySet
  <2> HIDE DEF inNamed, inArgs, inKwargs
  <2> TAKE v, a
  <2>4. ASSUME inNamed(v) = {a}, inArgs(v) = {}, inKwargs(v) = {} PROVE places(v) = 1
    <3>1. places(v) = Cardinality({a}) + Cardinality({}) + Cardinality({})
      BY <2>4, Zenon
    <3>2. Cardinality({a}) = 1
      BY <2>1
    <3> HIDE DEF places
    <3> QED  BY <2>2, <3>1, <3>2
  <2>5. ASSUME inNamed(v) = {}, inArgs(v) = {a}, inKwargs(v) = {} PROVE places(v) = 1
    <3>1. places(v) = Cardinality({}) + Cardinality({a}) + Cardinality({})
      BY <2>5, Zenon
    <3>2. Cardinality({a}) = 1
      BY <2>1
    <3> HIDE DEF places
    <3> QED  BY <2>2, <3>1, <3>2
  <2>6. ASSUME inNamed(v) = {}, inArgs(v) = {}, inKwargs(v) = {a} PROVE places(v) = 1
    <3>1. places(v) = Cardinality({}) + Cardinality({}) + Cardinality({a})
      BY <2>6, Zenon
    <3>2. Cardinality({a}) = 1
      BY <2>1
    <3> HIDE DEF places
    <3> QED  BY <2>2, <3>1, <3>2
  <2> HIDE DEF places
  <2> QED  BY <2>4, <2>5, <2>6
<1>11. /\ \A i, j \in DOMAIN passed.args : passed.args[i] = passed.args[j] => i = j
       /\ \A k, n \in DOMAIN passed.kwargs : passed.kwargs[k] = passed.kwargs[n] => k = n
       /\ \A i \in DOMAIN passed.args, k \in DOMAIN passed.kwargs : passed.args[i] # passed.kwargs[k]
       /\ \A i \in DOMAIN passed.args : passed.args[i] # Default
       /\ \A k \in DOMAIN passed.kwargs : passed.kwargs[k] # Default
  BY DEF IsLabelled
<1> HIDE DEF standard, names, name
<1>12. \A v, k : /\ k \in inNamed(v) <=> \E i \in standard : k = name(i) /\ value(i) = v
                 /\ k \in inArgs(v) <=> k \in DOMAIN passed.args \ standard /\ passed.args[k] = v
                 /\ k \in inKwargs(v) <=> k \in DOMAIN passed.kwargs \ names /\ passed.kwargs[k] = v
  BY <1>2, <1>7, <1>8, <1>9
<1> HIDE DEF inNamed, inArgs, inKwargs, places
<1>13. ASSUME NEW j \in DOMAIN passed.args PROVE places(passed.args[j]) = 1
  <2> DEFINE v == passed.args[j]
  <2>1. \A i \in standard : value(i) = v => i = j
    BY <1>11 DEF value
  <2>2. j \in standard => value(j) = v
    BY DEF value
  <2> HIDE DEF v
  <2>3. inKwargs(v) = {}
    BY <1>11, <1>12 DEF v
  <2>4. CASE j \in standard
    <3>1. inNamed(v) = {name(j)}
      BY <1>12, <2>1, <2>2, <2>4
    <3>2. inArgs(v) = {}
      BY <1>11, <1>12, <2>4 DEF v
    <3> QED  BY <1>10, <2>3, <3>1, <3>2 DEF v
  <2>5. CASE j \notin standard
    <3>1. inNamed(v) = {}
      BY <1>12, <2>1, <2>5
    <3>2. inArgs(v) = {j}
      BY <1>11, <1>12, <2>5 DEF v
    <3> QED  BY <1>10, <2>3, <3>1, <3>2 DEF v
  <2> QED  BY <2>4, <2>5
<1>14. ASSUME NEW k \in DOMAIN passed.kwargs
       PROVE  places(passed.kwargs[k]) = 1 /\ (k \in names => bound.named[k] = passed.kwargs[k])
  <2> DEFINE v == passed.kwargs[k]
  <2>1. \A i \in standard : value(i) = v => k = name(i)
    BY <1>11 DEF value
  <2>2. \A i \in standard : k = name(i) => value(i) = v
    BY <1>4 DEF value, standard, name
  <2> HIDE DEF v
  <2>3. inArgs(v) = {}
    BY <1>11, <1>12 DEF v
  <2>4. CASE k \in names
    <3>1. PICK i \in standard : k = name(i)
      BY <1>2, <2>4
    <3>2. inNamed(v) = {k}
      BY <1>12, <2>1, <2>2, <3>1
    <3>3. inKwargs(v) = {}
      BY <1>11, <1>12, <2>4 DEF v
    <3>4. bound.named[k] = v
      BY <1>7, <2>2, <3>1
    <3> QED  BY <1>10, <2>3, <3>2, <3>3, <3>4 DEF v
  <2>5. CASE k \notin names
    <3>1. inNamed(v) = {}
      BY <1>2, <1>12, <2>1, <2>5
    <3>2. inKwargs(v) = {k}
      BY <1>11, <1>12, <2>5 DEF v
    <3> QED  BY <1>10, <2>3, <2>5, <3>1, <3>2 DEF v
  <2> QED  BY <2>4, <2>5
<1> QED  BY <1>7, <1>13, <1>14 DEF Arrived, places, inNamed, inArgs, inKwargs, names

\* What is known of the call at a depth: the context of a body, and of an
\* object that is being made.
BodyStands(s, n) ==
    LET c == s[n] IN
    /\ c.method \in Methods /\ c.pending = {}
    /\ c.ctx.type = c.method.cls /\ c.ctx.names = c.method.cls /\ c.ctx.caller = n - 1
    /\ ~c.method.static => IsKindOf(c.method.cls, InstanceOf[c.ctx.this])
    /\ c.ctx.writes <=> \E k \in 1..(n - 1) : s[k].kind = "new"
    /\ ~c.method.native => Arrived(c.method, c.passed, c.bound)
NewStands(s, n) ==
    LET c == s[n] IN
    c.method \in Instances /\ c.ctx.writes /\ c.pending \subseteq Lineages[InstanceOf[c.method]]
Stands(s, n) ==
    LET c == s[n] IN
    /\ c.kind \in {"body", "new"}
    /\ c.ctx.at = n /\ c.ctx.skip = FALSE /\ c.ctx.actionsOnly = FALSE
    /\ c.kind = "body" => BodyStands(s, n)
    /\ c.kind = "new" => NewStands(s, n)
AllStand(s) == (\E F : s \in Seq(F)) /\ \A n \in 1..Len(s) : Stands(s, n)

CallsInv ==
    /\ AllStand(calls)
    /\ properties \in [Slots -> Settings \cup {NotSet}] /\ given \in [Instances -> Settings \cup {NotSet}]
    /\ alive \in SUBSET Instances
    /\ ExposedOnly /\ MadeAsGiven

LEMMA StandsAlike ==
  ASSUME NEW s, NEW t, NEW n \in Nat \ {0}, t[n] = s[n], \A k \in 1..(n - 1) : t[k].kind = s[k].kind, Stands(s, n)
  PROVE  Stands(t, n)
<1>1. BodyStands(s, n) => BodyStands(t, n)
  BY DEF BodyStands
<1>2. NewStands(s, n) => NewStands(t, n)
  BY DEF NewStands
<1> QED  BY <1>1, <1>2 DEF Stands

\* One more call that stands on those below it.
LEMMA OneMoreStands ==
  ASSUME NEW s, AllStand(s), NEW c, Stands(Append(s, c), Len(s) + 1)
  PROVE  AllStand(Append(s, c))
<1>1. PICK F : s \in Seq(F)
  BY DEF AllStand
<1> DEFINE G == F \cup {c}
           t == Append(s, c)
<1>2. s \in Seq(G) /\ Len(s) \in Nat
  <2>1. \A k \in 1..Len(s) : s[k] \in G
    BY <1>1
  <2>2. s \in [1..Len(s) -> G] /\ Len(s) \in Nat
    BY <1>1, <2>1
  <2> HIDE DEF G
  <2> QED  BY <2>2
<1>3. c \in G
  OBVIOUS
<1>4. t \in Seq(G) /\ Len(t) = Len(s) + 1 /\ \A k \in 1..Len(s) : t[k] = s[k]
  <2> HIDE DEF G
  <2> QED  BY <1>2, <1>3
<1>5. ASSUME NEW n \in 1..Len(t) PROVE Stands(t, n)
  <2>1. CASE n = Len(s) + 1
    BY <2>1
  <2>2. CASE n # Len(s) + 1
    <3>1. n \in 1..Len(s) /\ n \in Nat \ {0} /\ \A k \in 1..(n - 1) : k \in 1..Len(s)
      BY <1>2, <1>4, <2>2
    <3>2. Stands(s, n)
      BY <3>1 DEF AllStand
    <3>3. t[n] = s[n] /\ \A k \in 1..(n - 1) : t[k].kind = s[k].kind
      BY <1>4, <3>1
    <3> HIDE DEF t
    <3> QED  BY <3>1, <3>2, <3>3, StandsAlike
  <2> QED  BY <2>1, <2>2
<1> QED  BY <1>4, <1>5 DEF AllStand

\* Who calls: nobody, or the innermost call, in its own context.
CalledBy(from, stubbed) ==
    \/ calls = <<>> /\ from = NoContext /\ stubbed
    \/ calls # <<>> /\ from = Last(calls).ctx

LEMMA CallerIs ==
  ASSUME AllStand(calls), NEW from, NEW stubbed, CalledBy(from, stubbed)
  PROVE  /\ from.skip = FALSE /\ from.actionsOnly = FALSE /\ from.at = Len(calls)
         /\ from = NoContext => stubbed /\ Len(calls) = 0
         /\ from.writes <=> \E k \in 1..Len(calls) : calls[k].kind = "new"
         /\ Len(calls) \in Nat
<1>1. PICK F : calls \in Seq(F)
  BY DEF AllStand
<1>2. CASE calls = <<>>
  <2>1. from = NoContext /\ stubbed /\ Len(calls) = 0
    BY <1>2 DEF CalledBy
  <2>2. from.skip = FALSE /\ from.actionsOnly = FALSE /\ from.at = 0 /\ from.writes = FALSE
    BY <2>1 DEF NoContext
  <2>3. ~\E k \in 1..Len(calls) : calls[k].kind = "new"
    BY <2>1
  <2> QED  BY <2>1, <2>2, <2>3
<1>3. CASE calls # <<>>
  <2>1. Len(calls) \in Nat \ {0} /\ Len(calls) \in 1..Len(calls)
    BY <1>1, <1>3, EmptySeq
  <2>2. from = calls[Len(calls)].ctx
    BY <1>3 DEF CalledBy, Last
  <2>3. Stands(calls, Len(calls))
    BY <2>1 DEF AllStand
  <2>4. from.skip = FALSE /\ from.actionsOnly = FALSE /\ from.at = Len(calls)
    BY <2>2, <2>3 DEF Stands
  <2>5. from # NoContext
    <3>1. NoContext.at = 0
      BY DEF NoContext
    <3> QED  BY <2>1, <2>4, <3>1
  <2>6. from.writes <=> \E k \in 1..Len(calls) : calls[k].kind = "new"
    <3>1. CASE calls[Len(calls)].kind = "new"
      BY <2>1, <2>2, <2>3, <3>1 DEF Stands, NewStands
    <3>2. CASE calls[Len(calls)].kind = "body"
      <4>1. from.writes <=> \E k \in 1..(Len(calls) - 1) : calls[k].kind = "new"
        BY <2>2, <2>3, <3>2 DEF Stands, BodyStands
      <4>2. \A k \in 1..Len(calls) : k = Len(calls) \/ k \in 1..(Len(calls) - 1)
        BY <2>1
      <4>3. \A k \in 1..(Len(calls) - 1) : k \in 1..Len(calls)
        BY <2>1
      <4> QED  BY <3>2, <4>1, <4>2, <4>3
    <3> QED  BY <2>3, <3>1, <3>2 DEF Stands
  <2> QED  BY <2>1, <2>4, <2>5, <2>6
<1> QED  BY <1>2, <1>3

LEMMA EnterKeeps ==
  ASSUME CallsAssumption, CallsInv, NEW m \in Methods, NEW this, NEW from, NEW stubbed,
         NEW action, NEW callers, NEW passed, IsLabelled(passed), CalledBy(from, stubbed),
         AllStand(callers), Len(callers) = Len(calls), \A k \in 1..Len(calls) : callers[k].kind = calls[k].kind,
         ~m.static => IsKindOf(m.cls, InstanceOf[this]),
         Enter(m, this, from, stubbed, action, callers, passed)
  PROVE  CallsInv'
<1>1. /\ from.skip = FALSE /\ from.actionsOnly = FALSE /\ from.at = Len(calls)
      /\ from = NoContext => stubbed /\ Len(calls) = 0
      /\ from.writes <=> \E k \in 1..Len(calls) : calls[k].kind = "new"
      /\ Len(calls) \in Nat
  BY CallerIs DEF CallsInv
<1>2. PICK context : context = IF stubbed THEN StubContext(m, this, from, action) ELSE from
  OBVIOUS
<1>3. PICK body : body = BodyContext(m, this, context)
  OBVIOUS
<1>4. /\ context.writes = from.writes
      /\ (IF context.skip THEN context.caller ELSE context.at) = Len(calls)
      /\ context.actionsOnly => Len(calls) = 0
  <2>1. CASE stubbed
    <3>1. context = StubContext(m, this, from, action)
      BY <1>2, <2>1
    <3>2. /\ context.skip = TRUE /\ context.writes = from.writes
          /\ context.caller = IF from.skip THEN from.caller ELSE from.at
      BY <3>1 DEF StubContext, ObjectContext, NoContext
    <3>3. context.actionsOnly => from = NoContext
      BY <3>1 DEF StubContext, ObjectContext, NoContext
    <3> QED  BY <1>1, <3>2, <3>3
  <2>2. CASE ~stubbed
    BY <1>1, <1>2, <2>2
  <2> QED  BY <2>1, <2>2
<1>5. /\ body.type = m.cls /\ body.names = m.cls /\ body.this = (IF m.static THEN m.cls ELSE this)
      /\ body.at = Len(calls) + 1 /\ body.skip = FALSE /\ body.actionsOnly = FALSE
      /\ body.writes = context.writes
      /\ body.caller = IF context.skip THEN context.caller ELSE context.at
  <2>1. body.type = m.cls /\ body.names = m.cls /\ body.this = (IF m.static THEN m.cls ELSE this)
    BY <1>3 DEF BodyContext, ObjectContext, NoContext
  <2>2. body.at = Len(calls) + 1 /\ body.skip = FALSE /\ body.actionsOnly = FALSE
    BY <1>3 DEF BodyContext, ObjectContext, NoContext
  <2>3. /\ body.writes = context.writes
        /\ body.caller = IF context.skip THEN context.caller ELSE context.at
    BY <1>3 DEF BodyContext, ObjectContext, NoContext
  <2> QED  BY <2>1, <2>2, <2>3
<1> DEFINE hidden == context.actionsOnly /\ ~m.action
<1>6. /\ refusedAt' = IF hidden THEN Len(calls) + 1 ELSE refusedAt
      /\ \E bound \in Bound(m, passed) :
            calls' = IF hidden THEN calls
                     ELSE Append(callers, [kind |-> "body", method |-> m, pending |-> {},
                                           passed |-> passed, bound |-> bound, ctx |-> body])
      /\ UNCHANGED <<properties, alive, given, touched>>
  BY <1>2, <1>3 DEF Enter
<1>7. ExposedOnly' /\ MadeAsGiven'
  <2>1. ExposedOnly'
    BY <1>1, <1>4, <1>6 DEF CallsInv, ExposedOnly
  <2>2. MadeAsGiven'
    BY <1>6 DEF CallsInv, MadeAsGiven
  <2> QED  BY <2>1, <2>2
<1>8. AllStand(calls')
  <2>1. CASE hidden
    BY <1>6, <2>1 DEF CallsInv
  <2>2. CASE ~hidden
    <3>1. PICK bound \in Bound(m, passed) :
             calls' = Append(callers, [kind |-> "body", method |-> m, pending |-> {},
                                       passed |-> passed, bound |-> bound, ctx |-> body])
      BY <1>6, <2>2
    <3>2. PICK c : c = [kind |-> "body", method |-> m, pending |-> {},
                        passed |-> passed, bound |-> bound, ctx |-> body]
      OBVIOUS
    <3>3. PICK F : callers \in Seq(F)
      BY DEF AllStand
    <3>4. PICK t : t = Append(callers, c)
      OBVIOUS
    <3>5. t[Len(calls) + 1] = c /\ \A k \in 1..Len(calls) : t[k] = callers[k]
      BY <3>3, <3>4
    <3>6. Len(calls) + 1 - 1 = Len(calls)
      BY <1>1
    <3>7. ~m.native => Arrived(m, passed, bound)
      BY BoundArrives
    <3>8. body.writes <=> \E k \in 1..Len(calls) : t[k].kind = "new"
      BY <1>1, <1>4, <1>5, <3>5
    <3>9. BodyStands(t, Len(calls) + 1)
      <4>1. c.method = m /\ c.pending = {} /\ c.passed = passed /\ c.bound = bound /\ c.ctx = body
        BY <3>2
      <4>2. ~m.static => IsKindOf(m.cls, InstanceOf[body.this])
        BY <1>5
      <4> QED  BY <1>4, <1>5, <3>5, <3>6, <3>7, <3>8, <4>1, <4>2 DEF BodyStands
    <3>10. Stands(t, Len(calls) + 1)
      <4>1. c.kind = "body" /\ c.ctx = body
        BY <3>2
      <4> QED  BY <1>5, <3>5, <3>9, <4>1 DEF Stands
    <3>11. AllStand(t)
      BY <3>4, <3>10, OneMoreStands
    <3> QED  BY <3>1, <3>2, <3>4, <3>11
  <2> QED  BY <2>1, <2>2
<1> QED  BY <1>6, <1>7, <1>8 DEF CallsInv

LEMMA CallsStart == ASSUME CallsAssumption, CallsInit PROVE CallsInv
<1>1. AllStand(calls)
  <2>1. calls \in Seq({}) /\ Len(calls) = 0
    BY EmptySeq DEF CallsInit
  <2> QED  BY <2>1 DEF AllStand
<1>2. /\ properties \in [Slots -> Settings \cup {NotSet}] /\ given \in [Instances -> Settings \cup {NotSet}]
      /\ alive \in SUBSET Instances
  BY DEF CallsInit
<1>3. ExposedOnly /\ MadeAsGiven
  BY DEF CallsInit, ExposedOnly, MadeAsGiven
<1> QED  BY <1>1, <1>2, <1>3 DEF CallsInv

LEMMA FoundIsInherited ==
  ASSUME CallsAssumption, NEW c \in CallClasses, NEW name, NEW m \in FindSingle(c, name)
  PROVE  m \in Methods /\ m.cls \in Lineages[c]
  BY DEF FindSingle, Nearest

LEMMA OutsideKeeps == ASSUME CallsAssumption, CallsInv, CallFromOutside PROVE CallsInv'
<1>1. calls = <<>> /\ AllStand(calls)
  BY DEF CallFromOutside, CallsInv
<1>2. PICK name \in MethodNames \ Special, passed \in Passed :
          \/ \E o \in alive, action \in BOOLEAN : \E m \in FindSingle(InstanceOf[o], name) :
                Enter(m, o, NoContext, TRUE, action, calls, passed)
          \/ \E c \in CallClasses : \E m \in FindSingle(c, name) :
                m.static /\ Enter(m, c, NoContext, TRUE, TRUE, calls, passed)
  BY DEF CallFromOutside
<1>3. IsLabelled(passed) /\ InstanceOf \in [Instances -> CallClasses]
  BY DEF CallsAssumption
<1>4. PICK from, callers : from = NoContext /\ callers = calls
  OBVIOUS
<1>5. CalledBy(from, TRUE)
  BY <1>1, <1>4 DEF CalledBy
<1>6. CASE \E o \in alive, action \in BOOLEAN : \E m \in FindSingle(InstanceOf[o], name) :
              Enter(m, o, NoContext, TRUE, action, calls, passed)
  <2>1. PICK o \in alive, action \in BOOLEAN : \E m \in FindSingle(InstanceOf[o], name) :
              Enter(m, o, from, TRUE, action, callers, passed)
    BY <1>4, <1>6
  <2>2. InstanceOf[o] \in CallClasses
    BY <1>3 DEF CallsInv
  <2>3. PICK m \in FindSingle(InstanceOf[o], name) : Enter(m, o, from, TRUE, action, callers, passed)
    BY <2>1
  <2>4. m \in Methods /\ IsKindOf(m.cls, InstanceOf[o])
    BY <2>2, FoundIsInherited DEF IsKindOf
  <2> QED  BY <1>1, <1>3, <1>4, <1>5, <2>3, <2>4, EnterKeeps
<1>7. CASE \E c \in CallClasses : \E m \in FindSingle(c, name) :
              m.static /\ Enter(m, c, NoContext, TRUE, TRUE, calls, passed)
  <2>1. PICK c \in CallClasses : \E m \in FindSingle(c, name) :
              m.static /\ Enter(m, c, from, TRUE, TRUE, callers, passed)
    BY <1>4, <1>7
  <2>2. PICK m \in FindSingle(c, name) : m.static /\ Enter(m, c, from, TRUE, TRUE, callers, passed)
    BY <2>1
  <2>3. m \in Methods
    BY FoundIsInherited
  <2> QED  BY <1>1, <1>3, <1>4, <1>5, <2>2, <2>3, EnterKeeps
<1> QED  BY <1>2, <1>6, <1>7

LEMMA PlainIsLabelled == IsLabelled(Plain)
<1>1. DOMAIN Plain.args = {} /\ DOMAIN Plain.kwargs = {}
  BY EmptySeq DEF Plain
<1> QED  BY <1>1 DEF IsLabelled

LEMMA CallDestroyKeeps == ASSUME CallsAssumption, CallsInv, CallDestroy PROVE CallsInv'
<1>1. calls = <<>> /\ AllStand(calls)
  BY DEF CallDestroy, CallsInv
<1>2. PICK from, callers, passed : from = NoContext /\ callers = calls /\ passed = Plain
  OBVIOUS
<1>3. IsLabelled(passed) /\ CalledBy(from, TRUE)
  BY <1>1, <1>2, PlainIsLabelled DEF CalledBy
<1>4. PICK o \in alive : \E c \in Lineages[InstanceOf[o]] : \E m \in Named(c, ".destroy") :
          Enter(m, o, from, TRUE, TRUE, callers, passed)
  BY <1>2 DEF CallDestroy
<1>5. PICK c \in Lineages[InstanceOf[o]] : \E m \in Named(c, ".destroy") :
          Enter(m, o, from, TRUE, TRUE, callers, passed)
  BY <1>4
<1>6. PICK m \in Named(c, ".destroy") : Enter(m, o, from, TRUE, TRUE, callers, passed)
  BY <1>5
<1>7. m \in Methods /\ IsKindOf(m.cls, InstanceOf[o])
  BY DEF Named, IsKindOf
<1> QED  BY <1>1, <1>2, <1>3, <1>6, <1>7, EnterKeeps

LEMMA FromBodyKeeps == ASSUME CallsAssumption, CallsInv, CallFromBody PROVE CallsInv'
<1>1. calls # <<>> /\ AllStand(calls)
  BY DEF CallFromBody, CallsInv
<1>2. PICK from, callers, stubbed :
         from = Last(calls).ctx /\ callers = calls /\ stubbed = Last(calls).method.native
  OBVIOUS
<1>3. PICK name \in MethodNames \ Special, passed \in Passed, o \in alive :
         \E c \in Lineages[InstanceOf[o]] : \E m \in FindSingle(c, name) :
             Enter(m, o, from, stubbed, TRUE, callers, passed)
  BY <1>2 DEF CallFromBody
<1>4. PICK c \in Lineages[InstanceOf[o]] : \E m \in FindSingle(c, name) :
             Enter(m, o, from, stubbed, TRUE, callers, passed)
  BY <1>3
<1>5. PICK m \in FindSingle(c, name) : Enter(m, o, from, stubbed, TRUE, callers, passed)
  BY <1>4
<1>6. IsLabelled(passed) /\ InstanceOf[o] \in CallClasses
  BY DEF CallsAssumption, CallsInv
<1>7. c \in CallClasses /\ Lineages[c] \subseteq Lineages[InstanceOf[o]]
  BY <1>6, LineagesAreChains
<1>8. m \in Methods /\ IsKindOf(m.cls, InstanceOf[o])
  BY <1>7, FoundIsInherited DEF IsKindOf
<1>9. CalledBy(from, stubbed)
  BY <1>1, <1>2 DEF CalledBy
<1> QED  BY <1>1, <1>2, <1>5, <1>6, <1>8, <1>9, EnterKeeps

\* The call on top of a stack of calls, and the stack without it.
LEMMA TopStands ==
  ASSUME NEW s, AllStand(s), s # <<>>
  PROVE  /\ AllStand(Front(s)) /\ Stands(s, Len(s)) /\ Last(s) = s[Len(s)]
         /\ Len(s) \in Nat \ {0} /\ Len(s) \in 1..Len(s)
<1>1. PICK F : s \in Seq(F)
  BY DEF AllStand
<1>2. PICK x : x \in F
  BY <1>1, EmptySeq
<1>3. /\ Front(s) \in Seq(F) /\ Len(Front(s)) = Len(s) - 1 /\ \A i \in 1..(Len(s) - 1) : Front(s)[i] = s[i]
      /\ Last(s) = s[Len(s)] /\ Len(s) \in Nat \ {0}
  BY <1>1, <1>2, TopReplaced
<1>4. PICK t : t = Front(s)
  OBVIOUS
<1>5. ASSUME NEW n \in 1..Len(t) PROVE Stands(t, n)
  <2>1. n \in 1..Len(s) /\ n \in Nat \ {0} /\ n \in 1..(Len(s) - 1)
        /\ \A k \in 1..(n - 1) : k \in 1..(Len(s) - 1)
    BY <1>3, <1>4
  <2>2. Stands(s, n)
    BY <2>1 DEF AllStand
  <2>3. t[n] = s[n] /\ \A k \in 1..(n - 1) : t[k].kind = s[k].kind
    BY <1>3, <1>4, <2>1
  <2> QED  BY <2>1, <2>2, <2>3, StandsAlike
<1>6. Len(s) \in 1..Len(s)
  BY <1>3
<1> QED  BY <1>3, <1>4, <1>5, <1>6 DEF AllStand

LEMMA LeaveKeeps == ASSUME CallsInv, Leave PROVE CallsInv'
<1>1. AllStand(calls')
  BY TopStands DEF CallsInv, Leave
<1>2. ExposedOnly' /\ MadeAsGiven'
  BY DEF Leave, CallsInv, ExposedOnly, MadeAsGiven
<1> QED  BY <1>1, <1>2 DEF CallsInv, Leave

LEMMA GiveUpKeeps == ASSUME CallsInv, GiveUp PROVE CallsInv'
<1>1. AllStand(calls')
  BY TopStands DEF CallsInv, GiveUp
<1>2. ExposedOnly' /\ MadeAsGiven'
  BY DEF GiveUp, CallsInv, ExposedOnly, MadeAsGiven
<1> QED  BY <1>1, <1>2 DEF CallsInv, GiveUp

\* The constructor is of a class that the object inherits from.
LEMMA ConstructKeeps == ASSUME CallsAssumption, CallsInv, Construct PROVE CallsInv'
<1>1. calls # <<>> /\ AllStand(calls) /\ Last(calls).pending # {}
  BY DEF Construct, CallsInv
<1>2. /\ Stands(calls, Len(calls)) /\ Last(calls) = calls[Len(calls)]
      /\ Len(calls) \in Nat \ {0} /\ Len(calls) \in 1..Len(calls)
  BY <1>1, TopStands
<1>3. PICK new, from, this, passed :
         new = Last(calls) /\ from = new.ctx /\ this = new.method /\ passed = Plain
  OBVIOUS
<1>4. new.kind = "new" /\ NewStands(calls, Len(calls))
  <2>1. new.kind # "body"
    BY <1>1, <1>2, <1>3 DEF Stands, BodyStands
  <2> QED  BY <1>2, <1>3, <2>1 DEF Stands
<1>5. PICK c \in new.pending : \E m \in Named(c, ".init") :
         Enter(m, this, from, TRUE, TRUE, [calls EXCEPT ![Len(calls)].pending = @ \ {c}], passed)
  BY <1>3 DEF Construct
<1>6. PICK callers : callers = [calls EXCEPT ![Len(calls)].pending = @ \ {c}]
  OBVIOUS
<1>7. PICK m \in Named(c, ".init") : Enter(m, this, from, TRUE, TRUE, callers, passed)
  BY <1>5, <1>6
<1>8. m \in Methods /\ m.cls = c /\ IsKindOf(m.cls, InstanceOf[this])
  BY <1>2, <1>3, <1>4 DEF Named, IsKindOf, NewStands
<1>9. IsLabelled(passed) /\ CalledBy(from, TRUE)
  BY <1>1, <1>3, PlainIsLabelled DEF CalledBy
<1>10. PICK F : calls \in Seq(F)
  BY <1>1 DEF AllStand
<1>11. PICK top : top = [new EXCEPT !.pending = @ \ {c}]
  OBVIOUS
<1>12. /\ \A k \in 1..Len(calls) : callers[k] = IF k = Len(calls) THEN top ELSE calls[k]
       /\ callers \in Seq(F \cup {top}) /\ Len(callers) = Len(calls)
  <2>1. calls \in Seq(F \cup {top})
    <3>1. \A k \in 1..Len(calls) : calls[k] \in F \cup {top}
      BY <1>10
    <3>2. calls \in [1..Len(calls) -> F \cup {top}] /\ Len(calls) \in Nat
      BY <1>10, <3>1
    <3> QED  BY <3>2
  <2>2. callers = [calls EXCEPT ![Len(calls)] = top]
    BY <1>2, <1>3, <1>6, <1>11
  <2> QED  BY <1>2, <2>1, <2>2
<1>13. /\ top.kind = new.kind /\ top.ctx = new.ctx /\ top.method = new.method
       /\ top.pending \subseteq new.pending
  BY <1>4, <1>11
<1>14. ASSUME NEW n \in 1..Len(calls) PROVE Stands(callers, n)
  <2>1. n \in Nat \ {0} /\ \A k \in 1..(n - 1) : k \in 1..Len(calls) /\ k # Len(calls)
    BY <1>2
  <2>2. CASE n = Len(calls)
    <3>1. callers[n] = top /\ calls[n] = new
      BY <1>2, <1>3, <1>12, <2>2
    <3>2. NewStands(callers, n)
      BY <1>4, <1>13, <2>2, <3>1 DEF NewStands
    <3> QED  BY <1>2, <1>4, <1>13, <2>2, <3>1, <3>2 DEF Stands
  <2>3. CASE n # Len(calls)
    <3>1. callers[n] = calls[n] /\ \A k \in 1..(n - 1) : callers[k].kind = calls[k].kind
      BY <1>12, <2>1, <2>3
    <3>2. Stands(calls, n)
      BY <1>1 DEF AllStand
    <3> QED  BY <2>1, <3>1, <3>2, StandsAlike
  <2> QED  BY <2>2, <2>3
<1>15. AllStand(callers)
  BY <1>12, <1>14 DEF AllStand
<1>16. \A k \in 1..Len(calls) : callers[k].kind = calls[k].kind
  BY <1>2, <1>3, <1>12, <1>13
<1> QED  BY <1>7, <1>8, <1>9, <1>12, <1>15, <1>16, EnterKeeps

LEMMA AssignKeeps == ASSUME CallsAssumption, CallsInv, AssignProperty PROVE CallsInv' /\ WritesAreGuarded
<1>1. calls # <<>> /\ AllStand(calls) /\ Last(calls).kind = "body"
  BY DEF AssignProperty, CallsInv
<1>2. /\ Stands(calls, Len(calls)) /\ Last(calls) = calls[Len(calls)]
      /\ Len(calls) \in Nat \ {0} /\ Len(calls) \in 1..Len(calls)
  BY <1>1, TopStands
<1>3. PICK ctx : ctx = Last(calls).ctx
  OBVIOUS
<1>4. PICK o \in alive, name \in PropertyNamesOf, v \in Settings :
         \E s \in SlotFor(o, InstanceOf[o], name, ctx) :
             /\ properties' = [properties EXCEPT ![s] = v]
             /\ touched' = touched \cup {o}
  BY <1>3 DEF AssignProperty
<1>5. PICK s \in SlotFor(o, InstanceOf[o], name, ctx) :
         properties' = [properties EXCEPT ![s] = v] /\ touched' = touched \cup {o}
  BY <1>4
<1>6. /\ Last(calls).method \in Methods /\ Last(calls).method.cls \in CallClasses
      /\ ctx.type = Last(calls).method.cls
      /\ ctx.writes <=> \E k \in 1..(Len(calls) - 1) : calls[k].kind = "new"
  BY <1>1, <1>2, <1>3 DEF Stands, BodyStands, CallsAssumption
<1>7. UNCHANGED <<calls, alive, invocations, refusedAt, given>>
  BY DEF AssignProperty
<1>8. o \in Instances /\ InstanceOf[o] \in CallClasses /\ ctx.type # "this" /\ ctx.type \in CallClasses
  BY <1>6 DEF CallsInv, CallsAssumption
<1> DEFINE derived == ctx.type # NoParent /\ IsKindOf(ctx.type, InstanceOf[o])
           refuses(p) == ~ctx.writes /\ (p.usage \notin Writable \/ ~derived)
<1>9. \/ s = <<o, ctx.type, name>>
      \/ /\ s = <<o, "this", name>>
         /\ Declarations(IF derived THEN ctx.type ELSE InstanceOf[o], name) # {}
         /\ \A p \in Declarations(InstanceOf[o], name) : ~refuses(p)
  BY <1>5 DEF SlotFor
<1>10. CallsInv'
  <2>1. properties' \in [Slots -> Settings \cup {NotSet}]
    BY <1>5 DEF CallsInv
  <2>2. ASSUME NEW u \in (alive \ touched)', given'[u] # NotSet, NEW p \in ClassProperties,
               IsKindOf(p.cls, InstanceOf[u])
        PROVE  properties'[<<u, "this", p.name>>] = given'[u]
    <3>1. u \in alive \ touched /\ u # o /\ given[u] # NotSet
      BY <1>5, <1>7, <2>2
    <3>2. properties[<<u, "this", p.name>>] = given[u]
      BY <2>2, <3>1 DEF CallsInv, MadeAsGiven
    <3>3. <<u, "this", p.name>> # s
      BY <1>9, <3>1
    <3>4. <<u, "this", p.name>> \in Slots
      BY <3>1 DEF CallsInv, Slots, PropertyNamesOf
    <3>5. properties \in [Slots -> Settings \cup {NotSet}]
      BY DEF CallsInv
    <3> QED  BY <1>5, <1>7, <3>2, <3>3, <3>4, <3>5
  <2>3. MadeAsGiven'
    BY <2>2 DEF MadeAsGiven
  <2> QED  BY <1>7, <2>1, <2>3 DEF CallsInv, ExposedOnly
<1>11. ASSUME NEW u \in alive, NEW n \in PropertyNamesOf,
              properties'[<<u, "this", n>>] # properties[<<u, "this", n>>]
       PROVE  \/ \E k \in DOMAIN calls : calls[k].kind = "new"
              \/ /\ IsKindOf(Last(calls).method.cls, InstanceOf[u])
                 /\ \A p \in Declarations(InstanceOf[u], n) : p.usage \in Writable
  <2>1. s = <<u, "this", n>>
    <3>1. properties \in [Slots -> Settings \cup {NotSet}]
      BY DEF CallsInv
    <3>2. <<u, "this", n>> \in Slots
      BY DEF CallsInv, Slots
    <3> QED  BY <1>5, <1>11, <3>1, <3>2
  <2>2. /\ u = o /\ n = name
        /\ Declarations(IF derived THEN ctx.type ELSE InstanceOf[o], name) # {}
        /\ \A p \in Declarations(InstanceOf[o], name) : ~refuses(p)
    BY <1>8, <1>9, <2>1
  <2>3. CASE ctx.writes
    <3>1. DOMAIN calls = 1..Len(calls) /\ \A k \in 1..(Len(calls) - 1) : k \in 1..Len(calls)
      <4>1. PICK F : calls \in Seq(F)
        BY <1>1 DEF AllStand
      <4> QED  BY <1>2, <4>1
    <3> QED  BY <1>6, <2>3, <3>1
  <2>4. CASE ~ctx.writes
    <3>1. derived => \A p \in Declarations(ctx.type, name) : p \in Declarations(InstanceOf[o], name)
      <4>1. derived => Lineages[ctx.type] \subseteq Lineages[InstanceOf[o]]
        BY <1>8, LineagesAreChains DEF IsKindOf
      <4> QED  BY <4>1 DEF Declarations, IsKindOf
    <3>2. PICK p : p \in Declarations(InstanceOf[o], name)
      BY <2>2, <3>1
    <3>3. derived
      BY <2>2, <2>4, <3>2
    <3>4. \A q \in Declarations(InstanceOf[o], name) : q.usage \in Writable
      BY <2>2, <2>4
    <3> QED  BY <1>6, <2>2, <3>3, <3>4
  <2> QED  BY <2>3, <2>4
<1>12. WritesAreGuarded
  BY <1>11 DEF WritesAreGuarded
<1> QED  BY <1>10, <1>12

\* Every property of an object gets what the object is made with, except where
\* a method of an ancestor makes it.
LEMMA AllAreSet ==
  ASSUME CallsAssumption, NEW o \in Instances, NEW ctx, ctx.writes, ctx.type \in CallClasses,
         ~IsAncestor(ctx.type, InstanceOf[o]), NEW p \in ClassProperties, IsKindOf(p.cls, InstanceOf[o])
  PROVE  <<o, "this", p.name>> \in SetAtFirst(o, ctx)
<1>1. InstanceOf[o] \in CallClasses
  BY DEF CallsAssumption
<1> DEFINE H == {c \in Lineages[InstanceOf[o]] : \E q \in ClassProperties : q.cls = c /\ q.name = p.name}
<1>2. PICK level \in H : level \in Nearest(H)
  <2>1. p.cls \in H
    BY DEF IsKindOf
  <2>2. H \in SUBSET Lineages[InstanceOf[o]]
    OBVIOUS
  <2> HIDE DEF H
  <2> QED  BY <1>1, <2>1, <2>2, NearestExists
<1>3. level \in LevelsOf(o, p.name) /\ level \in Lineages[InstanceOf[o]]
  BY <1>2 DEF LevelsOf
<1> DEFINE derived == ctx.type # NoParent /\ IsKindOf(ctx.type, level)
<1>4. Declarations(InstanceOf[o], p.name) # {}
  BY DEF Declarations
<1>5. Declarations(IF derived THEN ctx.type ELSE InstanceOf[o], p.name) # {}
  <2>1. CASE derived
    <3>1. ctx.type \in Lineages[InstanceOf[o]]
      BY <1>1, <1>3, <2>1, LineagesAreChains DEF IsKindOf
    <3>2. ctx.type = InstanceOf[o]
      BY <3>1 DEF IsAncestor, IsKindOf
    <3> QED  BY <1>4, <2>1, <3>2
  <2>2. CASE ~derived
    BY <1>4, <2>2
  <2> QED  BY <2>1, <2>2
<1>6. <<o, "this", p.name>> \in SlotFor(o, level, p.name, ctx)
  BY <1>5 DEF SlotFor
<1>7. <<o, "this", p.name>> \in Slots /\ p.name \in PropertyNamesOf
  BY DEF Slots, PropertyNamesOf
<1> QED  BY <1>3, <1>6, <1>7 DEF SetAtFirst

LEMMA MakeKeeps == ASSUME CallsAssumption, CallsInv, Make PROVE CallsInv' /\ WritesAreGuarded
<1>1. AllStand(calls) /\ (calls # <<>> => Last(calls).kind = "body")
  BY DEF Make, CallsInv
<1>2. PICK o \in Instances \ alive, v \in Settings :
          LET outer == IF calls = <<>> THEN ObjectContext(InstanceOf[o], o, NoContext) ELSE Last(calls).ctx
              context == [outer EXCEPT !.writes = TRUE, !.at = Len(calls) + 1]
          IN  /\ calls' = Append(calls,
                     [kind |-> "new", ctx |-> context,
                      pending |-> {c \in Lineages[InstanceOf[o]] : Named(c, ".init") # {}},
                      method |-> o])
              /\ properties' = [s \in Slots |-> IF s \in SetAtFirst(o, context) THEN v ELSE properties[s]]
              /\ given' = [given EXCEPT ![o] = IF IsAncestor(outer.type, InstanceOf[o]) THEN NotSet ELSE v]
              /\ alive' = alive \cup {o}
  BY DEF Make
<1>3. PICK outer : outer = IF calls = <<>> THEN ObjectContext(InstanceOf[o], o, NoContext) ELSE Last(calls).ctx
  OBVIOUS
<1>4. PICK context : context = [outer EXCEPT !.writes = TRUE, !.at = Len(calls) + 1]
  OBVIOUS
<1>5. PICK new : new = [kind |-> "new", ctx |-> context,
                        pending |-> {c \in Lineages[InstanceOf[o]] : Named(c, ".init") # {}},
                        method |-> o]
  OBVIOUS
<1>6. /\ calls' = Append(calls, new)
      /\ properties' = [s \in Slots |-> IF s \in SetAtFirst(o, context) THEN v ELSE properties[s]]
      /\ given' = [given EXCEPT ![o] = IF IsAncestor(outer.type, InstanceOf[o]) THEN NotSet ELSE v]
      /\ alive' = alive \cup {o}
  BY <1>2, <1>3, <1>4, <1>5
<1>7. /\ outer.skip = FALSE /\ outer.actionsOnly = FALSE /\ outer.type \in CallClasses
      /\ InstanceOf[o] \in CallClasses /\ Len(calls) \in Nat
  <2>1. CASE calls = <<>>
    <3>1. outer = ObjectContext(InstanceOf[o], o, NoContext)
      BY <1>3, <2>1
    <3> QED  BY <2>1, <3>1 DEF ObjectContext, NoContext, CallsAssumption
  <2>2. CASE calls # <<>>
    <3>1. Last(calls) = calls[Len(calls)] /\ Stands(calls, Len(calls)) /\ Len(calls) \in Nat
      BY <1>1, <2>2, TopStands
    <3>2. outer = calls[Len(calls)].ctx /\ calls[Len(calls)].kind = "body"
      BY <1>1, <1>3, <2>2, <3>1
    <3>3. outer.skip = FALSE /\ outer.actionsOnly = FALSE /\ outer.type = calls[Len(calls)].method.cls
          /\ calls[Len(calls)].method \in Methods
      BY <3>1, <3>2 DEF Stands, BodyStands
    <3> QED  BY <3>1, <3>3 DEF CallsAssumption
  <2> QED  BY <2>1, <2>2
<1>8. /\ context.writes /\ context.at = Len(calls) + 1 /\ context.skip = FALSE
      /\ context.actionsOnly = FALSE /\ context.type = outer.type
  BY <1>4, <1>7
<1>9. new.kind = "new" /\ new.ctx = context /\ new.method = o /\ new.pending \subseteq Lineages[InstanceOf[o]]
  BY <1>5
<1>10. AllStand(calls')
  <2>1. PICK F : calls \in Seq(F)
    BY <1>1 DEF AllStand
  <2>2. PICK t : t = Append(calls, new)
    OBVIOUS
  <2>3. t[Len(calls) + 1] = new
    BY <2>1, <2>2
  <2>4. NewStands(t, Len(calls) + 1)
    BY <1>8, <1>9, <2>3 DEF NewStands
  <2>5. Stands(t, Len(calls) + 1)
    BY <1>8, <1>9, <2>3, <2>4 DEF Stands
  <2> QED  BY <1>1, <1>6, <2>2, <2>5, OneMoreStands
<1>11. /\ properties' \in [Slots -> Settings \cup {NotSet}] /\ given' \in [Instances -> Settings \cup {NotSet}]
       /\ alive' \in SUBSET Instances
  BY <1>6 DEF CallsInv
<1>12. \A u \in alive : \A n : <<u, "this", n>> \notin SetAtFirst(o, context)
  <2>1. \A level, n, s : s \in SlotFor(o, level, n, context) => s = <<o, "this", n>> \/ s = <<o, context.type, n>>
    BY DEF SlotFor
  <2>2. \A s \in SetAtFirst(o, context) : \E w, n : s = <<o, w, n>>
    BY <2>1 DEF SetAtFirst
  <2> QED  BY <2>2
<1>13. MadeAsGiven'
  <2> SUFFICES ASSUME NEW u \in (alive \ touched)', given'[u] # NotSet, NEW p \in ClassProperties,
                      IsKindOf(p.cls, InstanceOf[u])
               PROVE  properties'[<<u, "this", p.name>>] = given'[u]
    BY DEF MadeAsGiven
  <2>1. <<u, "this", p.name>> \in Slots
    BY <1>6 DEF CallsInv, Slots, PropertyNamesOf
  <2>2. given \in [Instances -> Settings \cup {NotSet}]
    BY DEF CallsInv
  <2>3. CASE u = o
    <3>1. ~IsAncestor(context.type, InstanceOf[o]) /\ given'[o] = v
      BY <1>6, <1>8, <2>2, <2>3
    <3>2. <<o, "this", p.name>> \in SetAtFirst(o, context)
      BY <1>7, <1>8, <2>3, <3>1, AllAreSet
    <3> QED  BY <1>6, <2>1, <2>3, <3>1, <3>2
  <2>4. CASE u # o
    <3>1. u \in alive \ touched /\ given'[u] = given[u]
      BY <1>6, <2>2, <2>4 DEF Make, CallsInv
    <3>2. properties[<<u, "this", p.name>>] = given[u]
      BY <3>1 DEF CallsInv, MadeAsGiven
    <3>3. <<u, "this", p.name>> \notin SetAtFirst(o, context)
      BY <1>12, <3>1
    <3> QED  BY <1>6, <2>1, <3>1, <3>2, <3>3
  <2> QED  BY <2>3, <2>4
<1>14. CallsInv'
  BY <1>10, <1>11, <1>13 DEF CallsInv, ExposedOnly, Make
<1>15. WritesAreGuarded
  <2>1. ASSUME NEW u \in alive, NEW n \in PropertyNamesOf
        PROVE  properties'[<<u, "this", n>>] = properties[<<u, "this", n>>]
    <3>1. <<u, "this", n>> \in Slots
      BY DEF Slots, CallsInv
    <3> QED  BY <1>6, <1>12, <3>1
  <2> QED  BY <2>1 DEF WritesAreGuarded
<1> QED  BY <1>14, <1>15

LEMMA CallsInvFits == ASSUME CallsInv PROVE CallsFit
<1>1. AllStand(calls)
  BY DEF CallsInv
<1>2. DOMAIN calls = 1..Len(calls)
  <2>1. PICK F : calls \in Seq(F)
    BY <1>1 DEF AllStand
  <2> QED  BY <2>1
<1>3. ASSUME NEW n \in DOMAIN calls, calls[n].kind = "body" PROVE BodyStands(calls, n)
  BY <1>1, <1>2, <1>3 DEF AllStand, Stands
<1>4. BodiesAreWhereTheyBelong
  BY <1>3 DEF BodiesAreWhereTheyBelong, BodyStands
<1>5. PassedArrives
  <2>1. ASSUME NEW n \in DOMAIN calls, calls[n].kind = "body", ~calls[n].method.native
        PROVE  Arrived(calls[n].method, calls[n].passed, calls[n].bound)
    BY <1>3, <2>1 DEF BodyStands
  <2> QED  BY <2>1 DEF PassedArrives, Arrived
<1> QED  BY <1>4, <1>5 DEF CallsInv, CallsFit

\* A method runs in its own class, for its own caller and with its own rights,
\* however it was called; every argument arrives at one place; nothing but an
\* assignment changes what an object was made with, and what nobody may write
\* is only written below a constructor (MuranoDslExecutor.invoke_method,
\* create_object_context, _canonize_parameters, MuranoObject.set_property): for
\* all classes, methods, objects and depths of calls.
THEOREM RightsAreKept == CallsSpec => CallsKeepToTheirRights
<1>1. CallsInit => CallsInv
  BY CallsAssumption, CallsStart
<1>2. CallsInv /\ [CallsNext]_calling => CallsInv' /\ [CallsFit' /\ WritesAreGuarded]_calling
  <2> SUFFICES ASSUME CallsInv, [CallsNext]_calling
               PROVE  CallsInv' /\ [CallsFit' /\ WritesAreGuarded]_calling
    OBVIOUS
  <2>1. CallsInv' => CallsFit'
    BY CallsInvFits, PTL
  <2>2. UNCHANGED properties => WritesAreGuarded
    BY DEF WritesAreGuarded
  <2>3. CASE CallFromOutside
    <3>1. UNCHANGED properties
      BY <2>3 DEF CallFromOutside, Enter
    <3> QED  BY <2>1, <2>2, <2>3, <3>1, CallsAssumption, OutsideKeeps
  <2>4. CASE CallDestroy
    <3>1. UNCHANGED properties
      BY <2>4 DEF CallDestroy, Enter
    <3> QED  BY <2>1, <2>2, <2>4, <3>1, CallsAssumption, CallDestroyKeeps
  <2>5. CASE CallFromBody
    <3>1. UNCHANGED properties
      BY <2>5 DEF CallFromBody, Enter
    <3> QED  BY <2>1, <2>2, <2>5, <3>1, CallsAssumption, FromBodyKeeps
  <2>6. CASE Leave
    BY <2>1, <2>2, <2>6, LeaveKeeps DEF Leave
  <2>7. CASE AssignProperty
    BY <2>1, <2>7, CallsAssumption, AssignKeeps
  <2>8. CASE Make
    BY <2>1, <2>8, CallsAssumption, MakeKeeps
  <2>9. CASE Construct
    <3>1. UNCHANGED properties
      BY <2>9 DEF Construct, Enter
    <3> QED  BY <2>1, <2>2, <2>9, <3>1, CallsAssumption, ConstructKeeps
  <2>10. CASE GiveUp
    BY <2>1, <2>2, <2>10, GiveUpKeeps DEF GiveUp
  <2>11. CASE UNCHANGED calling
    <3>1. UNCHANGED <<calls, properties, alive, refusedAt, given, touched>>
      BY <2>11 DEF calling
    <3>2. MadeAsGiven' /\ ExposedOnly'
      BY <3>1 DEF CallsInv, MadeAsGiven, ExposedOnly
    <3> QED  BY <2>11, <3>1, <3>2 DEF CallsInv
  <2> QED  BY <2>3, <2>4, <2>5, <2>6, <2>7, <2>8, <2>9, <2>10, <2>11 DEF CallsNext
<1> QED  BY <1>1, <1>2, PTL DEF CallsSpec, CallsKeepToTheirRights
-----------------------------------------------------------------------------
(* Assignments *)

\* Values, and what they are made of.
IsMade(X, v) ==
    /\ v.is = "list" => v.items \in Seq(X)
    /\ v.is = "dict" => \A k \in DOMAIN v.at : v.at[k] \in X
    /\ v.is = "object" => v.object \in ObjectIds
Closed(X) == Literals \subseteq X /\ \A v \in X : IsMade(X, v)
Filled(X) == memory \in [Cells -> X \cup {Error}]
AssignInv == \E X : Closed(X) /\ Filled(X)

PartNames == Steps \cup [index : Int]
CellsOrNone == Cells \cup {NoCell}
Points == [cell : CellsOrNone, within : Seq(PartNames)]

\* A function on the first N numbers, each of its values made from the one
\* before.
Follows(f, V, N, first, next) ==
    f \in [1..N -> V] /\ f[1] = first /\ \A n \in 2..N : f[n] = next[<<n, f[n - 1]>>]

LEMMA OneAfterAnother ==
  ASSUME NEW V, NEW N \in Nat \ {0}, NEW first \in V, NEW next \in [(1..N) \X V -> V]
  PROVE  \E f : Follows(f, V, N, first, next)
<1> DEFINE Bad == {n \in 1..N : ~ \E f : Follows(f, V, n, first, next)}
<1>1. SUFFICES Bad = {}
  OBVIOUS
<1>2. SUFFICES ASSUME Bad # {} PROVE FALSE
  OBVIOUS
<1>3. Bad \in SUBSET Nat
  OBVIOUS
<1>4. PICK n \in Bad : \A m \in Bad : n <= m
  <2> HIDE DEF Bad
  <2> QED  BY <1>2, <1>3, LeastNatural
<1>5. n \in 1..N /\ ~ \E f : Follows(f, V, n, first, next)
  BY <1>4
<1>6. CASE n = 1
  <2>1. PICK f : f = [k \in 1..1 |-> first]
    OBVIOUS
  <2>2. Follows(f, V, 1, first, next)
    BY <2>1 DEF Follows
  <2> QED  BY <1>5, <1>6, <2>2
<1>7. CASE n # 1
  <2>1. n - 1 \in 1..N /\ ~(n <= n - 1)
    BY <1>5, <1>7
  <2>2. n - 1 \notin Bad
    BY <1>4, <2>1
  <2>3. PICK f : Follows(f, V, n - 1, first, next)
    BY <2>1, <2>2
  <2>4. f \in [1..(n - 1) -> V] /\ f[1] = first /\ \A k \in 2..(n - 1) : f[k] = next[<<k, f[k - 1]>>]
    BY <2>3 DEF Follows
  <2>5. PICK x \in V : x = next[<<n, f[n - 1]>>]
    BY <1>5, <2>1, <2>4
  <2>6. PICK g : g = [k \in 1..n |-> IF k = n THEN x ELSE f[k]]
    OBVIOUS
  <2>7. g \in [1..n -> V] /\ g[1] = first
    BY <1>5, <1>7, <2>4, <2>6
  <2>8. ASSUME NEW k \in 2..n PROVE g[k] = next[<<k, g[k - 1]>>]
    <3>1. k - 1 \in 1..n /\ k - 1 # n /\ k \in 1..n /\ (k = n \/ k \in 2..(n - 1))
      BY <1>5
    <3>2. g[k - 1] = f[k - 1]
      BY <2>6, <3>1
    <3>3. CASE k = n
      BY <2>5, <2>6, <3>1, <3>2, <3>3
    <3>4. CASE k # n
      BY <2>4, <2>6, <3>1, <3>2, <3>4
    <3> QED  BY <3>3, <3>4
  <2>9. Follows(g, V, n, first, next)
    BY <2>7, <2>8 DEF Follows
  <2> QED  BY <1>5, <2>9
<1> QED  BY <1>6, <1>7

LEMMA PathsAre ==
  ASSUME NEW path \in Paths
  PROVE  Len(path) \in Nat \ {0} /\ path[1] \in Variables /\ \A n \in 2..Len(path) : path[n] \in Steps
<1> DEFINE Tails == UNION {[1..n -> Steps] : n \in 0..MaxSteps}
<1>a. PICK v \in Variables, s \in Tails : path = <<v>> \o s
  <2>1. Paths = {<<v>> \o s : v \in Variables, s \in Tails}
    BY DEF Paths
  <2> HIDE DEF Tails
  <2> QED  BY <2>1
<1>b. PICK n \in 0..MaxSteps : s \in [1..n -> Steps]
  BY <1>a
<1>1. path = <<v>> \o s /\ s \in [1..n -> Steps]
  BY <1>a, <1>b
<1>2. n \in Nat /\ s \in Seq(Steps) /\ Len(s) = n
  <2>1. n \in Nat
    BY AssignmentAssumption
  <2>2. s \in Seq(Steps)
    BY <1>1, <2>1, SeqDef
  <2>3. Len(s) = n
    BY <1>1, <2>1, <2>2, LenProperties
  <2> QED  BY <2>1, <2>2, <2>3
<1>3. Len(path) = 1 + n /\ path[1] = v /\ \A k \in 2..(1 + n) : path[k] = s[k - 1]
  BY <1>1, <1>2
<1>4. \A k \in 2..(1 + n) : k - 1 \in 1..n
  BY <1>2
<1> QED  BY <1>1, <1>2, <1>3, <1>4

LEMMA CellsAre ==
  /\ NoCell \notin Cells
  /\ \A v \in Variables : VariableCell(v) \in Cells
  /\ \A o \in ObjectIds, name \in Names, caller \in ClassNames : PropertyCell(o, name, caller) \in CellsOrNone
  /\ \A v, o, name, caller : PropertyCell(o, name, caller) # VariableCell(v)
<1>1. NoCell \notin Cells
  BY DEF NoCell, Cells
<1>2. \A v \in Variables : VariableCell(v) \in Cells
  BY DEF VariableCell, Cells
<1>3. ASSUME NEW o \in ObjectIds, NEW name \in Names, NEW caller \in ClassNames
      PROVE  PropertyCell(o, name, caller) \in CellsOrNone
  <2>1. CASE IsDeclared(name, caller) /\ name \in Static
    <3>1. PropertyCell(o, name, caller) = [of |-> "static", name |-> name]
      BY <2>1 DEF PropertyCell
    <3> QED  BY <2>1, <3>1 DEF Cells, CellsOrNone
  <2>2. CASE IsDeclared(name, caller) /\ name \notin Static
    <3>1. PropertyCell(o, name, caller) = [of |-> o, part |-> "this", name |-> name]
      BY <2>2 DEF PropertyCell
    <3> QED  BY <3>1 DEF Cells, CellsOrNone
  <2>3. CASE ~IsDeclared(name, caller) /\ Related(caller)
    <3>1. PropertyCell(o, name, caller) = [of |-> o, part |-> caller, name |-> name]
      BY <2>3 DEF PropertyCell
    <3>2. caller \in {"this", Base, Derived}
      BY <2>3 DEF Related
    <3> QED  BY <3>1, <3>2 DEF Cells, CellsOrNone
  <2>4. CASE ~IsDeclared(name, caller) /\ ~Related(caller)
    BY <2>4 DEF PropertyCell, CellsOrNone
  <2> QED  BY <2>1, <2>2, <2>3, <2>4
<1>4. ASSUME NEW v, NEW o, NEW name, NEW caller
      PROVE  PropertyCell(o, name, caller) # VariableCell(v)
  <2>1. [of |-> "static", name |-> name] # VariableCell(v)
    BY DEF VariableCell
  <2>2. [of |-> o, part |-> "this", name |-> name] # VariableCell(v)
    BY DEF VariableCell
  <2>3. [of |-> o, part |-> caller, name |-> name] # VariableCell(v)
    BY DEF VariableCell
  <2>4. NoCell # VariableCell(v)
    BY DEF NoCell, VariableCell
  <2> QED  BY <2>1, <2>2, <2>3, <2>4 DEF PropertyCell
<1> QED  BY <1>1, <1>2, <1>3, <1>4

\* What can be read.
LEMMA GotIs ==
  ASSUME NEW X, Closed(X), Filled(X), NEW v \in X \cup {Error}, NEW step \in Steps, NEW caller \in ClassNames
  PROVE  Got(v, step, caller) \in X \cup {Error}
<1>1. EmptyDict \in X
  BY DEF Closed, Literals
<1>2. v.is \in {"dict", "object", "list"} => v \in X /\ IsMade(X, v)
  BY DEF Error, Closed
<1>3. CASE IsKey(step) /\ v.is = "dict"
  <2>1. Got(v, step, caller) = IF step.key \in DOMAIN v.at THEN v.at[step.key] ELSE EmptyDict
    BY <1>3 DEF Got
  <2> QED  BY <1>1, <1>2, <1>3, <2>1 DEF IsMade
<1>4. CASE IsKey(step) /\ v.is = "object"
  <2> DEFINE cell == PropertyCell(v.object, step.key, caller)
  <2>1. Got(v, step, caller) = IF cell = NoCell THEN Error
                               ELSE IF memory[cell] = Error THEN EmptyDict ELSE memory[cell]
    BY <1>4 DEF Got
  <2>2. v.object \in ObjectIds /\ step.key \in Names
    BY <1>2, <1>4 DEF IsMade, IsKey, Steps
  <2>3. cell \in CellsOrNone
    BY <2>2, CellsAre
  <2> HIDE DEF cell
  <2> QED  BY <1>1, <2>1, <2>3 DEF Filled, CellsOrNone
<1>5. CASE ~IsKey(step) /\ v.is = "list"
  <2> DEFINE p == Position(step.index, Len(v.items))
  <2>1. Got(v, step, caller) = IF p \in 1..Len(v.items) THEN v.items[p] ELSE Error
    BY <1>5 DEF Got
  <2> HIDE DEF p
  <2> QED  BY <1>2, <1>5, <2>1 DEF IsMade
<1>6. CASE /\ ~(IsKey(step) /\ v.is = "dict") /\ ~(IsKey(step) /\ v.is = "object")
           /\ ~(~IsKey(step) /\ v.is = "list")
  BY <1>6 DEF Got
<1> QED  BY <1>3, <1>4, <1>5, <1>6

IsOn(f, N) == f = [n \in 1..N |-> f[n]]

\* Two functions that start alike and go on alike are the same.
LEMMA Alike ==
  ASSUME NEW N \in Nat \ {0}, NEW f, NEW g, IsOn(f, N), IsOn(g, N),
         f[1] = g[1], \A n \in 2..N : f[n - 1] = g[n - 1] => f[n] = g[n]
  PROVE  f = g
<1> DEFINE Odd == {n \in 1..N : f[n] # g[n]}
<1>1. SUFFICES Odd = {}
  <2>1. \A n \in 1..N : f[n] = g[n]
    BY <1>1
  <2> QED  BY <2>1 DEF IsOn
<1>2. SUFFICES ASSUME Odd # {} PROVE FALSE
  OBVIOUS
<1>3. Odd \in SUBSET Nat
  OBVIOUS
<1>4. PICK n \in Odd : \A m \in Odd : n <= m
  <2> HIDE DEF Odd
  <2> QED  BY <1>2, <1>3, LeastNatural
<1>5. n \in 2..N /\ n - 1 \in 1..N /\ ~(n <= n - 1)
  BY <1>4
<1>6. f[n - 1] = g[n - 1]
  BY <1>4, <1>5
<1> QED  BY <1>4, <1>5, <1>6

\* A path as it is read.
IsReading(R, X, path, caller) ==
    /\ R \in [1..Len(path) -> X \cup {Error}] /\ R[1] = memory[VariableCell(path[1])]
    /\ \A n \in 2..Len(path) : R[n] = Got(R[n - 1], path[n], caller)

LEMMA ReadingIs ==
  ASSUME NEW X, Closed(X), Filled(X), NEW path \in Paths, NEW caller \in ClassNames
  PROVE  IsReading(Reads(path, caller), X, path, caller)
<1> DEFINE N == Len(path)
           V == X \cup {Error}
           first == memory[VariableCell(path[1])]
           taken(n, v) == IF n = 1 THEN Error ELSE Got(v, path[n], caller)
           e(r) == [n \in 1..Len(path) |-> IF n = 1 THEN memory[VariableCell(path[1])]
                                           ELSE Got(r[n - 1], path[n], caller)]
<1>1. N \in Nat \ {0} /\ path[1] \in Variables /\ \A n \in 2..N : path[n] \in Steps
  BY PathsAre
<1>2. first \in V
  BY <1>1, CellsAre DEF Filled
<1>3. \A n \in 1..N, v \in V : taken(n, v) \in V
  <2>1. ASSUME NEW n \in 1..N, NEW v \in V, n # 1 PROVE Got(v, path[n], caller) \in V
    <3>1. path[n] \in Steps
      BY <1>1, <2>1
    <3> QED  BY <2>1, <3>1, GotIs
  <2> HIDE DEF V
  <2>2. Error \in V
    BY DEF V
  <2> QED  BY <2>1, <2>2
<1>4. PICK f : /\ f \in [1..N -> V] /\ f[1] = first
               /\ \A n \in 2..N : f[n] = Got(f[n - 1], path[n], caller)
  <2> HIDE DEF V, N, first, taken
  <2>1. PICK next : next = [z \in (1..N) \X V |-> taken(z[1], z[2])]
    OBVIOUS
  <2>2. next \in [(1..N) \X V -> V]
    BY <1>3, <2>1
  <2>3. PICK f : Follows(f, V, N, first, next)
    BY <1>1, <1>2, <2>2, OneAfterAnother
  <2>4. f \in [1..N -> V] /\ f[1] = first /\ \A n \in 2..N : f[n] = next[<<n, f[n - 1]>>]
    BY <2>3 DEF Follows
  <2>5. \A n \in 2..N : n \in 1..N /\ n - 1 \in 1..N /\ n # 1
    BY <1>1
  <2>6. \A n \in 2..N : f[n] = taken(n, f[n - 1])
    BY <2>1, <2>4, <2>5
  <2> QED  BY <2>4, <2>5, <2>6 DEF taken
<1>5. f = e(f)
  <2> HIDE DEF V
  <2>1. f = [n \in 1..N |-> f[n]]
    BY <1>4
  <2>2. \A n \in 1..N : n = 1 \/ n \in 2..N
    BY <1>1
  <2>3. \A n \in 1..N : f[n] = IF n = 1 THEN first ELSE Got(f[n - 1], path[n], caller)
    BY <1>4, <2>2
  <2> QED  BY <2>1, <2>3
<1>6. Reads(path, caller) = CHOOSE r : r = e(r)
  BY DEF Reads
<1> HIDE DEF e
<1>7. PICK R : R = Reads(path, caller) /\ R = e(R)
  BY <1>5, <1>6
<1>8. R = f
  <2>1. R = [n \in 1..N |-> R[n]] /\ R[1] = first
    BY <1>1, <1>7 DEF e
  <2>2. \A n \in 2..N : R[n] = Got(R[n - 1], path[n], caller)
    <3>1. \A n \in 2..N : n \in 1..N /\ n # 1
      BY <1>1
    <3> QED  BY <1>7, <3>1 DEF e
  <2>3. f = [n \in 1..N |-> f[n]]
    BY <1>4
  <2> HIDE DEF N, V, first
  <2>4. \A n \in 2..N : R[n - 1] = f[n - 1] => R[n] = f[n]
    BY <1>4, <2>2
  <2>5. R[1] = f[1] /\ N \in Nat \ {0}
    BY <1>1, <1>4, <2>1
  <2>6. IsOn(R, N) /\ IsOn(f, N)
    BY <2>1, <2>3 DEF IsOn
  <2> QED  BY <2>4, <2>5, <2>6, Alike
<1> QED  BY <1>4, <1>7, <1>8 DEF IsReading

\* The places of a path.
LEMMA NextPlaceIs ==
  ASSUME NEW X, Closed(X), NEW here \in Points, NEW v \in X \cup {Error}, NEW step \in Steps,
         NEW caller \in ClassNames
  PROVE  NextPlace(here, v, step, caller) \in Points
<1>1. v.is \in {"object", "list"} => IsMade(X, v)
  BY DEF Error, Closed
<1>2. here.cell \in CellsOrNone /\ here.within \in Seq(PartNames)
  BY DEF Points
<1>3. CASE IsKey(step) /\ v.is = "object"
  <2>1. v.object \in ObjectIds /\ step.key \in Names
    BY <1>1, <1>3 DEF IsMade, IsKey, Steps
  <2>2. PropertyCell(v.object, step.key, caller) \in CellsOrNone
    BY <2>1, CellsAre
  <2> QED  BY <1>3, <2>2 DEF NextPlace, Place, Points
<1>4. CASE ~(IsKey(step) /\ v.is = "object")
  <2>1. PICK part \in PartNames : part = PartAt(v, step)
    <3>1. CASE ~IsKey(step) /\ v.is = "list"
      <4>1. step.index \in Int
        BY <3>1, AssignmentAssumption DEF IsKey, Steps
      <4>2. Len(v.items) \in Nat
        BY <1>1, <3>1 DEF IsMade
      <4>3. Position(step.index, Len(v.items)) \in Int
        BY <4>1, <4>2 DEF Position
      <4> QED  BY <3>1, <4>3 DEF PartAt, PartNames
    <3>2. CASE ~(~IsKey(step) /\ v.is = "list")
      BY <3>2 DEF PartAt, PartNames
    <3> QED  BY <3>1, <3>2
  <2>2. Append(here.within, part) \in Seq(PartNames)
    BY <1>2
  <2> QED  BY <1>2, <1>4, <2>1, <2>2 DEF NextPlace, Place, Points
<1> QED  BY <1>3, <1>4

IsRoute(T, R, path, caller) ==
    /\ T \in [1..Len(path) -> Points] /\ T[1] = Place(VariableCell(path[1]), <<>>)
    /\ \A n \in 2..Len(path) : T[n] = NextPlace(T[n - 1], R[n - 1], path[n], caller)

LEMMA RouteIs ==
  ASSUME NEW X, Closed(X), Filled(X), NEW path \in Paths, NEW caller \in ClassNames
  PROVE  IsRoute(Route(path, caller), Reads(path, caller), path, caller)
<1>0. PICK R : R = Reads(path, caller)
  OBVIOUS
<1> DEFINE N == Len(path)
           first == Place(VariableCell(path[1]), <<>>)
           taken(n, here) == IF n = 1 THEN first ELSE NextPlace(here, R[n - 1], path[n], caller)
           e(t) == [n \in 1..Len(path) |-> IF n = 1 THEN Place(VariableCell(path[1]), <<>>)
                                           ELSE NextPlace(t[n - 1], R[n - 1], path[n], caller)]
<1>1. N \in Nat \ {0} /\ path[1] \in Variables /\ \A n \in 2..N : path[n] \in Steps
  BY PathsAre
<1>2. first \in Points
  BY <1>1, CellsAre DEF Place, Points, CellsOrNone
<1>3. \A n \in 1..N, here \in Points : taken(n, here) \in Points
  <2>1. R \in [1..N -> X \cup {Error}]
    BY <1>0, ReadingIs DEF IsReading
  <2>2. ASSUME NEW n \in 1..N, NEW here \in Points, n # 1
        PROVE  NextPlace(here, R[n - 1], path[n], caller) \in Points
    <3>1. path[n] \in Steps /\ n - 1 \in 1..N
      BY <1>1, <2>2
    <3>2. R[n - 1] \in X \cup {Error}
      BY <2>1, <3>1
    <3> QED  BY <3>1, <3>2, NextPlaceIs
  <2> HIDE DEF first
  <2> QED  BY <1>2, <2>2
<1>4. PICK f : /\ f \in [1..N -> Points] /\ f[1] = first
               /\ \A n \in 2..N : f[n] = NextPlace(f[n - 1], R[n - 1], path[n], caller)
  <2> HIDE DEF N, first, taken
  <2>1. PICK next : next = [z \in (1..N) \X Points |-> taken(z[1], z[2])]
    OBVIOUS
  <2>2. next \in [(1..N) \X Points -> Points]
    BY <1>3, <2>1
  <2>3. PICK f : Follows(f, Points, N, first, next)
    BY <1>1, <1>2, <2>2, OneAfterAnother
  <2>4. f \in [1..N -> Points] /\ f[1] = first /\ \A n \in 2..N : f[n] = next[<<n, f[n - 1]>>]
    BY <2>3 DEF Follows
  <2>5. \A n \in 2..N : n \in 1..N /\ n - 1 \in 1..N /\ n # 1
    BY <1>1
  <2>6. \A n \in 2..N : f[n] = taken(n, f[n - 1])
    BY <2>1, <2>4, <2>5
  <2> QED  BY <2>4, <2>5, <2>6 DEF taken
<1>5. f = e(f)
  <2>1. f = [n \in 1..N |-> f[n]]
    BY <1>4
  <2>2. \A n \in 1..N : n = 1 \/ n \in 2..N
    BY <1>1
  <2>3. \A n \in 1..N : f[n] = IF n = 1 THEN first ELSE NextPlace(f[n - 1], R[n - 1], path[n], caller)
    BY <1>4, <2>2
  <2> QED  BY <2>1, <2>3
<1>6. Route(path, caller) = CHOOSE t : t = e(t)
  BY <1>0 DEF Route
<1> HIDE DEF e
<1>7. PICK T : T = Route(path, caller) /\ T = e(T)
  BY <1>5, <1>6
<1>8. T = f
  <2>1. T = [n \in 1..N |-> T[n]] /\ T[1] = first
    BY <1>1, <1>7 DEF e
  <2>2. \A n \in 2..N : T[n] = NextPlace(T[n - 1], R[n - 1], path[n], caller)
    <3>1. \A n \in 2..N : n \in 1..N /\ n # 1
      BY <1>1
    <3> QED  BY <1>7, <3>1 DEF e
  <2>3. f = [n \in 1..N |-> f[n]]
    BY <1>4
  <2> HIDE DEF N, first
  <2>4. \A n \in 2..N : T[n - 1] = f[n - 1] => T[n] = f[n]
    BY <1>4, <2>2
  <2>5. T[1] = f[1] /\ N \in Nat \ {0}
    BY <1>1, <1>4, <2>1
  <2>6. IsOn(T, N) /\ IsOn(f, N)
    BY <2>1, <2>3 DEF IsOn
  <2> QED  BY <2>4, <2>5, <2>6, Alike
<1> QED  BY <1>0, <1>4, <1>7, <1>8 DEF IsRoute

\* What the setters make of a value, from the end of the path to its start.
IsWriting(W, R, path, value, caller) ==
    /\ W[Len(path)] = [cell |-> NoCell, value |-> value]
    /\ \A m \in 1..(Len(path) - 1) : W[m] = SetIn(R[m], path[m + 1], W[m + 1], caller)

LEMMA WritingIs ==
  ASSUME NEW path \in Paths, NEW value, NEW caller
  PROVE  \E W : /\ IsWriting(W, Reads(path, caller), path, value, caller)
                /\ W[1] = Setters(path, value, caller)[Len(path)]
<1>0. PICK R : R = Reads(path, caller)
  OBVIOUS
<1> DEFINE N == Len(path)
           first == [cell |-> NoCell, value |-> value]
           turn(g, n) == IF n = 1 THEN first ELSE SetIn(R[N - n + 1], path[N - n + 2], g[n - 1], caller)
           e(a) == [n \in 1..Len(path) |-> IF n = 1 THEN [cell |-> NoCell, value |-> value]
                       ELSE SetIn(R[Len(path) - n + 1], path[Len(path) - n + 2], a[n - 1], caller)]
           Fits(n, g) == IsOn(g, n) /\ \A k \in 1..n : g[k] = turn(g, k)
           Bad == {n \in 1..N : ~ \E g : Fits(n, g)}
<1>1. N \in Nat \ {0}
  BY PathsAre
<1>2. Bad = {}
  <2>1. SUFFICES ASSUME Bad # {} PROVE FALSE
    OBVIOUS
  <2> HIDE DEF N
  <2>2. Bad \in SUBSET Nat
    BY <1>1
  <2>3. PICK n \in Bad : \A m \in Bad : n <= m
    <3> HIDE DEF Bad
    <3> QED  BY <2>1, <2>2, LeastNatural
  <2>4. n \in 1..N /\ ~ \E g : Fits(n, g)
    <3> HIDE DEF Fits
    <3> QED  BY <2>3
  <2>5. CASE n = 1
    <3>1. PICK g : g = [k \in 1..1 |-> first]
      OBVIOUS
    <3>2. IsOn(g, 1) /\ g[1] = first
      BY <3>1 DEF IsOn
    <3>3. Fits(1, g)
      BY <3>2
    <3> QED  BY <2>4, <2>5, <3>3
  <2>6. CASE n # 1
    <3>1. n - 1 \in 1..N /\ ~(n <= n - 1)
      BY <1>1, <2>4, <2>6
    <3>2. n - 1 \notin Bad
      BY <2>3, <3>1
    <3>3. PICK g : Fits(n - 1, g)
      BY <3>1, <3>2
    <3> HIDE DEF turn
    <3>4. PICK h : h = [k \in 1..n |-> IF k = n THEN turn(g, n) ELSE g[k]]
      OBVIOUS
    <3>5. IsOn(h, n) /\ h[n] = turn(g, n) /\ \A k \in 1..(n - 1) : h[k] = g[k]
      BY <2>4, <3>4 DEF IsOn
    <3>6. \A k \in 1..n : turn(h, k) = turn(g, k)
      <4>1. \A k \in 1..n : k # 1 => k - 1 \in 1..(n - 1)
        BY <2>4
      <4> QED  BY <3>5, <4>1 DEF turn
    <3>7. \A k \in 1..n : k = n \/ k \in 1..(n - 1)
      BY <2>4
    <3>8. \A k \in 1..n : h[k] = turn(h, k)
      BY <3>3, <3>5, <3>6, <3>7
    <3>9. Fits(n, h)
      BY <3>5, <3>8
    <3> QED  BY <2>4, <3>9
  <2> QED  BY <2>5, <2>6
<1>3. PICK g : Fits(N, g)
  <2>1. N \in 1..N
    BY <1>1
  <2> HIDE DEF N
  <2>2. N \notin Bad
    BY <1>2
  <2> QED  BY <2>1, <2>2
<1>4. g = e(g)
  <2>1. g = [k \in 1..N |-> g[k]] /\ \A k \in 1..N : g[k] = turn(g, k)
    BY <1>3 DEF IsOn
  <2> QED  BY <2>1
<1>5. Setters(path, value, caller) = CHOOSE a : a = e(a)
  BY <1>0 DEF Setters
<1> HIDE DEF e
<1>6. PICK A : A = Setters(path, value, caller) /\ A = e(A)
  BY <1>4, <1>5
<1>7. \A n \in 1..N : A[n] = turn(A, n)
  BY <1>6 DEF e
<1>8. PICK W : W = [m \in 1..N |-> A[N - m + 1]]
  OBVIOUS
<1> HIDE DEF N
<1>9. 1 \in 1..N /\ N \in 1..N /\ N - N + 1 = 1 /\ N - 1 + 1 = N
  BY <1>1
<1>10. W[N] = first /\ W[1] = A[N]
  <2>1. W[N] = A[1] /\ W[1] = A[N]
    BY <1>8, <1>9
  <2> QED  BY <1>7, <1>9, <2>1
<1>11. ASSUME NEW m \in 1..(N - 1) PROVE W[m] = SetIn(R[m], path[m + 1], W[m + 1], caller)
  <2>1. PICK n \in 1..N : n = N - m + 1
    BY <1>1
  <2>2. n # 1 /\ N - n + 1 = m /\ N - n + 2 = m + 1 /\ N - (m + 1) + 1 = n - 1
    BY <1>1, <2>1
  <2>3. m \in 1..N /\ m + 1 \in 1..N
    BY <1>1
  <2>4. W[m] = A[n] /\ W[m + 1] = A[n - 1]
    BY <1>8, <2>1, <2>2, <2>3
  <2>5. A[n] = SetIn(R[m], path[m + 1], A[n - 1], caller)
    BY <1>7, <2>2
  <2> QED  BY <2>4, <2>5
<1> QED  BY <1>0, <1>6, <1>10, <1>11 DEF IsWriting, N

\* A copy of a dictionary or a list with another value in one place.
Copy(new, src, step, v) ==
    \/ /\ IsKey(step) /\ src.is = "dict"
       /\ new = Dict([k \in DOMAIN src.at \cup {step.key} |-> IF k = step.key THEN v ELSE src.at[k]])
    \/ ~IsKey(step) /\ src.is = "list" /\ new = List(Spliced(src.items, step.index, v))
IsSetting(w) == w = [cell |-> w.cell, value |-> w.value]
Owned(w, src, step, caller) ==
    IsKey(step) /\ src.is = "object" /\ w.cell = PropertyCell(src.object, step.key, caller) /\ w.cell # NoCell

LEMMA SetInIs ==
  ASSUME NEW w, IsSetting(w), NEW src, NEW step, NEW caller, NEW u, u = SetIn(src, step, w, caller)
  PROVE  /\ IsSetting(u)
         /\ w.cell # NoCell \/ w.value = Error => u = w
         /\ w.cell = NoCell /\ w.value # Error =>
               \/ u.cell = NoCell /\ u.value # Error /\ Copy(u.value, src, step, w.value)
               \/ Owned(u, src, step, caller) /\ u.value = w.value
               \/ u.cell = NoCell /\ u.value = Error
<1>1. CASE w.cell # NoCell \/ w.value = Error
  BY <1>1 DEF SetIn
<1>2. CASE /\ w.cell = NoCell /\ w.value # Error
  <2>0. \A x : [w EXCEPT !.value = x] = [cell |-> NoCell, value |-> x]
    BY <1>2 DEF IsSetting
  <2>a. \A x : [w EXCEPT !.cell = x] = [cell |-> x, value |-> w.value]
    BY <1>2 DEF IsSetting
  <2>1. CASE IsKey(step) /\ src.is = "dict"
    <3>1. PICK x : x = Dict([k \in DOMAIN src.at \cup {step.key} |->
                                IF k = step.key THEN w.value ELSE src.at[k]])
      OBVIOUS
    <3>2. u = [w EXCEPT !.value = x]
      BY <1>2, <2>1, <3>1 DEF SetIn
    <3>3. x # Error
      BY <3>1 DEF Dict, Error
    <3>4. u = [cell |-> NoCell, value |-> x]
      BY <2>0, <3>2
    <3> QED  BY <1>2, <2>1, <3>1, <3>3, <3>4 DEF Copy, IsSetting
  <2>2. CASE IsKey(step) /\ src.is = "object"
    <3>1. PICK c : c = PropertyCell(src.object, step.key, caller)
      OBVIOUS
    <3>2. u = IF MayWrite(step.key, caller) /\ c # NoCell THEN [w EXCEPT !.cell = c] ELSE Fails
      BY <1>2, <2>2, <3>1 DEF SetIn
    <3> QED  BY <1>2, <2>2, <2>a, <3>1, <3>2 DEF Owned, IsSetting, Fails
  <2>3. CASE ~IsKey(step) /\ src.is = "list"
    <3>1. PICK x : x = List(Spliced(src.items, step.index, w.value))
      OBVIOUS
    <3>2. u = [w EXCEPT !.value = x]
      BY <1>2, <2>3, <3>1 DEF SetIn
    <3>3. x # Error
      BY <3>1 DEF List, Error
    <3>4. u = [cell |-> NoCell, value |-> x]
      BY <2>0, <3>2
    <3> QED  BY <1>2, <2>3, <3>1, <3>3, <3>4 DEF Copy, IsSetting
  <2>4. CASE /\ ~(IsKey(step) /\ src.is = "dict") /\ ~(IsKey(step) /\ src.is = "object")
             /\ ~(~IsKey(step) /\ src.is = "list")
    <3>1. u = Fails
      BY <1>2, <2>4 DEF SetIn
    <3> QED  BY <1>2, <3>1 DEF IsSetting, Fails
  <2> QED  BY <2>1, <2>2, <2>3, <2>4
<1> QED  BY <1>1, <1>2

\* Where a value lands: in the variable or in the last object on the path,
\* with copies of all that is between.
Lands(W, R, path, caller, b) ==
    /\ b \in 1..Len(path)
    /\ \A j \in b..Len(path) : W[j].cell = NoCell /\ W[j].value # Error
    /\ \A j \in b..(Len(path) - 1) : Copy(W[j].value, R[j], path[j + 1], W[j + 1].value)
    /\ b # 1 => /\ IsKey(path[b]) /\ R[b - 1].is = "object"
                /\ PropertyCell(R[b - 1].object, path[b].key, caller) # NoCell
CellAt(R, path, caller, b) ==
    IF b = 1 THEN VariableCell(path[1]) ELSE PropertyCell(R[b - 1].object, path[b].key, caller)

LEMMA WrittenLands ==
  ASSUME NEW path \in Paths, NEW value, value # Error, NEW caller, NEW R, NEW W,
         IsWriting(W, R, path, value, caller), W[1] = Setters(path, value, caller)[Len(path)],
         NEW w, w = Written(path, value, caller), w.cell # NoCell
  PROVE  \E b : /\ Lands(W, R, path, caller, b) /\ w.value = W[b].value
                /\ w.cell = CellAt(R, path, caller, b)
<1> DEFINE N == Len(path)
           Open(m) == W[m].cell = NoCell /\ W[m].value # Error
           Fine == {m \in 1..N : \A j \in m..N : Open(j)}
<1>1. N \in Nat \ {0}
  BY PathsAre
<1> HIDE DEF N
<1>2. /\ W[N] = [cell |-> NoCell, value |-> value]
      /\ \A m \in 1..(N - 1) : W[m] = SetIn(R[m], path[m + 1], W[m + 1], caller)
  BY DEF IsWriting, N
<1>3. w = IF Open(1) THEN [W[1] EXCEPT !.cell = VariableCell(path[1])] ELSE W[1]
  BY DEF Written
<1>4. PICK b \in Fine : \A m \in Fine : b <= m
  <2>1. N \in Fine
    <3>1. \A j \in N..N : j = N
      BY <1>1
    <3>2. Open(N)
      BY <1>2
    <3>3. N \in 1..N
      BY <1>1
    <3> HIDE DEF Open
    <3> QED  BY <3>1, <3>2, <3>3
  <2>2. Fine \in SUBSET Nat
    OBVIOUS
  <2> HIDE DEF Fine
  <2> QED  BY <2>1, <2>2, LeastNatural
<1> DEFINE Set(m) == IsSetting(W[m])
<1>5. \A m \in 1..N : Set(m)
  <2> DEFINE Odd == {k \in 0..(N - 1) : ~Set(N - k)}
  <2>1. SUFFICES Odd = {}
    <3>1. ASSUME NEW m \in 1..N PROVE Set(m)
      <4>1. PICK k \in 0..(N - 1) : k = N - m
        BY <1>1
      <4>2. N - k = m
        BY <1>1, <4>1
      <4> HIDE DEF Set
      <4> QED  BY <2>1, <4>2
    <3> QED  BY <3>1
  <2>2. SUFFICES ASSUME Odd # {} PROVE FALSE
    OBVIOUS
  <2>3. Odd \in SUBSET Nat
    BY <1>1
  <2>4. PICK k \in Odd : \A m \in Odd : k <= m
    <3> HIDE DEF Odd
    <3> QED  BY <2>2, <2>3, LeastNatural
  <2>5. CASE k = 0
    <3>1. N - k = N
      BY <1>1, <2>5
    <3>2. Set(N)
      BY <1>2 DEF IsSetting
    <3> HIDE DEF Set
    <3> QED  BY <2>4, <3>1, <3>2
  <2>6. CASE k # 0
    <3>1. k - 1 \in 0..(N - 1) /\ ~(k <= k - 1) /\ N - k \in 1..(N - 1) /\ N - (k - 1) = (N - k) + 1
      BY <1>1, <2>4, <2>6
    <3>2. Set((N - k) + 1)
      <4> HIDE DEF Set
      <4> QED  BY <2>4, <3>1
    <3>3. W[N - k] = SetIn(R[N - k], path[(N - k) + 1], W[(N - k) + 1], caller)
      BY <1>2, <3>1
    <3>4. Set(N - k)
      BY <3>2, <3>3, SetInIs
    <3> HIDE DEF Set
    <3> QED  BY <2>4, <3>4
  <2> QED  BY <2>5, <2>6
<1>6. b \in 1..N /\ \A j \in b..N : Open(j)
  BY <1>4
<1>7. ASSUME NEW j \in b..(N - 1) PROVE Copy(W[j].value, R[j], path[j + 1], W[j + 1].value)
  <2>1. j \in 1..(N - 1) /\ j \in b..N /\ j + 1 \in b..N /\ j + 1 \in 1..N
    BY <1>1, <1>6
  <2>2. Open(j) /\ Open(j + 1) /\ Set(j + 1)
    BY <1>5, <1>6, <2>1
  <2>3. W[j] = SetIn(R[j], path[j + 1], W[j + 1], caller)
    BY <1>2, <2>1
  <2>4. \/ Copy(W[j].value, R[j], path[j + 1], W[j + 1].value)
        \/ Owned(W[j], R[j], path[j + 1], caller)
        \/ W[j].value = Error
    BY <2>2, <2>3, SetInIs
  <2> QED  BY <2>2, <2>4 DEF Owned
<1>8. CASE b = 1
  <2>1. Open(1)
    BY <1>1, <1>6, <1>8
  <2>2. w = [W[1] EXCEPT !.cell = VariableCell(path[1])] /\ IsSetting(W[1])
    BY <1>1, <1>3, <1>5, <2>1
  <2>3. w.value = W[1].value /\ w.cell = VariableCell(path[1])
    BY <2>2 DEF IsSetting
  <2>4. Lands(W, R, path, caller, 1)
    BY <1>6, <1>7, <1>8 DEF Lands, N
  <2> QED  BY <2>3, <2>4 DEF CellAt
<1>9. CASE b # 1
  <2>1. b - 1 \in 1..(N - 1) /\ b - 1 \in 1..N /\ (b - 1) + 1 = b /\ b \in 1..N /\ ~(b <= b - 1)
    BY <1>1, <1>6, <1>9
  <2>2. Open(b) /\ Set(b)
    BY <1>1, <1>5, <1>6
  <2>3. W[b - 1] = SetIn(R[b - 1], path[b], W[b], caller)
    BY <1>2, <2>1
  <2>4. ~Open(b - 1)
    <3>1. b - 1 \notin Fine
      BY <1>4, <2>1
    <3>2. PICK j \in (b - 1)..N : ~Open(j)
      BY <2>1, <3>1
    <3>3. j = b - 1 \/ j \in b..N
      BY <1>1, <1>6
    <3> HIDE DEF Open
    <3> QED  BY <1>6, <3>2, <3>3
  <2>5. \/ Owned(W[b - 1], R[b - 1], path[b], caller) /\ W[b - 1].value = W[b].value
        \/ W[b - 1].cell = NoCell /\ W[b - 1].value = Error
    BY <2>2, <2>3, <2>4, SetInIs
  <2> DEFINE Same == {m \in 1..(b - 1) : \A j \in m..(b - 1) : W[j] = W[b - 1]}
  <2>6. PICK m \in Same : \A n \in Same : m <= n
    <3>1. \A j \in (b - 1)..(b - 1) : j = b - 1
      BY <2>1
    <3>2. b - 1 \in Same
      BY <2>1, <3>1
    <3>3. Same \in SUBSET Nat
      OBVIOUS
    <3> HIDE DEF Same
    <3> QED  BY <3>2, <3>3, LeastNatural
  <2>7. m = 1
    <3> SUFFICES ASSUME m # 1 PROVE FALSE
      OBVIOUS
    <3>1. m \in 1..(b - 1) /\ m - 1 \in 1..(b - 1) /\ m - 1 \in 1..(N - 1) /\ (m - 1) + 1 = m /\ ~(m <= m - 1)
          /\ m \in 1..N
      BY <1>1, <1>6, <2>1, <2>6
    <3>2. W[m] = W[b - 1] /\ Set(m)
      BY <1>5, <2>6, <3>1
    <3>3. W[m - 1] = SetIn(R[m - 1], path[m], W[m], caller)
      BY <1>2, <3>1
    <3>4. W[m].cell # NoCell \/ W[m].value = Error
      BY <2>5, <3>2 DEF Owned
    <3>5. W[m - 1] = W[m]
      BY <3>2, <3>3, <3>4, SetInIs
    <3>6. \A j \in (m - 1)..(b - 1) : j = m - 1 \/ j \in m..(b - 1)
      BY <3>1
    <3>7. m - 1 \in Same
      BY <2>6, <3>1, <3>2, <3>5, <3>6
    <3> QED  BY <2>6, <3>1, <3>7
  <2>8. W[1] = W[b - 1]
    BY <2>1, <2>6, <2>7
  <2>9. ~Open(1) /\ w = W[1]
    BY <1>3, <2>4, <2>8
  <2>10. Owned(W[b - 1], R[b - 1], path[b], caller) /\ w.value = W[b].value
    BY <2>5, <2>8, <2>9
  <2>11. Lands(W, R, path, caller, b)
    BY <1>6, <1>7, <2>10 DEF Lands, Owned, N
  <2> QED  BY <1>9, <2>8, <2>9, <2>10, <2>11 DEF Owned, CellAt
<1> QED  BY <1>8, <1>9

\* Python's slices, and a sequence with another value in one place.
LEMMA SliceIs ==
  ASSUME NEW Y, NEW s \in Seq(Y), NEW a \in Int, NEW b \in Int
  PROVE  /\ Slice(s, a, b) \in Seq(Y)
         /\ a \in 0..Len(s) /\ b \in 0..Len(s) =>
               /\ Len(Slice(s, a, b)) = IF a <= b THEN b - a ELSE 0
               /\ \A i \in 1..(b - a) : Slice(s, a, b)[i] = s[a + i]
<1> DEFINE at(i) == IF i < 0 THEN IF Len(s) + i < 0 THEN 0 ELSE Len(s) + i
                    ELSE IF i > Len(s) THEN Len(s) ELSE i
<1>1. Len(s) \in Nat
  OBVIOUS
<1>2. at(a) \in 0..Len(s) /\ at(b) \in 0..Len(s)
  BY <1>1
<1>3. Slice(s, a, b) = SubSeq(s, at(a) + 1, at(b))
  BY DEF Slice
<1>4. (a \in 0..Len(s) => at(a) = a) /\ (b \in 0..Len(s) => at(b) = b)
  BY <1>1
<1> HIDE DEF at
<1>5. at(a) + 1 \in Int /\ at(b) \in Int /\ \A i \in (at(a) + 1)..at(b) : s[i] \in Y
  <2>1. \A i \in (at(a) + 1)..at(b) : i \in 1..Len(s)
    BY <1>1, <1>2
  <2> QED  BY <1>1, <1>2, <2>1
<1>6. /\ SubSeq(s, at(a) + 1, at(b)) \in Seq(Y)
      /\ Len(SubSeq(s, at(a) + 1, at(b))) =
            IF at(a) + 1 <= at(b) THEN at(b) - (at(a) + 1) + 1 ELSE 0
      /\ \A i \in 1..(at(b) - (at(a) + 1) + 1) : SubSeq(s, at(a) + 1, at(b))[i] = s[(at(a) + 1) + i - 1]
  BY <1>5, SubSeqProperties
<1>7. ASSUME a \in 0..Len(s), b \in 0..Len(s)
      PROVE  /\ Len(Slice(s, a, b)) = IF a <= b THEN b - a ELSE 0
             /\ \A i \in 1..(b - a) : Slice(s, a, b)[i] = s[a + i]
  <2>1. at(a) = a /\ at(b) = b
    BY <1>4, <1>7
  <2>2. b - (a + 1) + 1 = b - a /\ (a + 1 <= b \/ b - a = 0 \/ ~(a <= b)) /\ (a + 1 <= b => a <= b)
    BY <1>7
  <2>3. \A i \in 1..(b - a) : (a + 1) + i - 1 = a + i
    BY <1>7
  <2>4. Len(SubSeq(s, a + 1, b)) = IF a + 1 <= b THEN b - a ELSE 0
    BY <1>6, <2>1, <2>2
  <2>5. \A i \in 1..(b - a) : SubSeq(s, a + 1, b)[i] = s[a + i]
    BY <1>6, <2>1, <2>2, <2>3
  <2> QED  BY <1>3, <2>1, <2>2, <2>4, <2>5
<1> QED  BY <1>3, <1>6, <1>7

LEMMA SplicedIs ==
  ASSUME NEW Y, NEW s \in Seq(Y), NEW i \in Int, NEW v \in Y
  PROVE  /\ Spliced(s, i, v) \in Seq(Y)
         /\ i \in 0..(Len(s) - 1) =>
               /\ Len(Spliced(s, i, v)) = Len(s) /\ Spliced(s, i, v)[i + 1] = v
               /\ \A k \in 1..Len(s) : k # i + 1 => Spliced(s, i, v)[k] = s[k]
<1>1. Len(s) \in Nat /\ i + 1 \in Int
  OBVIOUS
<1>2. PICK p \in Seq(Y) : p = Slice(s, 0, i)
  BY SliceIs
<1>3. PICK q \in Seq(Y) : q = Slice(s, i + 1, Len(s))
  BY <1>1, SliceIs
<1>4. Spliced(s, i, v) = p \o <<v>> \o q
  BY <1>2, <1>3 DEF Spliced
<1>a. PICK one \in Seq(Y) : one = <<v>> /\ Len(one) = 1 /\ one[1] = v
  <2>1. <<>> \in Seq(Y) /\ Append(<<>>, v) = <<v>>
    OBVIOUS
  <2>2. Append(<<>>, v) \in Seq(Y)
    BY <2>1
  <2>3. Len(<<v>>) = 1 /\ <<v>>[1] = v
    OBVIOUS
  <2> QED  BY <2>1, <2>2, <2>3
<1>b. /\ p \o one \in Seq(Y) /\ Len(p \o one) = Len(p) + Len(one)
      /\ \A k \in 1..(Len(p) + Len(one)) : (p \o one)[k] = IF k <= Len(p) THEN p[k] ELSE one[k - Len(p)]
  BY ConcatProperties
<1>5. PICK r \in Seq(Y) : r = p \o <<v>>
  BY <1>a, <1>b
<1>6. Len(r) = Len(p) + 1 /\ r[Len(p) + 1] = v /\ \A k \in 1..Len(p) : r[k] = p[k]
  <2>1. Len(p) \in Nat
    OBVIOUS
  <2> QED  BY <1>5, <1>a, <1>b, <2>1
<1>7. /\ r \o q \in Seq(Y) /\ Len(r \o q) = Len(r) + Len(q)
      /\ \A k \in 1..(Len(r) + Len(q)) : (r \o q)[k] = IF k <= Len(r) THEN r[k] ELSE q[k - Len(r)]
  BY ConcatProperties
<1>8. ASSUME i \in 0..(Len(s) - 1)
      PROVE  /\ Len(r \o q) = Len(s) /\ (r \o q)[i + 1] = v
             /\ \A k \in 1..Len(s) : k # i + 1 => (r \o q)[k] = s[k]
  <2>1. 0 \in 0..Len(s) /\ i \in 0..Len(s) /\ i + 1 \in 0..Len(s) /\ Len(s) \in 0..Len(s)
        /\ 0 <= i /\ i - 0 = i /\ i + 1 <= Len(s) /\ 0 \in Int /\ i \in Int
    BY <1>1, <1>8
  <2>2. Len(p) = i /\ \A k \in 1..i : p[k] = s[k]
    <3>1. Len(p) = i - 0 /\ \A k \in 1..(i - 0) : p[k] = s[0 + k]
      BY <1>2, <2>1, SliceIs
    <3>2. \A k \in 1..i : 0 + k = k
      BY <2>1
    <3> QED  BY <2>1, <3>1, <3>2
  <2>3. Len(q) = Len(s) - (i + 1) /\ \A k \in 1..(Len(s) - (i + 1)) : q[k] = s[(i + 1) + k]
    <3>1. PICK a \in Int, b \in Int : a = i + 1 /\ b = Len(s)
      BY <1>1
    <3>2. Len(Slice(s, a, b)) = (IF a <= b THEN b - a ELSE 0) /\ \A k \in 1..(b - a) : Slice(s, a, b)[k] = s[a + k]
      <4>1. a \in 0..Len(s) /\ b \in 0..Len(s)
        BY <2>1, <3>1
      <4> QED  BY <4>1, SliceIs
    <3> QED  BY <1>3, <2>1, <3>1, <3>2
  <2>4. Len(r) = i + 1 /\ Len(r) + Len(q) = Len(s)
    BY <1>1, <1>6, <2>1, <2>2, <2>3
  <2>5. (r \o q)[i + 1] = v
    <3>1. i + 1 \in 1..(Len(r) + Len(q)) /\ i + 1 <= Len(r)
      BY <1>1, <2>1, <2>4
    <3> QED  BY <1>6, <1>7, <2>2, <3>1
  <2>6. ASSUME NEW k \in 1..Len(s), k # i + 1 PROVE (r \o q)[k] = s[k]
    <3>1. k \in 1..(Len(r) + Len(q))
      BY <2>4
    <3>2. CASE k <= i
      <4>1. k <= Len(r) /\ k \in 1..i /\ k \in 1..Len(p)
        BY <2>1, <2>2, <2>4, <3>2
      <4> QED  BY <1>6, <1>7, <2>2, <3>1, <4>1
    <3>3. CASE ~(k <= i)
      <4>1. ~(k <= i + 1) /\ k - (i + 1) \in 1..(Len(s) - (i + 1)) /\ (i + 1) + (k - (i + 1)) = k
        BY <1>1, <1>8, <2>6, <3>3
      <4>2. (r \o q)[k] = q[k - (i + 1)]
        BY <1>7, <2>4, <3>1, <4>1
      <4> QED  BY <2>3, <4>1, <4>2
    <3> QED  BY <3>2, <3>3
  <2> QED  BY <1>7, <2>4, <2>5, <2>6
<1> QED  BY <1>4, <1>5, <1>7, <1>8

LEMMA CopiesAreMade ==
  ASSUME NEW X, NEW Y, Closed(X), X \subseteq Y, NEW src \in X \cup {Error}, NEW step \in Steps, NEW v \in Y,
         NEW new, Copy(new, src, step, v)
  PROVE  IsMade(Y, new)
<1>1. src.is \in {"dict", "list"} => IsMade(X, src)
  BY DEF Error, Closed
<1>2. CASE IsKey(step) /\ src.is = "dict"
  <2>1. PICK f : f = [k \in DOMAIN src.at \cup {step.key} |-> IF k = step.key THEN v ELSE src.at[k]]
    OBVIOUS
  <2>2. new = Dict(f)
    BY <1>2, <2>1 DEF Copy
  <2>3. \A k \in DOMAIN f : f[k] \in Y
    BY <1>1, <1>2, <2>1 DEF IsMade
  <2> QED  BY <2>2, <2>3 DEF IsMade, Dict
<1>3. CASE ~IsKey(step) /\ src.is = "list"
  <2>1. src.items \in Seq(Y)
    <3>1. src.items \in Seq(X)
      BY <1>1, <1>3 DEF IsMade
    <3> QED  BY <3>1, SeqMonotonic
  <2>2. step.index \in Int
    BY <1>3, AssignmentAssumption DEF IsKey, Steps
  <2>3. PICK s \in Seq(Y) : s = Spliced(src.items, step.index, v)
    BY <2>1, <2>2, SplicedIs
  <2>4. new = List(s)
    BY <1>3, <2>3 DEF Copy
  <2> QED  BY <2>4 DEF IsMade, List
<1> QED  BY <1>2, <1>3 DEF Copy

\* What an assignment does to the memory.
Landed(W, R, path, value, caller, b) ==
    /\ Lands(W, R, path, caller, b) /\ W[Len(path)].value = value
    /\ CellAt(R, path, caller, b) \in Cells
    /\ memory' = [memory EXCEPT ![CellAt(R, path, caller, b)] = W[b].value]

LEMMA AssignmentLands ==
  ASSUME NEW X, Closed(X), Filled(X), NEW path \in Paths, NEW caller \in ClassNames, NEW value,
         AssignTo(path, value, caller)
  PROVE  \/ UNCHANGED memory /\ last' = Nothing
         \/ /\ last' = [path |-> path, caller |-> caller, value |-> value]
            /\ \E W, b : Landed(W, Reads(path, caller), path, value, caller, b)
<1>0. PICK R : R = Reads(path, caller)
  OBVIOUS
<1>1. PICK w : w = Written(path, value, caller)
  OBVIOUS
<1>2. /\ value # Error
      /\ w.cell = NoCell => last' = Nothing /\ UNCHANGED memory
      /\ w.cell # NoCell => /\ memory' = [memory EXCEPT ![w.cell] = w.value]
                            /\ last' = [path |-> path, caller |-> caller, value |-> value]
  BY <1>1 DEF AssignTo
<1>3. CASE w.cell = NoCell
  BY <1>2, <1>3
<1>4. CASE w.cell # NoCell
  <2>1. PICK W : IsWriting(W, R, path, value, caller) /\ W[1] = Setters(path, value, caller)[Len(path)]
    BY <1>0, WritingIs
  <2>2. PICK b : Lands(W, R, path, caller, b) /\ w.value = W[b].value /\ w.cell = CellAt(R, path, caller, b)
    BY <1>1, <1>2, <1>4, <2>1, WrittenLands
  <2>3. W[Len(path)].value = value
    BY <2>1 DEF IsWriting
  <2>4. CellAt(R, path, caller, b) \in Cells
    <3>0. Len(path) \in Nat \ {0} /\ path[1] \in Variables /\ \A n \in 2..Len(path) : path[n] \in Steps
      BY PathsAre
    <3>1. CASE b = 1
      BY <3>0, <3>1, CellsAre DEF CellAt
    <3>2. CASE b # 1
      <4>1. b \in 2..Len(path) /\ b - 1 \in 1..Len(path)
        BY <2>2, <3>0, <3>2 DEF Lands
      <4>2. /\ IsKey(path[b]) /\ R[b - 1].is = "object" /\ path[b] \in Steps
            /\ PropertyCell(R[b - 1].object, path[b].key, caller) # NoCell
        BY <2>2, <3>0, <3>2, <4>1 DEF Lands
      <4>3. R[b - 1] \in X \cup {Error}
        BY <1>0, <4>1, ReadingIs DEF IsReading
      <4>4. R[b - 1].object \in ObjectIds
        BY <4>2, <4>3 DEF Closed, IsMade, Error
      <4>5. path[b].key \in Names
        BY <4>2 DEF IsKey, Steps
      <4>6. PropertyCell(R[b - 1].object, path[b].key, caller) \in CellsOrNone
        BY <4>4, <4>5, CellsAre
      <4> QED  BY <3>2, <4>2, <4>6 DEF CellAt, CellsOrNone
    <3> QED  BY <3>1, <3>2
  <2>5. Landed(W, R, path, value, caller, b)
    BY <1>2, <1>4, <2>2, <2>3, <2>4 DEF Landed
  <2> QED  BY <1>0, <1>2, <1>4, <2>5
<1> QED  BY <1>3, <1>4

LEMMA AssignKept ==
  ASSUME NEW X, Closed(X), Filled(X), NEW path \in Paths, NEW caller \in ClassNames, NEW value \in X,
         NEW R, NEW W, NEW b, R = Reads(path, caller), Landed(W, R, path, value, caller, b)
  PROVE  AssignInv'
<1> DEFINE Y == X \cup {W[j].value : j \in b..Len(path)}
<1>0. Len(path) \in Nat \ {0} /\ \A n \in 2..Len(path) : path[n] \in Steps
  BY PathsAre
<1>1. /\ b \in 1..Len(path) /\ \A j \in b..(Len(path) - 1) : Copy(W[j].value, R[j], path[j + 1], W[j + 1].value)
      /\ W[Len(path)].value \in X
  BY DEF Landed, Lands
<1>2. X \subseteq Y /\ \A j \in b..Len(path) : W[j].value \in Y
  OBVIOUS
<1>3. \A v \in X : IsMade(Y, v)
  <2> SUFFICES ASSUME NEW v \in X PROVE IsMade(Y, v)
    OBVIOUS
  <2> HIDE DEF Y
  <2>1. IsMade(X, v)
    BY DEF Closed
  <2>2. v.is = "list" => v.items \in Seq(Y)
    <3>1. ASSUME v.is = "list" PROVE v.items \in Seq(Y)
      <4>1. v.items \in Seq(X)
        BY <2>1, <3>1 DEF IsMade
      <4> QED  BY <1>2, <4>1, SeqMonotonic
    <3> QED  BY <3>1
  <2>3. v.is = "dict" => \A k \in DOMAIN v.at : v.at[k] \in Y
    BY <1>2, <2>1 DEF IsMade
  <2>4. v.is = "object" => v.object \in ObjectIds
    BY <2>1 DEF IsMade
  <2> QED  BY <2>2, <2>3, <2>4 DEF IsMade
<1>4. ASSUME NEW j \in b..Len(path) PROVE IsMade(Y, W[j].value)
  <2>1. CASE j = Len(path)
    BY <1>1, <1>3, <2>1
  <2>2. CASE j # Len(path)
    <3>1. j \in b..(Len(path) - 1) /\ j + 1 \in b..Len(path) /\ j + 1 \in 2..Len(path) /\ j \in 1..Len(path)
      BY <1>0, <1>1, <2>2
    <3>2. R[j] \in X \cup {Error}
      BY <3>1, ReadingIs DEF IsReading
    <3>3. path[j + 1] \in Steps /\ W[j + 1].value \in Y /\ Copy(W[j].value, R[j], path[j + 1], W[j + 1].value)
      BY <1>0, <1>1, <1>2, <3>1
    <3> HIDE DEF Y
    <3> QED  BY <1>2, <3>2, <3>3, CopiesAreMade
  <2> QED  BY <2>1, <2>2
<1>5. Closed(Y)
  <2>1. Literals \subseteq Y
    BY DEF Closed
  <2>2. \A v \in Y : v \in X \/ \E j \in b..Len(path) : v = W[j].value
    OBVIOUS
  <2> HIDE DEF Y
  <2> QED  BY <1>3, <1>4, <2>1, <2>2 DEF Closed
<1>6. PICK v \in Y : v = W[b].value
  <2>1. b \in b..Len(path)
    BY <1>0, <1>1
  <2> QED  BY <1>2, <2>1
<1> HIDE DEF Y
<1>7. PICK c \in Cells : c = CellAt(R, path, caller, b)
  BY DEF Landed
<1>8. memory \in [Cells -> Y \cup {Error}]
  BY <1>2 DEF Filled
<1>9. memory' = [memory EXCEPT ![c] = v]
  BY <1>6, <1>7 DEF Landed
<1>10. memory' \in [Cells -> Y \cup {Error}]
  BY <1>6, <1>8, <1>9
<1> QED  BY <1>5, <1>10 DEF AssignInv, Filled, Closed, IsMade

LEMMA PrefixIs ==
  ASSUME NEW Y, NEW s \in Seq(Y), NEW t \in Seq(Y)
  PROVE  IsPrefix(s, t) <=> Len(s) <= Len(t) /\ \A i \in 1..Len(s) : s[i] = t[i]
<1> DEFINE n == Len(s)
<1>1. n \in Nat /\ Len(t) \in Nat
  OBVIOUS
<1> SUFFICES ASSUME n <= Len(t)
             PROVE  SubSeq(s, 1, n) = SubSeq(t, 1, n) <=> \A i \in 1..n : s[i] = t[i]
  BY DEF IsPrefix
<1>2. /\ SubSeq(s, 1, n) \in Seq(Y) /\ Len(SubSeq(s, 1, n)) = (IF 1 <= n THEN n - 1 + 1 ELSE 0)
      /\ \A i \in 1..(n - 1 + 1) : SubSeq(s, 1, n)[i] = s[1 + i - 1]
  <2>1. \A i \in 1..n : s[i] \in Y
    OBVIOUS
  <2> QED  BY <1>1, <2>1, SubSeqProperties
<1>3. /\ SubSeq(t, 1, n) \in Seq(Y) /\ Len(SubSeq(t, 1, n)) = (IF 1 <= n THEN n - 1 + 1 ELSE 0)
      /\ \A i \in 1..(n - 1 + 1) : SubSeq(t, 1, n)[i] = t[1 + i - 1]
  <2>1. \A i \in 1..n : t[i] \in Y
    BY <1>1
  <2> QED  BY <1>1, <2>1, SubSeqProperties
<1> HIDE DEF n
<1>4. n - 1 + 1 = n /\ (IF 1 <= n THEN n ELSE 0) = n /\ \A i \in 1..n : 1 + i - 1 = i
  BY <1>1
<1>a. PICK a \in Seq(Y) : a = SubSeq(s, 1, n) /\ Len(a) = n /\ \A i \in 1..n : a[i] = s[i]
  BY <1>2, <1>4
<1>b. PICK b \in Seq(Y) : b = SubSeq(t, 1, n) /\ Len(b) = n /\ \A i \in 1..n : b[i] = t[i]
  BY <1>3, <1>4
<1>6. a = b <=> \A i \in 1..n : a[i] = b[i]
  <2>1. (\A i \in 1..Len(a) : a[i] = b[i]) => a = b
    BY <1>a, <1>b, SeqEqual
  <2> QED  BY <1>a, <1>b, <2>1
<1> QED  BY <1>a, <1>b, <1>6

LEMMA AppendsAre ==
  ASSUME NEW Y, NEW s \in Seq(Y), NEW t \in Seq(Y), NEW x \in Y, NEW y \in Y, Append(s, x) = Append(t, y)
  PROVE  s = t /\ x = y
<1>1. /\ Len(Append(s, x)) = Len(s) + 1 /\ Append(s, x)[Len(s) + 1] = x
      /\ \A i \in 1..Len(s) : Append(s, x)[i] = s[i]
  OBVIOUS
<1>2. /\ Len(Append(t, y)) = Len(t) + 1 /\ Append(t, y)[Len(t) + 1] = y
      /\ \A i \in 1..Len(t) : Append(t, y)[i] = t[i]
  OBVIOUS
<1>3. Len(s) = Len(t)
  <2>1. Len(s) \in Nat /\ Len(t) \in Nat
    OBVIOUS
  <2> QED  BY <1>1, <1>2, <2>1
<1>4. \A i \in 1..Len(s) : s[i] = t[i]
  BY <1>1, <1>2, <1>3
<1> QED  BY <1>1, <1>2, <1>3, <1>4, SeqEqual

\* The places from where a value lands to the end of the path.
IsWay(T, R, path, b, C) ==
    /\ T[b] = Place(C, <<>>)
    /\ \A j \in b..Len(path) : T[j] \in Points /\ T[j].cell = C /\ Len(T[j].within) = j - b
    /\ \A j \in b..(Len(path) - 1) : /\ PartAt(R[j], path[j + 1]) \in PartNames
                                     /\ T[j + 1] = Place(C, Append(T[j].within, PartAt(R[j], path[j + 1])))

LEMMA PartIs ==
  ASSUME NEW X, Closed(X), NEW v \in X \cup {Error}, NEW step \in Steps
  PROVE  PartAt(v, step) \in PartNames
<1>1. CASE ~IsKey(step) /\ v.is = "list"
  <2>1. IsMade(X, v)
    BY <1>1 DEF Error, Closed
  <2>2. step.index \in Int
    BY <1>1, AssignmentAssumption DEF IsKey, Steps
  <2>3. Len(v.items) \in Nat
    BY <1>1, <2>1 DEF IsMade
  <2>4. Position(step.index, Len(v.items)) \in Int
    BY <2>2, <2>3 DEF Position
  <2> QED  BY <1>1, <2>4 DEF PartAt, PartNames
<1>2. CASE ~(~IsKey(step) /\ v.is = "list")
  BY <1>2 DEF PartAt, PartNames
<1> QED  BY <1>1, <1>2

LEMMA WayIs ==
  ASSUME NEW X, Closed(X), Filled(X), NEW path \in Paths, NEW caller \in ClassNames,
         NEW R, R = Reads(path, caller), NEW T, T = Route(path, caller),
         NEW W, NEW b, Lands(W, R, path, caller, b), NEW C, C = CellAt(R, path, caller, b)
  PROVE  IsWay(T, R, path, b, C)
<1> DEFINE N == Len(path)
<1>0. N \in Nat \ {0} /\ \A n \in 2..N : path[n] \in Steps
  BY PathsAre
<1>1. /\ T \in [1..N -> Points] /\ T[1] = Place(VariableCell(path[1]), <<>>)
      /\ \A n \in 2..N : T[n] = NextPlace(T[n - 1], R[n - 1], path[n], caller)
      /\ R \in [1..N -> X \cup {Error}]
  BY RouteIs, ReadingIs DEF IsRoute, IsReading
<1>2. /\ b \in 1..N /\ \A j \in b..(N - 1) : Copy(W[j].value, R[j], path[j + 1], W[j + 1].value)
      /\ b # 1 => IsKey(path[b]) /\ R[b - 1].is = "object"
  BY DEF Lands
<1> HIDE DEF N
<1>3. T[b] = Place(C, <<>>)
  <2>1. CASE b = 1
    BY <1>1, <2>1 DEF CellAt
  <2>2. CASE b # 1
    <3>1. b \in 2..N
      BY <1>0, <1>2, <2>2
    <3> QED  BY <1>1, <1>2, <2>2, <3>1 DEF CellAt, NextPlace
  <2> QED  BY <2>1, <2>2
<1>4. ASSUME NEW j \in b..(N - 1)
      PROVE  /\ PartAt(R[j], path[j + 1]) \in PartNames
             /\ T[j + 1] = Place(T[j].cell, Append(T[j].within, PartAt(R[j], path[j + 1])))
  <2>1. j \in 1..N /\ j + 1 \in 2..N /\ (j + 1) - 1 = j
    BY <1>0, <1>2
  <2>2. ~(IsKey(path[j + 1]) /\ R[j].is = "object")
    BY <1>2, <1>4 DEF Copy
  <2>3. PartAt(R[j], path[j + 1]) \in PartNames
    BY <1>0, <1>1, <2>1, PartIs
  <2> QED  BY <1>1, <2>1, <2>2, <2>3 DEF NextPlace
<1> DEFINE Ok(j) == T[j].cell = C /\ Len(T[j].within) = j - b
           Odd == {j \in b..N : ~Ok(j)}
<1>5. Odd = {}
  <2> SUFFICES ASSUME Odd # {} PROVE FALSE
    OBVIOUS
  <2>1. Odd \in SUBSET Nat
    BY <1>0, <1>2
  <2>2. PICK j \in Odd : \A m \in Odd : j <= m
    <3> HIDE DEF Odd
    <3> QED  BY <2>1, LeastNatural
  <2>3. Ok(b)
    BY <1>0, <1>2, <1>3 DEF Place
  <2>4. j - 1 \in b..(N - 1) /\ j - 1 \in b..N /\ ~(j <= j - 1) /\ (j - 1) + 1 = j /\ j - 1 \in 1..N
    <3>1. j # b
      <4> HIDE DEF Ok
      <4> QED  BY <2>2, <2>3
    <3> QED  BY <1>0, <1>2, <2>2, <3>1
  <2>5. Ok(j - 1)
    <3> HIDE DEF Ok
    <3> QED  BY <2>2, <2>4
  <2>6. PICK s \in Seq(PartNames), p \in PartNames :
            s = T[j - 1].within /\ p = PartAt(R[j - 1], path[j]) /\ T[j] = Place(C, Append(s, p))
    <3>1. T[j - 1].within \in Seq(PartNames)
      BY <1>1, <2>4 DEF Points
    <3> QED  BY <1>4, <2>4, <2>5, <3>1
  <2>7. T[j].cell = C /\ T[j].within = Append(s, p)
    BY <2>6 DEF Place
  <2>8. Len(Append(s, p)) = Len(s) + 1
    OBVIOUS
  <2>9. Ok(j)
    BY <1>0, <1>2, <2>4, <2>5, <2>6, <2>7, <2>8
  <2> HIDE DEF Ok
  <2> QED  BY <2>2, <2>9
<1>6. \A j \in b..N : T[j] \in Points /\ Ok(j)
  <2> HIDE DEF Ok
  <2> QED  BY <1>0, <1>1, <1>2, <1>5
<1>7. \A j \in b..(N - 1) : T[j].cell = C
  <2>1. \A j \in b..(N - 1) : j \in b..N
    BY <1>0, <1>2
  <2> QED  BY <1>6, <2>1
<1> QED  BY <1>3, <1>4, <1>6, <1>7 DEF IsWay, N

\* A copy reads as before but where it has the new value.
IsReadNow(new, src, at, step, v, c, d) ==
    /\ PartAt(src, step) = PartAt(src, at) =>
          Got(src, step, c) = Got(src, at, d) /\ Got(new, step, c)' = v
    /\ PartAt(src, step) # PartAt(src, at) => Got(new, step, c)' = Got(src, step, c)

LEMMA CopyReads ==
  ASSUME NEW X, Closed(X), NEW src \in X \cup {Error}, NEW at \in Steps, NEW step \in Steps,
         NEW c, NEW d, NEW Y, X \subseteq Y, NEW v \in Y, NEW new, Copy(new, src, at, v),
         ~IsKey(at) /\ src.is = "list" => at.index \in 0..(Len(src.items) - 1)
  PROVE  IsReadNow(new, src, at, step, v, c, d)
<1> USE DEF IsReadNow
<1>1. CASE IsKey(at) /\ src.is = "dict"
  <2>1. PICK f : f = [k \in DOMAIN src.at \cup {at.key} |-> IF k = at.key THEN v ELSE src.at[k]]
    OBVIOUS
  <2>2. new = Dict(f)
    BY <1>1, <2>1 DEF Copy
  <2>3. new.is = "dict" /\ new.at = f
    BY <2>2 DEF Dict
  <2>4. PartAt(src, step) = step /\ PartAt(src, at) = at
    BY <1>1 DEF PartAt
  <2>5. CASE IsKey(step)
    <3>1. step = at <=> step.key = at.key
      BY <1>1, <2>5 DEF Steps, IsKey
    <3>2. /\ Got(src, step, c) = IF step.key \in DOMAIN src.at THEN src.at[step.key] ELSE EmptyDict
          /\ Got(src, at, d) = IF at.key \in DOMAIN src.at THEN src.at[at.key] ELSE EmptyDict
      BY <1>1, <2>5 DEF Got
    <3>3. Got(new, step, c)' = IF step.key \in DOMAIN f THEN f[step.key] ELSE EmptyDict
      BY <2>3, <2>5 DEF Got
    <3>4. step.key = at.key => Got(new, step, c)' = v
      BY <2>1, <3>3
    <3>5. step.key # at.key => Got(new, step, c)' = Got(src, step, c)
      BY <2>1, <3>2, <3>3
    <3> QED  BY <2>4, <3>1, <3>2, <3>4, <3>5
  <2>6. CASE ~IsKey(step)
    <3>1. step # at
      BY <1>1, <2>6
    <3>2. Got(src, step, c) = Error
      BY <1>1, <2>6 DEF Got
    <3>3. Got(new, step, c)' = Error
      BY <2>3, <2>6 DEF Got
    <3> QED  BY <2>4, <3>1, <3>2, <3>3
  <2> QED  BY <2>5, <2>6
<1>2. CASE ~IsKey(at) /\ src.is = "list"
  <2>1. src.items \in Seq(X) /\ src.items \in Seq(Y)
    <3>1. IsMade(X, src)
      BY <1>2 DEF Error, Closed
    <3>2. src.items \in Seq(X)
      BY <1>2, <3>1 DEF IsMade
    <3> QED  BY <3>2, SeqMonotonic
  <2>2. PICK n \in Nat : n = Len(src.items)
    BY <2>1
  <2>3. PICK i \in Int : i = at.index /\ i \in 0..(n - 1)
    BY <1>2, <2>2
  <2>4. PICK s \in Seq(Y) : /\ s = Spliced(src.items, i, v) /\ Len(s) = n /\ s[i + 1] = v
                            /\ \A k \in 1..n : k # i + 1 => s[k] = src.items[k]
    <3>1. PICK t \in Seq(Y) : t = src.items /\ Len(t) = n
      BY <2>1, <2>2
    <3>2. i \in 0..(Len(t) - 1)
      BY <2>3, <3>1
    <3>3. /\ Spliced(t, i, v) \in Seq(Y) /\ Len(Spliced(t, i, v)) = Len(t) /\ Spliced(t, i, v)[i + 1] = v
          /\ \A k \in 1..Len(t) : k # i + 1 => Spliced(t, i, v)[k] = t[k]
      BY <3>2, SplicedIs
    <3> QED  BY <3>1, <3>3
  <2>5. new = List(s)
    BY <1>2, <2>3, <2>4 DEF Copy
  <2>6. new.is = "list" /\ new.items = s
    BY <2>5 DEF List
  <2>7. PartAt(src, at) = [index |-> i + 1]
    <3>1. Position(i, n) = i + 1
      BY <2>3 DEF Position
    <3> QED  BY <1>2, <2>2, <2>3, <3>1 DEF PartAt
  <2>8. CASE IsKey(step)
    <3>1. PartAt(src, step) # PartAt(src, at)
      <4>1. PartAt(src, step) = step
        BY <2>8 DEF PartAt
      <4>2. "key" \notin DOMAIN [index |-> i + 1]
        OBVIOUS
      <4> QED  BY <2>7, <2>8, <4>1, <4>2 DEF IsKey
    <3>2. Got(src, step, c) = Error
      BY <1>2, <2>8 DEF Got
    <3>3. Got(new, step, c)' = Error
      BY <2>6, <2>8 DEF Got
    <3> QED  BY <3>1, <3>2, <3>3
  <2>9. CASE ~IsKey(step)
    <3>1. PICK p \in Int : p = Position(step.index, n)
      <4>1. step.index \in Int
        BY <2>9, AssignmentAssumption DEF IsKey, Steps
      <4> QED  BY <4>1 DEF Position
    <3>2. PartAt(src, step) = [index |-> p]
      BY <1>2, <2>2, <2>9, <3>1 DEF PartAt
    <3>3. PartAt(src, step) = PartAt(src, at) <=> p = i + 1
      BY <2>7, <3>2
    <3>4. Got(src, step, c) = IF p \in 1..n THEN src.items[p] ELSE Error
      BY <1>2, <2>2, <2>9, <3>1 DEF Got
    <3>5. Got(new, step, c)' = IF p \in 1..n THEN s[p] ELSE Error
      BY <2>4, <2>6, <2>9, <3>1 DEF Got
    <3>6. Got(src, at, d) = src.items[i + 1] /\ i + 1 \in 1..n
      <4>1. Position(at.index, Len(src.items)) = i + 1 /\ i + 1 \in 1..n
        BY <2>2, <2>3 DEF Position
      <4> QED  BY <1>2, <2>2, <4>1 DEF Got
    <3>7. p = i + 1 => Got(src, step, c) = Got(src, at, d) /\ Got(new, step, c)' = v
      BY <2>4, <3>4, <3>5, <3>6
    <3>8. p # i + 1 => Got(new, step, c)' = Got(src, step, c)
      BY <2>4, <3>4, <3>5
    <3> QED  BY <3>3, <3>7, <3>8
  <2> QED  BY <2>8, <2>9
<1> QED  BY <1>1, <1>2 DEF Copy

LEMMA EndsPass ==
  ASSUME NEW place \in Points
  PROVE  PassesBy(place, place)
BY PrefixIs DEF PassesBy, Points

\* Reading another path: at the places between where the value lands and the
\* end of its path there are the copies now, and elsewhere what was before.
Tracks(T, R, W, path, b, u, s, now) ==
    \/ \E j \in b..(Len(path) - 1) : u = T[j] /\ s = R[j] /\ now = W[j].value
    \/ (\A j \in b..(Len(path) - 1) : u # T[j]) /\ now = s

LEMMA Onward ==
  ASSUME NEW X, Closed(X), Filled(X), NEW path \in Paths, NEW caller \in ClassNames, NEW value,
         NEW R, R = Reads(path, caller), NEW W, NEW b, Landed(W, R, path, value, caller, b),
         InRange(path, caller), NEW C, C = CellAt(R, path, caller, b), NEW T, IsWay(T, R, path, b, C),
         NEW c \in ClassNames, NEW step \in Steps, NEW u \in Points, NEW s \in X \cup {Error}, NEW now,
         Tracks(T, R, W, path, b, u, s, now), NEW place, place = NextPlace(u, s, step, c),
         ~PassesBy(place, T[Len(path)])
  PROVE  Tracks(T, R, W, path, b, place, Got(s, step, c), Got(now, step, c)')
<1> DEFINE N == Len(path)
<1>0. N \in Nat \ {0} /\ \A n \in 2..N : path[n] \in Steps
  BY PathsAre
<1>1. /\ b \in 1..N /\ \A j \in b..(N - 1) : Copy(W[j].value, R[j], path[j + 1], W[j + 1].value)
      /\ b # 1 => IsKey(path[b]) /\ R[b - 1].is = "object"
      /\ W[b].value # Error
  <2>1. N \in Nat
    BY <1>0
  <2> QED  BY <2>1 DEF Landed, Lands
<1>2. C \in Cells /\ memory' = [memory EXCEPT ![C] = W[b].value]
  BY DEF Landed
<1>3. /\ R \in [1..N -> X \cup {Error}] /\ R[1] = memory[VariableCell(path[1])]
      /\ \A n \in 2..N : R[n] = Got(R[n - 1], path[n], caller)
  BY ReadingIs DEF IsReading
<1>4. \A n \in 1..(N - 1) : ~IsKey(path[n + 1]) /\ R[n].is = "list" =>
                               path[n + 1].index \in 0..(Len(R[n].items) - 1)
  BY DEF InRange
<1>5. /\ T[b] = Place(C, <<>>)
      /\ \A j \in b..N : T[j] \in Points /\ T[j].cell = C /\ Len(T[j].within) = j - b
      /\ \A j \in b..(N - 1) : /\ PartAt(R[j], path[j + 1]) \in PartNames
                               /\ T[j + 1] = Place(C, Append(T[j].within, PartAt(R[j], path[j + 1])))
  BY DEF IsWay
<1>6. u.cell \in CellsOrNone /\ u.within \in Seq(PartNames) /\ u = Place(u.cell, u.within)
  BY DEF Points, Place
<1>7. T[N] \in Points
  <2>1. N \in b..N
    BY <1>0, <1>1
  <2> QED  BY <1>5, <2>1
<1>8. place # T[N]
  BY <1>7, EndsPass
<1> HIDE DEF N
<1>9. CASE ~(IsKey(step) /\ s.is = "object")
  <2>1. PICK part \in PartNames : part = PartAt(s, step)
    BY PartIs
  <2>2. place = Place(u.cell, Append(u.within, part))
    BY <1>9, <2>1 DEF NextPlace
  <2>3. \A j \in b..(N - 1) : place = T[j] => j - 1 \in b..(N - 1) /\ u = T[j - 1] /\ part = PartAt(R[j - 1], path[j])
    <3> SUFFICES ASSUME NEW j \in b..(N - 1), place = T[j]
                 PROVE  j - 1 \in b..(N - 1) /\ u = T[j - 1] /\ part = PartAt(R[j - 1], path[j])
      OBVIOUS
    <3>1. j # b
      <4>1. Append(u.within, part) # <<>>
        BY <1>6
      <4>2. T[b].within = <<>> /\ place.within = Append(u.within, part)
        BY <1>5, <2>2 DEF Place
      <4> QED  BY <4>1, <4>2
    <3>2. j - 1 \in b..(N - 1) /\ j - 1 \in b..N /\ (j - 1) + 1 = j
      BY <1>0, <1>1, <3>1
    <3>3. PICK t \in Seq(PartNames), p \in PartNames : t = T[j - 1].within /\ p = PartAt(R[j - 1], path[j])
      <4>1. T[j - 1].within \in Seq(PartNames)
        BY <1>5, <3>2 DEF Points
      <4> QED  BY <1>5, <3>2, <4>1
    <3>4. T[j] = Place(C, Append(t, p))
      BY <1>5, <3>2, <3>3
    <3>5. u.cell = C /\ Append(u.within, part) = Append(t, p)
      <4>1. T[j].cell = C /\ T[j].within = Append(t, p)
        BY <3>4 DEF Place
      <4>2. place.cell = u.cell /\ place.within = Append(u.within, part)
        BY <2>2 DEF Place
      <4> QED  BY <4>1, <4>2
    <3>6. u.within = t /\ part = p
      BY <1>6, <3>5, AppendsAre
    <3>7. T[j - 1] = Place(C, t)
      BY <1>5, <3>2, <3>3 DEF Points, Place
    <3> QED  BY <1>6, <3>2, <3>3, <3>5, <3>6, <3>7
  <2>4. CASE \E j \in b..(N - 1) : u = T[j] /\ s = R[j] /\ now = W[j].value
    <3>1. PICK j \in b..(N - 1) : u = T[j] /\ s = R[j] /\ now = W[j].value
      BY <2>4
    <3>2. j \in 1..(N - 1) /\ j + 1 \in 2..N /\ j \in b..N /\ (j + 1) - 1 = j
      BY <1>0, <1>1
    <3>3. PICK at \in Steps : at = path[j + 1]
      BY <1>0, <3>2
    <3>4. PICK v : v = W[j + 1].value
      OBVIOUS
    <3>5. Copy(now, s, at, v) /\ (~IsKey(at) /\ s.is = "list" => at.index \in 0..(Len(s.items) - 1))
      BY <1>1, <1>4, <3>1, <3>2, <3>3, <3>4
    <3>6. /\ part = PartAt(s, at) => Got(s, step, c) = Got(s, at, caller) /\ Got(now, step, c)' = v
          /\ part # PartAt(s, at) => Got(now, step, c)' = Got(s, step, c)
      <4>1. PICK Y : Y = X \cup {v}
        OBVIOUS
      <4>2. X \subseteq Y /\ v \in Y
        BY <4>1
      <4>3. IsReadNow(now, s, at, step, v, c, caller)
        BY <3>5, <4>2, CopyReads
      <4> QED  BY <2>1, <4>3 DEF IsReadNow
    <3>7. CASE part = PartAt(s, at)
      <4>1. place = T[j + 1]
        BY <1>5, <2>2, <3>1, <3>2, <3>3, <3>7
      <4>2. j + 1 \in b..(N - 1)
        <5>1. j + 1 # N
          BY <1>8, <4>1
        <5> QED  BY <1>0, <1>1, <3>2, <5>1
      <4>3. R[j + 1] = Got(s, at, caller)
        BY <1>3, <3>1, <3>2, <3>3
      <4> QED  BY <3>4, <3>6, <3>7, <4>1, <4>2, <4>3 DEF Tracks, N
    <3>8. CASE part # PartAt(s, at)
      <4>1. ASSUME NEW k \in b..(N - 1), place = T[k] PROVE FALSE
        <5>1. k - 1 \in b..(N - 1) /\ k - 1 \in b..N /\ T[j] = T[k - 1] /\ part = PartAt(R[k - 1], path[k])
          <6>1. k - 1 \in b..(N - 1) /\ u = T[k - 1] /\ part = PartAt(R[k - 1], path[k])
            BY <2>3, <4>1
          <6> QED  BY <1>0, <1>1, <3>1, <6>1
        <5>2. j - b = (k - 1) - b
          BY <1>5, <3>2, <5>1
        <5>3. k - 1 = j /\ k = j + 1
          BY <1>0, <1>1, <5>1, <5>2
        <5> QED  BY <3>1, <3>3, <3>8, <5>1, <5>3
      <4> QED  BY <3>6, <3>8, <4>1 DEF Tracks, N
    <3> QED  BY <3>7, <3>8
  <2>5. CASE (\A j \in b..(N - 1) : u # T[j]) /\ now = s
    <3>1. \A j \in b..(N - 1) : place # T[j]
      BY <2>3, <2>5
    <3>2. Got(s, step, c)' = Got(s, step, c)
      BY <1>9 DEF Got
    <3> QED  BY <2>5, <3>1, <3>2 DEF Tracks, N
  <2> QED  BY <2>4, <2>5 DEF Tracks, N
<1>10. CASE IsKey(step) /\ s.is = "object"
  <2>1. (\A j \in b..(N - 1) : u # T[j]) /\ now = s
    <3>1. ~ \E j \in b..(N - 1) : u = T[j] /\ s = R[j] /\ now = W[j].value
      BY <1>1, <1>10 DEF Copy
    <3> QED  BY <3>1 DEF Tracks, N
  <2>2. PICK cell \in CellsOrNone : cell = PropertyCell(s.object, step.key, c)
    <3>1. s.object \in ObjectIds /\ step.key \in Names
      BY <1>10 DEF Closed, IsMade, Error, IsKey, Steps
    <3> QED  BY <3>1, CellsAre
  <2>3. place = Place(cell, <<>>)
    BY <1>10, <2>2 DEF NextPlace
  <2>4. /\ Got(s, step, c) = IF cell = NoCell THEN Error
                             ELSE IF memory[cell] = Error THEN EmptyDict ELSE memory[cell]
        /\ Got(s, step, c)' = IF cell = NoCell THEN Error
                              ELSE IF memory'[cell] = Error THEN EmptyDict ELSE memory'[cell]
    BY <1>10, <2>2 DEF Got
  <2>5. CASE cell = C
    <3>1. place = T[b]
      BY <1>5, <2>3, <2>5
    <3>2. b \in b..(N - 1)
      <4>1. b # N
        BY <1>8, <3>1
      <4> QED  BY <1>0, <1>1, <4>1
    <3>3. b # 1
      BY <2>2, <2>5, CellsAre DEF CellAt
    <3>4. b \in 2..N
      BY <1>0, <1>1, <3>3
    <3>5. C = PropertyCell(R[b - 1].object, path[b].key, caller)
      BY <3>3 DEF CellAt
    <3>6. R[b] = IF C = NoCell THEN Error ELSE IF memory[C] = Error THEN EmptyDict ELSE memory[C]
      BY <1>1, <1>3, <3>3, <3>4, <3>5 DEF Got
    <3>7. memory'[C] = W[b].value
      BY <1>2 DEF Filled
    <3>8. C # NoCell
      BY <1>2, CellsAre
    <3>9. Got(s, step, c) = R[b] /\ Got(s, step, c)' = W[b].value
      BY <1>1, <2>4, <2>5, <3>6, <3>7, <3>8
    <3> QED  BY <2>1, <3>1, <3>2, <3>9 DEF Tracks, N
  <2>6. CASE cell # C
    <3>1. \A j \in b..(N - 1) : place # T[j]
      <4>1. \A j \in b..(N - 1) : j \in b..N
        BY <1>0, <1>1
      <4> QED  BY <1>5, <2>3, <2>6, <4>1 DEF Place
    <3>2. cell # NoCell => memory'[cell] = memory[cell]
      BY <1>2, <2>6 DEF CellsOrNone, Filled
    <3>3. Got(s, step, c)' = Got(s, step, c)
      BY <2>4, <3>2
    <3> QED  BY <2>1, <3>1, <3>3 DEF Tracks, N
  <2> QED  BY <2>5, <2>6
<1> QED  BY <1>9, <1>10

IsReadAfter(now, path, caller) ==
    /\ now[1] = memory'[VariableCell(path[1])]
    /\ \A n \in 2..Len(path) : now[n] = Got(now[n - 1], path[n], caller)'

LEMMA Followed ==
  ASSUME NEW X, Closed(X), Filled(X), NEW path \in Paths, NEW caller \in ClassNames, NEW value,
         NEW R, R = Reads(path, caller), NEW W, NEW b, Landed(W, R, path, value, caller, b),
         InRange(path, caller), NEW C, C = CellAt(R, path, caller, b), NEW T, IsWay(T, R, path, b, C),
         NEW q \in Paths, NEW c \in ClassNames, NEW S, S = Reads(q, c), NEW U, U = Route(q, c),
         NEW now, IsReadAfter(now, q, c), NEW m \in 1..Len(q),
         \A k \in 1..m : ~PassesBy(U[k], T[Len(path)])
  PROVE  Tracks(T, R, W, path, b, U[m], S[m], now[m])
<1> DEFINE N == Len(path)
           Ok(n) == Tracks(T, R, W, path, b, U[n], S[n], now[n])
           Odd == {n \in 1..m : ~Ok(n)}
<1>0. /\ N \in Nat \ {0} /\ Len(q) \in Nat \ {0} /\ q[1] \in Variables
      /\ \A n \in 2..Len(q) : q[n] \in Steps
  BY PathsAre
<1>1. b \in 1..N
  BY DEF Landed, Lands
<1>2. C \in Cells /\ memory' = [memory EXCEPT ![C] = W[b].value]
  BY DEF Landed
<1>3. R[1] = memory[VariableCell(path[1])]
  BY ReadingIs DEF IsReading
<1>4. /\ S \in [1..Len(q) -> X \cup {Error}] /\ S[1] = memory[VariableCell(q[1])]
      /\ \A n \in 2..Len(q) : S[n] = Got(S[n - 1], q[n], c)
  BY ReadingIs DEF IsReading
<1>5. /\ U \in [1..Len(q) -> Points] /\ U[1] = Place(VariableCell(q[1]), <<>>)
      /\ \A n \in 2..Len(q) : U[n] = NextPlace(U[n - 1], S[n - 1], q[n], c)
  BY RouteIs DEF IsRoute
<1>6. T[b] = Place(C, <<>>) /\ \A j \in b..N : T[j] \in Points /\ T[j].cell = C
  BY DEF IsWay
<1>7. now[1] = memory'[VariableCell(q[1])] /\ \A n \in 2..Len(q) : now[n] = Got(now[n - 1], q[n], c)'
  BY DEF IsReadAfter
<1>8. Ok(1)
  <2>1. PICK cell \in Cells : cell = VariableCell(q[1])
    BY <1>0, CellsAre
  <2>2. U[1].cell = cell /\ U[1] = Place(cell, <<>>)
    BY <1>5, <2>1 DEF Place
  <2>3. CASE cell = C
    <3>1. U[1] = T[b]
      BY <1>6, <2>2, <2>3
    <3>2. b # N
      <4>1. T[b] \in Points
        BY <1>0, <1>1, <1>6
      <4>2. PassesBy(T[b], T[b])
        BY <4>1, EndsPass
      <4>3. 1 \in 1..m
        OBVIOUS
      <4> QED  BY <3>1, <4>2, <4>3
    <3>3. b \in b..(N - 1)
      BY <1>0, <1>1, <3>2
    <3>4. b = 1 /\ C = VariableCell(path[1])
      BY <2>1, <2>3, CellsAre DEF CellAt
    <3>5. S[1] = R[b]
      BY <1>3, <1>4, <2>1, <2>3, <3>4
    <3>6. now[1] = W[b].value
      BY <1>2, <1>7, <2>1, <2>3 DEF Filled
    <3> QED  BY <3>1, <3>3, <3>5, <3>6 DEF Tracks
  <2>4. CASE cell # C
    <3>1. \A j \in b..(N - 1) : U[1] # T[j]
      <4>1. \A j \in b..(N - 1) : j \in b..N
        BY <1>0, <1>1
      <4> QED  BY <1>6, <2>2, <2>4, <4>1
    <3>2. now[1] = S[1]
      BY <1>2, <1>4, <1>7, <2>1, <2>4 DEF Filled
    <3> QED  BY <3>1, <3>2 DEF Tracks
  <2> QED  BY <2>3, <2>4
<1>9. Odd = {}
  <2> SUFFICES ASSUME Odd # {} PROVE FALSE
    OBVIOUS
  <2>1. Odd \in SUBSET Nat
    OBVIOUS
  <2>2. PICK n \in Odd : \A k \in Odd : n <= k
    <3> HIDE DEF Odd
    <3> QED  BY <2>1, LeastNatural
  <2>3. n # 1
    <3> HIDE DEF Ok
    <3> QED  BY <1>8, <2>2
  <2>4. n \in 2..Len(q) /\ n \in 1..m /\ n - 1 \in 1..m /\ ~(n <= n - 1) /\ n - 1 \in 1..Len(q)
    BY <1>0, <2>2, <2>3
  <2>5. Ok(n - 1)
    <3> HIDE DEF Ok
    <3> QED  BY <2>2, <2>4
  <2>a. PICK s2 : s2 = now[n - 1]
    OBVIOUS
  <2>6. PICK s \in X \cup {Error}, u \in Points, step \in Steps :
           s = S[n - 1] /\ u = U[n - 1] /\ step = q[n]
    BY <1>0, <1>4, <1>5, <2>4
  <2>7. PICK place : place = NextPlace(u, s, step, c) /\ place = U[n]
    BY <1>5, <2>4, <2>6
  <2>8. ~PassesBy(place, T[Len(path)]) /\ Tracks(T, R, W, path, b, u, s, s2)
    BY <2>4, <2>5, <2>6, <2>7, <2>a
  <2>9. Tracks(T, R, W, path, b, place, Got(s, step, c), Got(s2, step, c)')
    BY <2>7, <2>8, Onward
  <2>10. S[n] = Got(s, step, c) /\ now[n] = Got(s2, step, c)'
    BY <1>4, <1>7, <2>4, <2>6, <2>a
  <2>11. Ok(n)
    BY <2>7, <2>9, <2>10
  <2> HIDE DEF Ok
  <2> QED  BY <2>2, <2>11
<1> HIDE DEF Ok
<1>10. Ok(m)
  <2>1. m \in 1..m
    BY <1>0
  <2> QED  BY <1>9, <2>1
<1> QED  BY <1>10 DEF Ok

\* The end of a path passes by what leads to it.
LEMMA EndPasses ==
  ASSUME NEW path \in Paths, NEW R, NEW T, NEW b \in 1..Len(path), NEW C, IsWay(T, R, path, b, C)
  PROVE  \A j \in b..Len(path) : PassesBy(T[Len(path)], T[j])
<1> DEFINE N == Len(path)
           Odd == {k \in 0..(N - b) : ~PassesBy(T[N], T[N - k])}
<1>0. N \in Nat \ {0} /\ b \in 1..N
  BY PathsAre
<1>1. /\ \A j \in b..N : T[j] \in Points /\ T[j].cell = C
      /\ \A j \in b..(N - 1) : /\ PartAt(R[j], path[j + 1]) \in PartNames
                               /\ T[j + 1] = Place(C, Append(T[j].within, PartAt(R[j], path[j + 1])))
  BY DEF IsWay
<1> HIDE DEF N
<1>2. Odd = {}
  <2> SUFFICES ASSUME Odd # {} PROVE FALSE
    OBVIOUS
  <2>1. Odd \in SUBSET Nat
    BY <1>0
  <2>2. PICK k \in Odd : \A n \in Odd : k <= n
    <3> HIDE DEF Odd
    <3> QED  BY <2>1, LeastNatural
  <2>3. k # 0
    <3>1. N \in b..N /\ N - 0 = N
      BY <1>0
    <3>2. PassesBy(T[N], T[N - 0])
      BY <1>1, <3>1, EndsPass
    <3> QED  BY <2>2, <3>2
  <2>4. PICK j \in b..(N - 1) : j = N - k
    BY <1>0, <2>2, <2>3
  <2>5. k - 1 \in 0..(N - b) /\ ~(k <= k - 1) /\ N - (k - 1) = j + 1 /\ j \in b..N /\ j + 1 \in b..N /\ N \in b..N
    BY <1>0, <2>2, <2>3, <2>4
  <2>6. PassesBy(T[N], T[j + 1])
    BY <2>2, <2>5
  <2>7. PICK s \in Seq(PartNames), p \in PartNames, t \in Seq(PartNames) :
           s = T[j].within /\ p = PartAt(R[j], path[j + 1]) /\ t = T[N].within
    <3>1. T[j].within \in Seq(PartNames) /\ T[N].within \in Seq(PartNames)
      BY <1>1, <2>5 DEF Points
    <3> QED  BY <1>1, <3>1
  <2>8. T[j + 1].within = Append(s, p)
    <3>1. T[j + 1] = Place(C, Append(s, p))
      BY <1>1, <2>7
    <3> QED  BY <3>1 DEF Place
  <2>9. PICK a \in Seq(PartNames) : /\ a = Append(s, p) /\ Len(a) = Len(s) + 1
                                    /\ \A i \in 1..Len(s) : a[i] = s[i]
    <3>1. /\ Append(s, p) \in Seq(PartNames) /\ Len(Append(s, p)) = Len(s) + 1
          /\ \A i \in 1..Len(s) : Append(s, p)[i] = s[i]
      OBVIOUS
    <3> QED  BY <3>1
  <2>10. Len(a) <= Len(t) /\ \A i \in 1..Len(a) : a[i] = t[i]
    <3>1. IsPrefix(a, t)
      BY <2>6, <2>7, <2>8, <2>9 DEF PassesBy
    <3> QED  BY <3>1, PrefixIs
  <2>11. Len(s) <= Len(t) /\ \A i \in 1..Len(s) : s[i] = t[i]
    <3>1. PICK ls \in Nat, lt \in Nat : ls = Len(s) /\ lt = Len(t)
      <4>1. Len(s) \in Nat /\ Len(t) \in Nat
        OBVIOUS
      <4> QED  BY <4>1
    <3>2. /\ Len(a) = ls + 1 /\ \A i \in 1..ls : a[i] = s[i]
          /\ Len(a) <= lt /\ \A i \in 1..Len(a) : a[i] = t[i]
      BY <2>9, <2>10, <3>1, Zenon
    <3>3. ls <= lt
      BY <3>2
    <3>4. ASSUME NEW i \in 1..ls PROVE s[i] = t[i]
      <4>1. i \in 1..(ls + 1)
        OBVIOUS
      <4> QED  BY <3>2, <4>1, Zenon
    <3> QED  BY <3>1, <3>3, <3>4, Zenon
  <2>12. IsPrefix(s, t)
    BY <2>11, PrefixIs
  <2>13. PassesBy(T[N], T[j])
    BY <1>1, <2>5, <2>7, <2>12 DEF PassesBy
  <2> QED  BY <2>2, <2>4, <2>13
<1>3. ASSUME NEW j \in b..N PROVE PassesBy(T[N], T[j])
  <2>1. N - j \in 0..(N - b) /\ N - (N - j) = j
    BY <1>0
  <2>2. N - j \notin Odd
    BY <1>2
  <2> QED  BY <2>1, <2>2
<1> QED  BY <1>3 DEF N

EveryRead ==
    \A X : Closed(X) /\ Filled(X) =>
       \A path \in Paths, caller \in ClassNames :
          \E R : IsReading(R, X, path, caller) /\ Get(path, caller) = R[Len(path)]

LEMMA AllAreRead == EveryRead
<1> SUFFICES ASSUME NEW X, Closed(X), Filled(X), NEW path \in Paths, NEW caller \in ClassNames
             PROVE  \E R : IsReading(R, X, path, caller) /\ Get(path, caller) = R[Len(path)]
  BY DEF EveryRead
<1>1. PICK R : R = Reads(path, caller)
  OBVIOUS
<1>2. IsReading(R, X, path, caller)
  BY <1>1, ReadingIs
<1>3. Get(path, caller) = R[Len(path)]
  BY <1>1 DEF Get
<1> QED  BY <1>2, <1>3

LEMMA ReadAfter ==
  ASSUME AssignInv', NEW path \in Paths, NEW caller \in ClassNames
  PROVE  \E now : IsReadAfter(now, path, caller) /\ Get(path, caller)' = now[Len(path)]
<1>1. PICK X : Closed(X) /\ Filled(X)'
  BY DEF AssignInv, Closed, IsMade
<1>2. EveryRead'
  BY AllAreRead, PTL
<1>3. Closed(X)' /\ Paths' = Paths
  BY <1>1 DEF Closed, IsMade
<1>4. PICK now : IsReading(now, X, path, caller)' /\ Get(path, caller)' = now[Len(path)]
  BY <1>1, <1>2, <1>3 DEF EveryRead
<1> QED  BY <1>4 DEF IsReading, IsReadAfter

\* Only who sees the place reads something else there.
LEMMA SeenOnly ==
  ASSUME NEW X, Closed(X), Filled(X), AssignInv', NEW path \in Paths, NEW caller \in ClassNames, NEW value,
         NEW R, R = Reads(path, caller), NEW W, NEW b, Landed(W, R, path, value, caller, b),
         InRange(path, caller), NEW q \in Paths, NEW c \in ClassNames,
         ~Sees(q, c, Route(path, caller)[Len(path)])
  PROVE  Get(q, c)' = Get(q, c)
<1>1. PICK T : T = Route(path, caller)
  OBVIOUS
<1>2. PICK C : C = CellAt(R, path, caller, b)
  OBVIOUS
<1>3. Lands(W, R, path, caller, b) /\ b \in 1..Len(path)
  BY DEF Landed, Lands
<1>4. IsWay(T, R, path, b, C)
  BY <1>1, <1>2, <1>3, WayIs
<1>5. PICK now : IsReadAfter(now, q, c) /\ Get(q, c)' = now[Len(q)]
  BY ReadAfter
<1>6. PICK S : S = Reads(q, c)
  OBVIOUS
<1>7. PICK U : U = Route(q, c)
  OBVIOUS
<1>8. PICK m \in 1..Len(q) : m = Len(q)
  <2>1. Len(q) \in Nat \ {0}
    BY PathsAre
  <2> QED  BY <2>1
<1>9. /\ \A k \in 1..m : ~PassesBy(U[k], T[Len(path)])
      /\ ~PassesBy(T[Len(path)], U[m])
  BY <1>1, <1>7, <1>8 DEF Sees
<1>10. Tracks(T, R, W, path, b, U[m], S[m], now[m])
  BY <1>2, <1>4, <1>5, <1>6, <1>7, <1>9, Followed
<1>11. \A j \in b..(Len(path) - 1) : U[m] # T[j]
  <2>1. \A j \in b..(Len(path) - 1) : j \in b..Len(path)
    <3>1. Len(path) \in Nat \ {0}
      BY PathsAre
    <3> QED  BY <1>3, <3>1
  <2>2. \A j \in b..Len(path) : PassesBy(T[Len(path)], T[j])
    BY <1>3, <1>4, EndPasses
  <2> QED  BY <1>9, <2>1, <2>2
<1>12. now[m] = S[m]
  BY <1>10, <1>11 DEF Tracks
<1> QED  BY <1>5, <1>6, <1>8, <1>12 DEF Get

\* Who assigned reads what was assigned.
LEMMA ReadBack ==
  ASSUME NEW X, Closed(X), Filled(X), AssignInv', NEW path \in Paths, NEW caller \in ClassNames, NEW value \in X,
         NEW R, R = Reads(path, caller), NEW W, NEW b, Landed(W, R, path, value, caller, b),
         InRange(path, caller), ~Crosses(path, caller)
  PROVE  Get(path, caller)' = value
<1> DEFINE N == Len(path)
<1>0. N \in Nat \ {0} /\ \A n \in 2..N : path[n] \in Steps
  BY PathsAre
<1>1. PICK T : T = Route(path, caller)
  OBVIOUS
<1>2. PICK C : C = CellAt(R, path, caller, b)
  OBVIOUS
<1>3. /\ Lands(W, R, path, caller, b) /\ b \in 1..N /\ W[N].value = value
      /\ C \in Cells /\ memory' = [memory EXCEPT ![C] = W[b].value] /\ W[b].value # Error
  <2>1. b \in b..Len(path)
    BY <1>0 DEF Landed, Lands
  <2> QED  BY <1>2, <2>1 DEF Landed, Lands
<1>4. IsWay(T, R, path, b, C)
  BY <1>1, <1>2, <1>3, WayIs
<1>5. PICK now : IsReadAfter(now, path, caller) /\ Get(path, caller)' = now[Len(path)]
  BY ReadAfter
<1>6. \A n \in 1..(N - 1) : ~PassesBy(T[n], T[N])
  BY <1>1 DEF Crosses
<1>7. now[1] = memory'[VariableCell(path[1])] /\ \A n \in 2..N : now[n] = Got(now[n - 1], path[n], caller)'
  BY <1>5 DEF IsReadAfter
<1>8. memory'[C] = W[b].value
  BY <1>3 DEF Filled
<1>9. R \in [1..N -> X \cup {Error}]
  BY ReadingIs DEF IsReading
<1> HIDE DEF N
<1>10. CASE N = 1
  <2>1. b = 1 /\ b = N
    BY <1>3, <1>10
  <2>2. C = VariableCell(path[1])
    BY <1>2, <2>1 DEF CellAt
  <2> QED  BY <1>3, <1>5, <1>7, <1>8, <2>1, <2>2 DEF N
<1>11. CASE N # 1
  <2>1. PICK m \in 1..N : m = N - 1
    BY <1>0, <1>11
  <2>2. m \in 1..Len(path) /\ m + 1 = N /\ N \in 2..N /\ N - 1 = m /\ N \in 1..N
    BY <1>0, <1>11, <2>1 DEF N
  <2>3. \A k \in 1..m : ~PassesBy(T[k], T[Len(path)])
    BY <1>6, <2>1 DEF N
  <2>4. Tracks(T, R, W, path, b, T[m], R[m], now[m])
    BY <1>1, <1>2, <1>4, <1>5, <2>2, <2>3, Followed
  <2>5. now[N] = Got(now[m], path[N], caller)'
    BY <1>7, <2>2
  <2>6. PICK step \in Steps : step = path[N]
    BY <1>0, <2>2
  <2>7. CASE b = N
    <3>1. now[m] = R[m]
      <4>1. ~ \E j \in b..(N - 1) : TRUE
        BY <1>0, <2>7
      <4> QED  BY <2>4, <4>1 DEF Tracks, N
    <3>2. b # 1 /\ b - 1 = m
      BY <1>11, <2>2, <2>7
    <3>3. /\ IsKey(step) /\ R[m].is = "object" /\ C = PropertyCell(R[m].object, step.key, caller)
          /\ C # NoCell
      BY <1>2, <1>3, <2>6, <2>7, <3>2 DEF Lands, CellAt
    <3>4. Got(R[m], step, caller)' = IF C = NoCell THEN Error
                                     ELSE IF memory'[C] = Error THEN EmptyDict ELSE memory'[C]
      BY <3>3 DEF Got
    <3>5. Got(R[m], step, caller)' = value
      BY <1>3, <1>8, <2>7, <3>3, <3>4
    <3>6. now[N] = Got(R[m], step, caller)'
      BY <2>5, <2>6, <3>1
    <3> QED  BY <1>5, <3>5, <3>6 DEF N
  <2>8. CASE b # N
    <3>1. m \in b..(N - 1) /\ m \in b..N
      BY <1>3, <2>1, <2>2, <2>8
    <3>2. now[m] = W[m].value
      <4>1. \A j \in b..(N - 1) : T[j] = T[m] => j = m
        <5>1. ASSUME NEW j \in b..(N - 1), T[j] = T[m] PROVE j = m
          <6>1. j \in b..N
            BY <1>0, <1>3
          <6>2. Len(T[j].within) = j - b /\ Len(T[m].within) = m - b
            BY <1>4, <3>1, <6>1 DEF IsWay, N
          <6>3. j - b = m - b
            BY <5>1, <6>2
          <6> QED  BY <1>0, <1>3, <6>3
        <5> QED  BY <5>1
      <4> QED  BY <2>4, <3>1, <4>1 DEF Tracks, N
    <3>3. Copy(W[m].value, R[m], step, value)
      BY <1>3, <2>2, <2>6, <3>1 DEF Lands, N
    <3>4. ~IsKey(step) /\ R[m].is = "list" => step.index \in 0..(Len(R[m].items) - 1)
      <4>1. m \in 1..(Len(path) - 1)
        BY <1>0, <2>1, <2>2 DEF N
      <4> QED  BY <2>2, <2>6, <4>1 DEF InRange
    <3>5. PICK src \in X \cup {Error} : src = R[m]
      BY <1>9
    <3>6. PICK new : new = W[m].value
      OBVIOUS
    <3>7. IsReadNow(new, src, step, step, value, caller, caller)
      <4>1. Copy(new, src, step, value) /\ (~IsKey(step) /\ src.is = "list" => step.index \in 0..(Len(src.items) - 1))
        BY <3>3, <3>4, <3>5, <3>6
      <4>2. X \subseteq X
        OBVIOUS
      <4> QED  BY <4>1, <4>2, CopyReads
    <3>8. Got(new, step, caller)' = value
      BY <3>7 DEF IsReadNow
    <3>9. now[N] = Got(new, step, caller)'
      BY <2>5, <2>6, <3>2, <3>6
    <3> QED  BY <1>5, <3>8, <3>9 DEF N
  <2> QED  BY <2>7, <2>8
<1> QED  BY <1>10, <1>11

LEMMA AssignStart == ASSUME AssignmentsInit PROVE AssignInv
<1>1. PICK x \in Values, p \in Values :
         memory = [c \in Cells |-> IF c.of = "variable" THEN x
                                   ELSE IF c.of = "static" THEN Nil
                                   ELSE IF c.part = "this" THEN p ELSE Error]
  BY DEF AssignmentsInit
<1> DEFINE X == Values \cup {Word("b"), Word("c")}
<1>2. Words \in X /\ EmptyDict \in X /\ Nil \in X /\ Literals \subseteq X /\ Word("b") \in X /\ Word("c") \in X
  BY DEF Values, Literals
<1>3. \A v \in X : \/ \E a : v = Word(a)
                   \/ v = EmptyDict \/ v = Words \/ v = Nil \/ v = List(<<Words, EmptyDict>>)
                   \/ \E o \in ObjectIds : v = Ref(o)
                   \/ \E n \in Names : v = Dict([k \in {n} |-> Words])
  BY DEF Values, Literals
<1> HIDE DEF X
<1>4. \A a : IsMade(X, Word(a))
  BY DEF IsMade, Word
<1>5. IsMade(X, EmptyDict) /\ IsMade(X, Nil)
  BY DEF IsMade, EmptyDict, Dict, Nil
<1>6. IsMade(X, Words) /\ IsMade(X, List(<<Words, EmptyDict>>))
  <2>1. <<Word("b"), Word("c")>> \in Seq(X) /\ <<Words, EmptyDict>> \in Seq(X)
    BY <1>2
  <2>2. \A s \in Seq(X) : IsMade(X, List(s))
    BY DEF IsMade, List
  <2> QED  BY <2>1, <2>2 DEF Words
<1>7. \A o \in ObjectIds : IsMade(X, Ref(o))
  BY DEF IsMade, Ref
<1>8. \A n \in Names : IsMade(X, Dict([k \in {n} |-> Words]))
  BY <1>2 DEF IsMade, Dict
<1>9. Closed(X)
  BY <1>2, <1>3, <1>4, <1>5, <1>6, <1>7, <1>8 DEF Closed
<1>10. x \in X /\ p \in X
  BY DEF X
<1>11. Filled(X)
  BY <1>1, <1>2, <1>10 DEF Filled
<1> QED  BY <1>9, <1>11 DEF AssignInv

\* What was assigned, and how.
LEMMA StepIsAssignment ==
  ASSUME AssignInv, AssignmentsNext
  PROVE  \E X : /\ Closed(X) /\ Filled(X)
                /\ \E path \in Paths, caller \in ClassNames, value \in X : AssignTo(path, value, caller)
<1>1. PICK X : Closed(X) /\ Filled(X)
  BY DEF AssignInv
<1>2. PICK path \in Paths, caller \in ClassNames :
         \/ \E value \in Literals : AssignTo(path, value, caller)
         \/ \E from \in Variables : AssignTo(path, memory[VariableCell(from)], caller)
  BY DEF AssignmentsNext
<1>3. CASE \E value \in Literals : AssignTo(path, value, caller)
  <2>1. \E value \in X : AssignTo(path, value, caller)
    BY <1>1, <1>3 DEF Closed
  <2> QED  BY <1>1, <2>1
<1>4. CASE \E from \in Variables : AssignTo(path, memory[VariableCell(from)], caller)
  <2>1. PICK from \in Variables : AssignTo(path, memory[VariableCell(from)], caller)
    BY <1>4
  <2>2. PICK value : value = memory[VariableCell(from)]
    OBVIOUS
  <2>3. value \in X \cup {Error}
    BY <1>1, <2>2, CellsAre DEF Filled
  <2>4. AssignTo(path, value, caller)
    BY <2>1, <2>2
  <2>5. value # Error
    BY <2>4 DEF AssignTo
  <2> QED  BY <1>1, <2>3, <2>4, <2>5
<1> QED  BY <1>2, <1>3, <1>4

\* What is assigned to a path is read there by the method that assigned it, and
\* is seen nowhere else (lhs_expression, MuranoObject.get_property and
\* set_property): for all classes, properties, variables, objects and paths of
\* any length.
THEOREM AssignmentsAreRead == AssignmentsSpec => AssignedIsRead
<1> DEFINE Fit == LET path == last'.path
                      caller == last'.caller
                  IN  (last = Nothing /\ last' # Nothing /\ InRange(path, caller)) =>
                      /\ Crosses(path, caller) \/ Get(last.path, last.caller)' = last'.value
                      /\ LET place == Route(path, caller)[Len(path)] IN
                         \A q \in Paths, c \in {Base, Derived} :
                             Get(q, c)' # Get(q, c) => Sees(q, c, place)
<1>1. AssignmentsInit => AssignInv
  BY AssignStart
<1>2. AssignInv /\ [AssignmentsNext]_assigning => AssignInv' /\ [Fit]_assigning
  <2> SUFFICES ASSUME AssignInv, [AssignmentsNext]_assigning PROVE AssignInv' /\ [Fit]_assigning
    OBVIOUS
  <2>1. CASE UNCHANGED assigning
    <3>1. UNCHANGED memory
      BY <2>1 DEF assigning
    <3> QED  BY <2>1, <3>1 DEF AssignInv, Closed, IsMade, Filled
  <2>2. CASE AssignmentsNext
    <3>1. PICK X : /\ Closed(X) /\ Filled(X)
                   /\ \E path \in Paths, caller \in ClassNames, value \in X : AssignTo(path, value, caller)
      BY <2>2, StepIsAssignment
    <3>2. PICK path \in Paths, caller \in ClassNames, value \in X : AssignTo(path, value, caller)
      BY <3>1
    <3>3. CASE UNCHANGED memory /\ last' = Nothing
      <4>1. AssignInv'
        BY <3>3 DEF AssignInv, Closed, IsMade, Filled
      <4> QED  BY <3>3, <4>1
    <3>4. CASE /\ last' = [path |-> path, caller |-> caller, value |-> value]
               /\ \E W, b : Landed(W, Reads(path, caller), path, value, caller, b)
      <4>1. PICK R : R = Reads(path, caller)
        OBVIOUS
      <4>2. PICK W, b : Landed(W, R, path, value, caller, b)
        BY <3>4, <4>1
      <4>3. AssignInv'
        BY <3>1, <4>1, <4>2, AssignKept
      <4>4. last'.path = path /\ last'.caller = caller /\ last'.value = value
        BY <3>4
      <4>5. ASSUME InRange(path, caller) PROVE Fit
        <5>1. ~Crosses(path, caller) => Get(path, caller)' = value
          BY <3>1, <4>1, <4>2, <4>3, <4>5, ReadBack
        <5>2. (path = last.path /\ caller = last.caller => Get(path, caller) = Get(last.path, last.caller))'
          OBVIOUS
        <5>3. Get(last.path, last.caller)' = Get(path, caller)'
          BY <4>4, <5>2
        <5>4. ASSUME NEW q \in Paths, NEW c \in {Base, Derived}, Get(q, c)' # Get(q, c)
              PROVE  Sees(q, c, Route(path, caller)[Len(path)])
          <6>1. c \in ClassNames
            BY DEF ClassNames
          <6> QED  BY <3>1, <4>1, <4>2, <4>3, <4>5, <5>4, <6>1, SeenOnly
        <5> QED  BY <4>4, <5>1, <5>3, <5>4
      <4>6. ASSUME ~InRange(path, caller) PROVE Fit
        BY <4>4, <4>6
      <4> QED  BY <4>3, <4>5, <4>6
    <3> QED  BY <3>1, <3>2, <3>3, <3>4, AssignmentLands
  <2> QED  BY <2>1, <2>2
<1> QED  BY <1>1, <1>2, PTL DEF AssignmentsSpec, AssignedIsRead
=============================================================================
