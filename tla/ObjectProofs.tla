----------------------------- MODULE ObjectProofs -----------------------------
(***************************************************************************)
(* Proofs about objects of MuranoPL: their initialisation (ObjectInit) and *)
(* their destruction (ObjectDestruction).                                  *)
(*                                                                         *)
(* Of an object under initialisation the invariant keeps, for the          *)
(* innermost call, the names that failed in the sweep before and those     *)
(* that have failed in this one.  As many as before means the same ones,   *)
(* that no value was set in between, and so that each of them waits for    *)
(* another.  For the constructors it says of every noted one that those of *)
(* the ancestors are noted before it.                                      *)
(*                                                                         *)
(* The order of destruction needs an invariant of the search of            *)
(* topological, which keeps its index once dfs is done with an object: the *)
(* objects that follow a finished one are done too, with lower indices,    *)
(* unless one of them is still on the stack, and then there is a circle.   *)
(* The invariant of the store says that what is destroyed now comes in     *)
(* that order, and that the groups before it have been told and destroyed. *)
(***************************************************************************)
EXTENDS ObjectInit, ObjectDestruction, SequenceTheorems, FiniteSetTheorems,
        WellFoundedInduction, TLAPS

-----------------------------------------------------------------------------
(* Initialisation of objects *)

\* Of some natural numbers one is the least.
LEMMA LeastNatural ==
  ASSUME NEW T \in SUBSET Nat, T # {}
  PROVE  \E m \in T : \A n \in T : m <= n
<1> DEFINE R == OpToRel(<, Nat)
<1>1. IsWellFoundedOn(R, Nat)
  BY NatLessThanWellFounded, Zenon
<1>2. R = {ss \in Nat \X Nat : ss[1] < ss[2]}
  BY DEF OpToRel
<1> HIDE DEF R
<1>3. PICK x \in T : \A y \in T : ~(<<y, x>> \in R)
  BY <1>1, WFMin, Zenon
<1>4. \A y \in T : ~(y < x)
  BY <1>2, <1>3
<1> QED  BY <1>3, <1>4

\* A hierarchy of classes has finitely many links.
LEMMA LinksAreFew ==
  ASSUME InitAssumption
  PROVE  Links \in Nat
<1> DEFINE W == [c \in Classes |-> {c} \X DOMAIN Extends[c]]
           T == {{c} \X DOMAIN Extends[c] : c \in Classes}
<1>1. \A c \in Classes : IsFiniteSet({c} \X DOMAIN Extends[c])
  <2>1. SUFFICES ASSUME NEW c \in Classes PROVE IsFiniteSet({c} \X DOMAIN Extends[c])
    OBVIOUS
  <2>2. DOMAIN Extends[c] = 1..Len(Extends[c]) /\ Len(Extends[c]) \in Nat
    BY DEF InitAssumption
  <2>3. IsFiniteSet(1..Len(Extends[c]))
    BY <2>2, FS_Interval
  <2>4. IsFiniteSet({c})
    BY FS_Singleton
  <2> QED  BY <2>2, <2>3, <2>4, FS_Product
<1>2. IsFiniteSet(T)
  <2>1. W \in Surjection(Classes, T)
    BY DEF Surjection
  <2>2. IsFiniteSet(Classes)
    BY DEF InitAssumption
  <2> HIDE DEF W, T
  <2> QED  BY <2>1, <2>2, FS_Surjection
<1>3. \A A \in T : IsFiniteSet(A)
  BY <1>1
<1> HIDE DEF T
<1>4. IsFiniteSet(UNION T)
  BY <1>2, <1>3, FS_UNION
<1>5. Cardinality(UNION T) \in Nat
  BY <1>4, FS_CardinalityType
<1> QED  BY <1>5 DEF Links, T

\* The queue after one more class was taken from it.
Taken(queue, k) ==
    IF k > Len(queue) \/ (\E m \in 1..(k - 1) : queue[m] = queue[k]) THEN queue
    ELSE queue \o Extends[queue[k]]

\* helpers.traverse yields a sequence of classes.
LEMMA LineageIsSequence ==
  ASSUME InitAssumption
  PROVE  Lineage \in Seq(Classes)
<1> DEFINE N == Links + 1
           Turn(g, k) == IF k = 0 THEN <<Bottom>> ELSE Taken(g[k - 1], k)
           e(g) == [k \in 0..N |-> Turn(g, k)]
           S == Seq(Classes)
<1>1. N \in Nat
  BY LinksAreFew
<1>2. <<Bottom>> \in S /\ \A q \in S, k \in Nat \ {0} : Taken(q, k) \in S
  <2>1. <<Bottom>> \in S
    BY DEF InitAssumption
  <2>2. ASSUME NEW q \in S, NEW k \in Nat \ {0} PROVE Taken(q, k) \in S
    <3>1. CASE k > Len(q)
      BY <3>1 DEF Taken
    <3>2. CASE k <= Len(q)
      <4>1. q[k] \in Classes
        BY <3>2
      <4>2. Extends[q[k]] \in S
        BY <4>1 DEF InitAssumption
      <4>3. q \o Extends[q[k]] \in S
        BY <4>2
      <4> QED  BY <4>3 DEF Taken
    <3> QED  BY <3>1, <3>2
  <2> QED  BY <2>1, <2>2
<1> DEFINE Fits(n, g) == g \in [0..n -> S] /\ \A k \in 0..n : g[k] = Turn(g, k)
           Bad == {n \in 0..N : ~ \E g : Fits(n, g)}
<1>3. Bad = {}
  <2>1. SUFFICES ASSUME Bad # {} PROVE FALSE
    OBVIOUS
  <2> HIDE DEF N
  <2>2. Bad \in SUBSET Nat
    BY <1>1
  <2>3. PICK n \in Bad : \A m \in Bad : n <= m
    <3> HIDE DEF Bad
    <3> QED  BY <2>1, <2>2, LeastNatural
  <2>4. n \in 0..N /\ n \in Nat /\ ~ \E g : Fits(n, g)
    <3> HIDE DEF Fits
    <3> QED  BY <1>1, <2>3
  <2>5. CASE n = 0
    <3>1. PICK g : g = [k \in 0..0 |-> <<Bottom>>]
      OBVIOUS
    <3>2. Fits(0, g)
      BY <1>2, <3>1
    <3> QED  BY <2>4, <2>5, <3>2
  <2>6. CASE n # 0
    <3>1. n - 1 \in 0..N /\ n - 1 \in Nat /\ ~(n <= n - 1)
      BY <1>1, <2>4, <2>6
    <3>2. n - 1 \notin Bad
      BY <2>3, <3>1
    <3>3. PICK g : Fits(n - 1, g)
      BY <3>1, <3>2
    <3>4. PICK x \in S : x = Taken(g[n - 1], n)
      <4>1. g[n - 1] \in S
        BY <3>1, <3>3
      <4> HIDE DEF S
      <4> QED  BY <1>2, <2>4, <2>6, <4>1
    <3>5. PICK h : h = [k \in 0..n |-> IF k = n THEN x ELSE g[k]]
      OBVIOUS
    <3>6. h \in [0..n -> S]
      <4> HIDE DEF S
      <4> QED  BY <2>4, <3>3, <3>5
    <3>7. \A k \in 0..n : h[k] = Turn(h, k)
      <4>1. h[n] = x /\ h[n - 1] = g[n - 1]
        BY <2>4, <3>1, <3>5
      <4>2. \A k \in 0..(n - 1) : h[k] = g[k] /\ (k # 0 => h[k - 1] = g[k - 1]) /\ g[k] = Turn(g, k)
        BY <2>4, <3>3, <3>5
      <4>3. \A k \in 0..(n - 1) : h[k] = Turn(h, k)
        BY <4>2
      <4> QED  BY <2>4, <2>6, <3>4, <4>1, <4>3
    <3>8. Fits(n, h)
      BY <3>6, <3>7
    <3> QED  BY <2>4, <3>8
  <2> QED  BY <2>5, <2>6
<1>4. PICK g : Fits(N, g)
  <2>1. N \in 0..N
    BY <1>1
  <2> HIDE DEF N
  <2>2. N \notin Bad
    BY <1>3
  <2> QED  BY <2>1, <2>2
<1>5. g = e(g)
  <2> HIDE DEF N
  <2>1. g = [k \in 0..N |-> g[k]] /\ \A k \in 0..N : g[k] = Turn(g, k)
    BY <1>4
  <2> HIDE DEF Turn
  <2> QED  BY <2>1
<1>6. Queue = CHOOSE f : f = e(f)
  BY DEF Queue, Taken
<1> HIDE DEF e
<1>7. Queue = e(Queue)
  BY <1>5, <1>6
<1>8. \A k \in 0..N : Queue[k] = Turn(Queue, k)
  BY <1>7 DEF e
<1> DEFINE Odd == {k \in 0..N : Queue[k] \notin S}
<1>9. Odd = {}
  <2>1. SUFFICES ASSUME Odd # {} PROVE FALSE
    OBVIOUS
  <2> HIDE DEF N
  <2>2. Odd \in SUBSET Nat
    BY <1>1
  <2>3. PICK k \in Odd : \A m \in Odd : k <= m
    <3> HIDE DEF Odd
    <3> QED  BY <2>1, <2>2, LeastNatural
  <2>4. k \in 0..N /\ Queue[k] \notin S
    BY <2>3
  <2>5. k # 0 /\ k - 1 \in 0..N /\ ~(k <= k - 1)
    <3>1. k # 0
      <4>1. k = 0 => Queue[k] = <<Bottom>>
        BY <1>8, <2>4
      <4> HIDE DEF S
      <4> QED  BY <1>2, <2>4, <4>1
    <3> QED  BY <1>1, <2>4, <3>1
  <2>6. Queue[k - 1] \in S
    BY <2>3, <2>5
  <2>7. Taken(Queue[k - 1], k) \in S
    <3> HIDE DEF S
    <3> QED  BY <1>1, <1>2, <2>4, <2>5, <2>6
  <2>8. Queue[k] = Taken(Queue[k - 1], k)
    BY <1>8, <2>4, <2>5
  <2> QED  BY <2>4, <2>7, <2>8
<1>10. Queue[N] \in S
  <2>1. N \in 0..N
    BY <1>1
  <2> HIDE DEF N, S
  <2> QED  BY <1>9, <2>1
<1> QED  BY <1>10 DEF Lineage

\* What decides about a value: the first class that is not content with it.
LEMMA SetPropertyIs ==
  ASSUME InitAssumption, NEW n
  PROVE  /\ SetProperty(n) \in {"ambiguous", "fine", "unset", "violation"}
         /\ SetProperty(n) = "fine" =>
               \A c \in Specs(n) : Declared(c, n).reads \subseteq values /\ Declared(c, n).fits
         /\ SetProperty(n) = "unset" => \E c \in Specs(n) : ~ Declared(c, n).reads \subseteq values
         /\ SetProperty(n) = "violation" <=>
               /\ Cardinality(Ultimate(n)) = 1
               /\ \E k \in DOMAIN Lineage :
                     /\ Lineage[k] \in Specs(n) /\ Verdict(Lineage[k], n) = "violation"
                     /\ \A j \in DOMAIN Lineage :
                           Lineage[j] \in Specs(n) /\ Verdict(Lineage[j], n) # "fine" => k <= j
<1> DEFINE bad == {k \in DOMAIN Lineage : Lineage[k] \in Specs(n) /\ Verdict(Lineage[k], n) # "fine"}
<1>1. Lineage \in Seq(Classes)
  BY LineageIsSequence
<1>2. bad \in SUBSET Nat
  BY <1>1
<1>3. bad # {} => Min(bad) \in bad /\ \A j \in bad : Min(bad) <= j
  <2>1. SUFFICES ASSUME bad # {} PROVE Min(bad) \in bad /\ \A j \in bad : Min(bad) <= j
    OBVIOUS
  <2> HIDE DEF bad
  <2>2. \E m \in bad : \A j \in bad : m <= j
    BY <1>2, <2>1, LeastNatural
  <2> QED  BY <2>2 DEF Min
<1>4. \A c : Verdict(c, n) \in {"unset", "fine", "violation"}
  BY DEF Verdict
<1>5. SetProperty(n) = IF Cardinality(Ultimate(n)) # 1 THEN "ambiguous"
                       ELSE IF bad = {} THEN "fine" ELSE Verdict(Lineage[Min(bad)], n)
  BY DEF SetProperty
<1>6. \A c \in Specs(n) : \E k \in DOMAIN Lineage : Lineage[k] = c
  BY DEF Specs, ToSet
<1>7. SetProperty(n) = "fine" => bad = {}
  <2> SUFFICES ASSUME SetProperty(n) = "fine", bad # {} PROVE FALSE
    OBVIOUS
  <2>1. Min(bad) \in bad
    BY <1>3
  <2>2. Verdict(Lineage[Min(bad)], n) # "fine"
    <3> DEFINE m == Min(bad)
    <3>1. m \in bad
      BY <2>1
    <3> HIDE DEF m
    <3>2. Verdict(Lineage[m], n) # "fine"
      BY <3>1
    <3> QED  BY <3>2 DEF m
  <2> HIDE DEF bad
  <2> QED  BY <1>5, <2>2
<1>8. SetProperty(n) = "fine" =>
          \A c \in Specs(n) : Declared(c, n).reads \subseteq values /\ Declared(c, n).fits
  <2> SUFFICES ASSUME SetProperty(n) = "fine", NEW c \in Specs(n)
               PROVE  Declared(c, n).reads \subseteq values /\ Declared(c, n).fits
    OBVIOUS
  <2>1. PICK k \in DOMAIN Lineage : Lineage[k] = c
    BY <1>6
  <2>2. Verdict(c, n) = "fine"
    BY <1>7, <2>1
  <2> QED  BY <2>2 DEF Verdict
<1>9. SetProperty(n) \in {"unset", "violation"} =>
          /\ Cardinality(Ultimate(n)) = 1
          /\ \E k \in bad : Verdict(Lineage[k], n) = SetProperty(n) /\ \A j \in bad : k <= j
  <2> SUFFICES ASSUME SetProperty(n) \in {"unset", "violation"}
               PROVE  /\ Cardinality(Ultimate(n)) = 1
                      /\ \E k \in bad : Verdict(Lineage[k], n) = SetProperty(n) /\ \A j \in bad : k <= j
    OBVIOUS
  <2> HIDE DEF bad
  <2>1. Cardinality(Ultimate(n)) = 1 /\ bad # {} /\ SetProperty(n) = Verdict(Lineage[Min(bad)], n)
    BY <1>5
  <2> QED  BY <1>3, <2>1
<1>10. ASSUME Cardinality(Ultimate(n)) = 1, NEW k \in bad, \A j \in bad : k <= j
       PROVE  SetProperty(n) = Verdict(Lineage[k], n)
  <2> HIDE DEF bad
  <2>1. Min(bad) = k
    <3>1. \A x, y \in Nat : x <= y /\ y <= x => x = y
      OBVIOUS
    <3> QED  BY <1>2, <1>3, <1>10, <3>1
  <2> QED  BY <1>5, <1>10, <2>1
<1>11. SetProperty(n) = "unset" => \E c \in Specs(n) : ~ Declared(c, n).reads \subseteq values
  <2> SUFFICES ASSUME SetProperty(n) = "unset" PROVE \E c \in Specs(n) : ~ Declared(c, n).reads \subseteq values
    OBVIOUS
  <2>1. PICK k \in bad : Verdict(Lineage[k], n) = "unset"
    BY <1>9
  <2> QED  BY <2>1 DEF Verdict
<1>12. SetProperty(n) \in {"ambiguous", "fine", "unset", "violation"}
  BY <1>4, <1>5
<1> QED  BY <1>8, <1>9, <1>10, <1>11, <1>12

\* A value that violates a contract does so however many others are set.
LEMMA ViolationsStay ==
  ASSUME InitAssumption, layout' = layout, values \subseteq values', NEW n, SetProperty(n) = "violation"
  PROVE  SetProperty(n)' = "violation"
<1>1. Cardinality(Ultimate(n)) = 1 /\ \E k \in DOMAIN Lineage :
                     /\ Lineage[k] \in Specs(n) /\ Verdict(Lineage[k], n) = "violation"
                     /\ \A j \in DOMAIN Lineage :
                           Lineage[j] \in Specs(n) /\ Verdict(Lineage[j], n) # "fine" => k <= j
  BY SetPropertyIs
<1>2. Specs(n)' = Specs(n) /\ \A c : Declared(c, n)' = Declared(c, n)
  BY DEF Specs, Declared
<1>3. Ultimate(n)' = Ultimate(n)
  BY <1>2 DEF Ultimate
<1>4. \A c : (Verdict(c, n) = "violation" => Verdict(c, n)' = "violation")
             /\ (Verdict(c, n)' # "fine" => Verdict(c, n) # "fine")
  BY <1>2 DEF Verdict
<1>5. Cardinality(Ultimate(n)') = 1 /\ \E k \in DOMAIN Lineage :
                     /\ Lineage[k] \in Specs(n)' /\ Verdict(Lineage[k], n)' = "violation"
                     /\ \A j \in DOMAIN Lineage :
                           Lineage[j] \in Specs(n)' /\ Verdict(Lineage[j], n)' # "fine" => k <= j
  BY <1>1, <1>2, <1>3, <1>4
<1>6. (SetProperty(n) = "violation" <=>
               /\ Cardinality(Ultimate(n)) = 1
               /\ \E k \in DOMAIN Lineage :
                     /\ Lineage[k] \in Specs(n) /\ Verdict(Lineage[k], n) = "violation"
                     /\ \A j \in DOMAIN Lineage :
                           Lineage[j] \in Specs(n) /\ Verdict(Lineage[j], n) # "fine" => k <= j)'
  BY SetPropertyIs, PTL
<1> QED  BY <1>5, <1>6
-----------------------------------------------------------------------------
NamesIn(c) == OwnNames(c) \cup InitArguments(c)
Constructors == {"__init__", ".init"} \X Classes
Calls == [cls : Classes, left : SUBSET PropertyNames, errors : Nat, last : Nat, used : Nat,
          next : Nat \ {0}, config : SUBSET PropertyNames]

InitTypeOK ==
    /\ \A c \in Classes : InitArguments(c) \subseteq PropertyNames
    /\ values \subseteq PropertyNames
    /\ usedNames \in Seq(SUBSET PropertyNames)
    /\ frames \in Seq(Calls) /\ \A i \in DOMAIN frames : frames[i].used \in DOMAIN usedNames
    /\ constructors \in Seq(Constructors) /\ constructed \in Seq(Constructors)

Blocked(n) == \E c \in Specs(n) : ~ Declared(c, n).reads \subseteq values
Dealt(f, n) == n \in usedNames[f.used] \/ SetProperty(n) = "violation"
Pending(f) == {n \in OwnNames(f.cls) \ usedNames[f.used] : ~Skipped(f.cls, n)}

\* A sweep: `before' failed in the one before (at first, that is all names) and
\* `failed' have failed in this one.
Sweeping(f, before, failed) ==
    /\ before \subseteq NamesIn(f.cls) /\ failed \subseteq before
    /\ Cardinality(before) = f.last /\ Cardinality(failed) = f.errors
    /\ f.left \subseteq NamesIn(f.cls) /\ failed \cap f.left = {}
    /\ f.config # {} => failed = {}
    /\ \A n \in f.left \ before : Dealt(f, n)
    /\ \A n \in NamesIn(f.cls) \ f.left : n \in failed \/ Dealt(f, n)
    /\ failed \subseteq Pending(f)
    /\ before \ f.left = failed => \A n \in failed : Blocked(n)
Resting(f) == f.left = {} /\ f.errors = 0 /\ f.config = {}
Top(f) == Resting(f) \/ \E before, failed \in SUBSET PropertyNames : Sweeping(f, before, failed)

Ready(fn, before) ==
    fn[1] = ".init" =>
        /\ fn[2] \in layout.native => <<"__init__", fn[2]>> \in before
        /\ \A d \in Classes : d # fn[2] /\ Derives(fn[2], d) /\ d \in DOMAIN layout.init
                                => <<".init", d>> \in before
Orderly(s, hasRun) == \A k \in DOMAIN s : Ready(s[k], hasRun \cup {s[m] : m \in 1..(k - 1)})

\* What a call has noted.
Noted(f, noted, parents) ==
    /\ f.next > 1 /\ f.cls \in layout.native => <<"__init__", f.cls>> \in noted
    /\ \A m \in 1..parents : <<".init", Extends[f.cls][m]>> \in noted

Active == phase \in {"first", "second"}
InitInv ==
    /\ InitTypeOK
    /\ phase = "off" => frames = <<>> /\ values = {} /\ constructors = <<>> /\ constructed = <<>>
    /\ \A n \in values : ~Blocked(n)
    /\ Active => \A i \in DOMAIN frames, f \in Calls :
                     frames[i] = f => IF i = Len(frames) THEN Top(f) ELSE Resting(f)
    /\ \A i \in DOMAIN frames : frames[i].next <= Len(Extends[frames[i].cls]) + 1
    /\ \A i \in 1..(Len(frames) - 1) :
          frames[i].next > 1 /\ frames[i + 1].cls = Extends[frames[i].cls][frames[i].next - 1]
    /\ phase = "second" => \A i \in DOMAIN frames :
          Noted(frames[i], ToSet(constructors), frames[i].next - (IF i = Len(frames) THEN 1 ELSE 2))
    /\ Orderly(constructors, ToSet(constructed))
    /\ ParentsFirst /\ CircularMeansCircular

\* A sequence with another last element, and one without it.
LEMMA TopReplaced ==
  ASSUME NEW S, NEW s \in Seq(S), s # <<>>, NEW x \in S
  PROVE  /\ Append(Front(s), x) \in Seq(S) /\ Len(Append(Front(s), x)) = Len(s)
         /\ Append(Front(s), x)[Len(s)] = x /\ \A i \in 1..(Len(s) - 1) : Append(Front(s), x)[i] = s[i]
         /\ Front(s) \in Seq(S) /\ Len(Front(s)) = Len(s) - 1 /\ \A i \in 1..(Len(s) - 1) : Front(s)[i] = s[i]
         /\ Last(s) = s[Len(s)] /\ Last(s) \in S /\ Len(s) \in Nat \ {0} /\ Len(s) \in DOMAIN s
<1>1. Len(s) \in Nat \ {0} /\ \A i \in 1..Len(s) : s[i] \in S
  BY EmptySeq
<1>2. Front(s) \in Seq(S) /\ Len(Front(s)) = Len(s) - 1 /\ \A i \in 1..(Len(s) - 1) : Front(s)[i] = s[i]
  <2>1. /\ SubSeq(s, 1, Len(s) - 1) \in Seq(S)
        /\ Len(SubSeq(s, 1, Len(s) - 1)) = (IF 1 <= Len(s) - 1 THEN (Len(s) - 1) - 1 + 1 ELSE 0)
        /\ \A i \in 1..((Len(s) - 1) - 1 + 1) : SubSeq(s, 1, Len(s) - 1)[i] = s[1 + i - 1]
    BY <1>1, SubSeqProperties
  <2>2. Front(s) = SubSeq(s, 1, Len(s) - 1)
    BY DEF Front
  <2>3. (Len(s) - 1) - 1 + 1 = Len(s) - 1 /\ \A i \in 1..(Len(s) - 1) : 1 + i - 1 = i
    BY <1>1
  <2> QED  BY <1>1, <2>1, <2>2, <2>3
<1> DEFINE f == Front(s)
<1>3. f \in Seq(S) /\ Len(f) = Len(s) - 1 /\ \A i \in 1..(Len(s) - 1) : f[i] = s[i]
  BY <1>2
<1> HIDE DEF f
<1>4. /\ Append(f, x) \in Seq(S) /\ Len(Append(f, x)) = Len(s)
      /\ Append(f, x)[Len(s)] = x /\ \A i \in 1..(Len(s) - 1) : Append(f, x)[i] = s[i]
  BY <1>1, <1>3
<1>5. Last(s) = s[Len(s)]
  BY DEF Last
<1> QED  BY <1>1, <1>2, <1>4, <1>5 DEF f

\* Sets of names can be counted.
LEMMA NamesAreFew ==
  ASSUME InitAssumption, InitTypeOK
  PROVE  /\ \A c \in Classes : NamesIn(c) \subseteq PropertyNames
         /\ \A A \in SUBSET PropertyNames : IsFiniteSet(A) /\ Cardinality(A) \in Nat
<1>1. \A c \in Classes : NamesIn(c) \subseteq PropertyNames
  BY DEF InitTypeOK, NamesIn, OwnNames
<1>2. ASSUME NEW A \in SUBSET PropertyNames PROVE IsFiniteSet(A)
  BY FS_Subset DEF InitAssumption
<1>3. ASSUME NEW A \in SUBSET PropertyNames PROVE Cardinality(A) \in Nat
  BY <1>2, FS_CardinalityType
<1> QED  BY <1>1, <1>2, <1>3

\* A new call sweeps over all its names.
LEMMA CallSweeps ==
  ASSUME InitAssumption, InitTypeOK, NEW c \in Classes, NEW shared \in 0..Len(usedNames),
         NEW before \in Seq(Calls), Call(c, shared, before), layout' = layout, values' = values,
         \A i \in DOMAIN before : before[i].used \in DOMAIN usedNames
  PROVE  /\ frames' \in Seq(Calls) /\ Len(frames') = Len(before) + 1
         /\ \A i \in DOMAIN before : frames'[i] = before[i]
         /\ frames'[Len(frames')].cls = c /\ frames'[Len(frames')].next = 1
         /\ \E f \in Calls : frames'[Len(frames')] = f /\ Top(f)'
         /\ usedNames' \in Seq(SUBSET PropertyNames)
         /\ \A i \in DOMAIN frames' : frames'[i].used \in DOMAIN usedNames'
<1>0. PICK names \in SUBSET PropertyNames : names = NamesIn(c)
  BY NamesAreFew
<1> DEFINE f == Frame(c, shared)
<1>1. usedNames \in Seq(SUBSET PropertyNames)
  BY DEF InitTypeOK
<1>2. f = [cls |-> c, left |-> names, errors |-> 0, last |-> Cardinality(names),
           used |-> UsedNames(shared), next |-> 1,
           config |-> {n \in OwnNames(c) : Declared(c, n).usage = "Config"}]
  BY <1>0 DEF Frame, NamesIn
<1>3. names \in SUBSET PropertyNames /\ Cardinality(names) \in Nat
  BY NamesAreFew
<1>4. UsedNames(shared) \in Nat /\ UsedNames(shared) \in 1..(Len(usedNames) + 1)
  BY <1>1 DEF UsedNames
<1>5. f \in Calls
  <2>1. {n \in OwnNames(c) : Declared(c, n).usage = "Config"} \in SUBSET PropertyNames
    BY DEF OwnNames
  <2> HIDE DEF f
  <2> QED  BY <1>2, <1>3, <1>4, <2>1 DEF Calls
<1>6. frames' = Append(before, f)
      /\ usedNames' = IF UsedNames(shared) > Len(usedNames) THEN Append(usedNames, {}) ELSE usedNames
  BY DEF Call
<1>7. usedNames' \in Seq(SUBSET PropertyNames) /\ UsedNames(shared) \in DOMAIN usedNames'
      /\ DOMAIN usedNames \subseteq DOMAIN usedNames'
  BY <1>1, <1>4, <1>6
<1>8. PICK g \in Calls : g = f
  BY <1>5
<1> HIDE DEF f
<1>9. /\ frames' \in Seq(Calls) /\ Len(frames') = Len(before) + 1 /\ Len(before) \in Nat
      /\ DOMAIN before = 1..Len(before) /\ DOMAIN frames' = 1..(Len(before) + 1)
      /\ \A i \in DOMAIN before : frames'[i] = before[i]
      /\ frames'[Len(frames')] = g
  BY <1>6, <1>8
<1>10. /\ g.cls = c /\ g.left = names /\ g.errors = 0 /\ g.last = Cardinality(names)
       /\ g.used = UsedNames(shared) /\ g.next = 1
  BY <1>2, <1>8
<1>11. Sweeping(g, names, {})'
  <2>1. NamesIn(c)' = NamesIn(c)
    BY DEF NamesIn, OwnNames, InitArguments
  <2>2. Cardinality({}) = 0
    BY FS_EmptySet
  <2> QED  BY <1>0, <1>10, <2>1, <2>2 DEF Sweeping
<1>12. Top(g)'
  <2>1. \E b, d \in SUBSET PropertyNames : Sweeping(g, b, d)'
    BY <1>3, <1>11
  <2> QED  BY <2>1 DEF Top
<1>13. \A i \in DOMAIN frames' : frames'[i].used \in DOMAIN usedNames'
  <2>1. SUFFICES ASSUME NEW i \in DOMAIN frames' PROVE frames'[i].used \in DOMAIN usedNames'
    OBVIOUS
  <2>2. CASE i \in DOMAIN before
    BY <1>7, <1>9, <2>2
  <2>3. CASE i = Len(frames')
    BY <1>7, <1>9, <1>10, <2>3
  <2> QED  BY <1>9, <2>2, <2>3
<1> QED  BY <1>7, <1>9, <1>10, <1>12, <1>13

\* What changes neither the classes nor what is noted keeps the order.
LEMMA OrderKept ==
  ASSUME Orderly(constructors, ToSet(constructed)), ParentsFirst,
         layout' = layout, constructors' = constructors, constructed' = constructed
  PROVE  Orderly(constructors, ToSet(constructed))' /\ ParentsFirst'
<1>1. Orderly(constructors, ToSet(constructed))'
  BY DEF Orderly, Ready
<1>2. ParentsFirst'
  BY DEF ParentsFirst
<1> QED  BY <1>1, <1>2

\* With more values, no more names wait for one.
LEMMA BlockedLess ==
  ASSUME layout' = layout, values \subseteq values', NEW n, Blocked(n)'
  PROVE  Blocked(n)
  BY DEF Blocked, Specs, Declared

\* Initialisation that ends with an exception.
LEMMA FailKeeps ==
  ASSUME InitAssumption, InitInv, NEW how \in {"ambiguous", "unset", "violation", "circular"}, Fail(how),
         how = "circular" => CircularMeansCircular'
  PROVE  InitInv'
<1>1. /\ phase' = how
      /\ UNCHANGED <<layout, frames, usedNames, values, constructors, constructed>>
  BY DEF Fail
<1>2. InitTypeOK'
  BY <1>1 DEF InitInv, InitTypeOK, InitArguments
<1>3. (\A n \in values : ~Blocked(n))'
  BY <1>1, BlockedLess DEF InitInv
<1>4. Orderly(constructors, ToSet(constructed))' /\ ParentsFirst'
  BY <1>1, OrderKept DEF InitInv
<1>5. CircularMeansCircular'
  BY <1>1 DEF CircularMeansCircular
<1>6. phase' # "off" /\ ~Active' /\ phase' # "second"
  BY <1>1 DEF Active
<1> QED  BY <1>1, <1>2, <1>3, <1>4, <1>5, <1>6 DEF InitInv

\* The calls when the innermost one has another state.
LEMMA WithTopIs ==
  ASSUME NEW g \in Calls, frames \in Seq(Calls), frames # <<>>
  PROVE  /\ WithTop(g) \in Seq(Calls) /\ Len(WithTop(g)) = Len(frames) /\ WithTop(g)[Len(frames)] = g
         /\ \A i \in 1..(Len(frames) - 1) : WithTop(g)[i] = frames[i]
         /\ Working = frames[Len(frames)] /\ Len(frames) \in Nat \ {0} /\ Len(frames) \in DOMAIN frames
<1>1. PICK s \in Seq(Calls) : s = frames /\ s # <<>>
  OBVIOUS
<1>2. Append(Front(s), g) \in Seq(Calls)
  BY <1>1, TopReplaced
<1>3. Len(Append(Front(s), g)) = Len(s)
  BY <1>1, TopReplaced
<1>4. Append(Front(s), g)[Len(s)] = g
  BY <1>1, TopReplaced
<1>5. \A i \in 1..(Len(s) - 1) : Append(Front(s), g)[i] = s[i]
  BY <1>1, TopReplaced
<1>6. Last(s) = s[Len(s)] /\ Len(s) \in Nat \ {0} /\ Len(s) \in DOMAIN s
  BY <1>1, TopReplaced
<1> QED  BY <1>1, <1>2, <1>3, <1>4, <1>5, <1>6 DEF WithTop, Working

\* The innermost call goes on.
LEMMA Rework ==
  ASSUME InitAssumption, InitInv, Active, frames # <<>>, NEW g \in Calls, frames' = WithTop(g),
         g.cls = Working.cls, g.next = Working.next, g.used = Working.used,
         UNCHANGED <<layout, phase, constructors, constructed>>,
         values \subseteq values', values' \subseteq PropertyNames, \A n \in values' : ~Blocked(n)',
         usedNames' \in Seq(SUBSET PropertyNames), DOMAIN usedNames' = DOMAIN usedNames, Top(g)'
  PROVE  InitInv'
<1> DEFINE L == Len(frames)
<1>1. frames \in Seq(Calls) /\ phase \in {"first", "second"}
  BY DEF InitInv, InitTypeOK, Active
<1>2. /\ frames' \in Seq(Calls) /\ Len(frames') = L /\ frames'[L] = g
      /\ \A i \in 1..(L - 1) : frames'[i] = frames[i]
      /\ Working = frames[L] /\ L \in Nat \ {0} /\ L \in DOMAIN frames
  BY <1>1, WithTopIs
<1> HIDE DEF L
<1>3. DOMAIN frames' = 1..L /\ DOMAIN frames = 1..L /\ Len(frames) = L
  BY <1>1, <1>2 DEF L
<1>4. \A i \in 1..L : i \in 1..(L - 1) \/ i = L
  BY <1>2
<1>5. \A i \in 1..L : frames'[i].cls = frames[i].cls /\ frames'[i].next = frames[i].next
                      /\ frames'[i].used = frames[i].used
  BY <1>2, <1>4
<1>6. InitTypeOK'
  <2>1. \A i \in 1..L : frames'[i].used \in DOMAIN usedNames'
    BY <1>3, <1>5 DEF InitInv, InitTypeOK
  <2> QED  BY <1>2, <1>3, <2>1 DEF InitInv, InitTypeOK, InitArguments
<1>7. (\A i \in DOMAIN frames, f \in Calls :
                     frames[i] = f => IF i = Len(frames) THEN Top(f) ELSE Resting(f))'
  <2>1. ASSUME NEW i \in 1..(L - 1), NEW f \in Calls, frames[i] = f PROVE Resting(f)
    <3>1. i \in DOMAIN frames /\ i # Len(frames)
      BY <1>2, <1>3
    <3> QED  BY <2>1, <3>1 DEF InitInv
  <2> QED  BY <1>2, <1>3, <1>4, <2>1
<1>8. (\A i \in DOMAIN frames : frames[i].next <= Len(Extends[frames[i].cls]) + 1)'
  BY <1>3, <1>5 DEF InitInv
<1>9. (\A i \in 1..(Len(frames) - 1) :
          frames[i].next > 1 /\ frames[i + 1].cls = Extends[frames[i].cls][frames[i].next - 1])'
  <2>1. \A i \in 1..(L - 1) : i \in 1..L /\ i + 1 \in 1..L
    BY <1>2
  <2> QED  BY <1>2, <1>3, <1>5, <2>1 DEF InitInv
<1>10. phase' = "second" => (\A i \in DOMAIN frames :
          Noted(frames[i], ToSet(constructors), frames[i].next - (IF i = Len(frames) THEN 1 ELSE 2)))'
  BY <1>2, <1>3, <1>5 DEF InitInv, Noted
<1>11. Orderly(constructors, ToSet(constructed))' /\ ParentsFirst'
  BY OrderKept DEF InitInv
<1>12. CircularMeansCircular' /\ phase' # "off"
  BY <1>1 DEF CircularMeansCircular
<1> QED  BY <1>6, <1>7, <1>8, <1>9, <1>10, <1>11, <1>12 DEF InitInv

\* The innermost call and its sweep.
LEMMA TopSweeps ==
  ASSUME InitAssumption, InitInv, Active, frames # <<>>
  PROVE  Working \in Calls /\ Top(Working) /\ Working.used \in DOMAIN usedNames
         /\ usedNames \in Seq(SUBSET PropertyNames)
<1>1. frames \in Seq(Calls)
  BY DEF InitInv, InitTypeOK
<1>2. Working = frames[Len(frames)] /\ Working \in Calls /\ Len(frames) \in DOMAIN frames
  BY <1>1, TopReplaced DEF Working
<1>3. PICK f \in Calls : f = Working
  BY <1>2
<1>4. Top(f)
  BY <1>2, <1>3 DEF InitInv
<1> QED  BY <1>2, <1>3, <1>4 DEF InitInv, InitTypeOK

\* A property of the configuration is set before the first sweep.
LEMMA SetConfigKeeps ==
  ASSUME InitAssumption, InitInv, NEW n \in PropertyNames, SetConfig(n)
  PROVE  InitInv'
<1>1. frames # <<>> /\ Active /\ n \in Working.config
  BY DEF SetConfig, Active
<1>2. CASE SetProperty(n) # "fine"
  <2>1. Fail(SetProperty(n))
    BY <1>2 DEF SetConfig
  <2>2. PICK how : how = SetProperty(n)
    OBVIOUS
  <2>3. how \in {"ambiguous", "unset", "violation", "circular"} /\ how # "circular"
    BY <1>2, <2>2, SetPropertyIs
  <2> QED  BY <2>1, <2>2, <2>3, FailKeeps
<1>3. CASE SetProperty(n) = "fine"
  <2>1. /\ values' = values \cup {n} /\ frames' = WithTop([Working EXCEPT !.config = @ \ {n}])
        /\ UNCHANGED <<layout, phase, usedNames, constructors, constructed>>
    BY <1>3 DEF SetConfig
  <2>2. PICK f \in Calls : f = Working /\ Top(f) /\ f.used \in DOMAIN usedNames
    BY <1>1, TopSweeps
  <2>3. PICK g \in Calls : g = [f EXCEPT !.config = @ \ {n}]
    BY DEF Calls
  <2>4. /\ g.cls = f.cls /\ g.left = f.left /\ g.errors = f.errors /\ g.last = f.last /\ g.used = f.used
        /\ g.next = f.next /\ g.config = f.config \ {n}
    BY <2>3 DEF Calls
  <2>5. \A m \in values' : ~Blocked(m)'
    <3>1. ~Blocked(n)
      BY <1>3, SetPropertyIs DEF Blocked
    <3>2. \A m \in values : ~Blocked(m)
      BY DEF InitInv
    <3> QED  BY <2>1, <3>1, <3>2, BlockedLess
  <2>6. Top(g)'
    <3>1. PICK before, failed \in SUBSET PropertyNames : Sweeping(f, before, failed)
      BY <1>1, <2>2 DEF Top, Resting
    <3>2. failed = {}
      BY <1>1, <2>2, <3>1 DEF Sweeping
    <3>3. \A m : Dealt(f, m) => Dealt(g, m)'
      BY <2>1, <2>4, ViolationsStay DEF Dealt
    <3>4. \A c : NamesIn(c)' = NamesIn(c)
      BY <2>1 DEF NamesIn, OwnNames, InitArguments
    <3>5. Sweeping(g, before, failed)'
      BY <2>4, <3>1, <3>2, <3>3, <3>4 DEF Sweeping
    <3> QED  BY <3>5 DEF Top
  <2>7. values' \subseteq PropertyNames /\ usedNames \in Seq(SUBSET PropertyNames)
    BY <2>1 DEF InitInv, InitTypeOK
  <2> QED  BY <1>1, <2>1, <2>2, <2>3, <2>4, <2>5, <2>6, <2>7, Rework
<1> QED  BY <1>2, <1>3

\* One name of a sweep: it is dealt with, or it has failed.
LEMMA NameSwept ==
  ASSUME InitAssumption, InitTypeOK, NEW f \in Calls, NEW g \in Calls, NEW n \in f.left,
         NEW before \in SUBSET PropertyNames, NEW failed \in SUBSET PropertyNames, Sweeping(f, before, failed),
         g = [f EXCEPT !.left = @ \ {n}], layout' = layout, f.config = {},
         values \subseteq values', \A m \in PropertyNames : m \in usedNames[f.used] => m \in usedNames'[f.used],
         \A m \in PropertyNames \ {n} : m \in usedNames'[f.used] => m \in usedNames[f.used],
         n \in usedNames'[f.used] \/ SetProperty(n) = "violation",
         values' = values \/ ~Dealt(f, n)
  PROVE  Sweeping(g, before, failed)'
<1>1. /\ g.cls = f.cls /\ g.left = f.left \ {n} /\ g.errors = f.errors /\ g.last = f.last
      /\ g.used = f.used /\ g.config = f.config
  BY DEF Calls
<1>2. \A m \in PropertyNames : Dealt(f, m) => Dealt(g, m)'
  BY <1>1, ViolationsStay DEF Dealt
<1>3. \A c : NamesIn(c)' = NamesIn(c) /\ OwnNames(c)' = OwnNames(c)
             /\ \A m : Skipped(c, m)' <=> Skipped(c, m)
  BY DEF NamesIn, OwnNames, InitArguments, Skipped, Declared
<1>4. f.cls \in Classes /\ NamesIn(f.cls) \subseteq PropertyNames
  BY NamesAreFew DEF Calls
<1>5. Dealt(g, n)'
  BY <1>1, ViolationsStay DEF Dealt
<1>6. n \notin failed
  BY DEF Sweeping
<1>7. (failed \subseteq Pending(g))'
  BY <1>1, <1>3, <1>6 DEF Sweeping, Pending
<1>8. before \ g.left = failed => \A m \in failed : Blocked(m)'
  <2> SUFFICES ASSUME before \ g.left = failed, NEW m \in failed PROVE Blocked(m)'
    OBVIOUS
  <2>1. n \notin before
    BY <1>1, <1>6
  <2>2. values' = values
    BY <2>1 DEF Sweeping
  <2>3. Blocked(m)
    BY <1>1, <2>1 DEF Sweeping
  <2> QED  BY <2>2, <2>3 DEF Blocked, Specs, Declared
<1>9. \A m \in g.left \ before : Dealt(g, m)'
  BY <1>1, <1>2, <1>4 DEF Sweeping
<1>10. \A m \in NamesIn(g.cls) \ g.left : m \in failed \/ Dealt(g, m)'
  BY <1>1, <1>2, <1>4, <1>5 DEF Sweeping
<1>11. /\ before \subseteq NamesIn(g.cls) /\ failed \subseteq before
       /\ Cardinality(before) = g.last /\ Cardinality(failed) = g.errors
       /\ g.left \subseteq NamesIn(g.cls) /\ failed \cap g.left = {} /\ g.config = {}
  BY <1>1 DEF Sweeping
<1> QED  BY <1>3, <1>7, <1>8, <1>9, <1>10, <1>11 DEF Sweeping

\* A name has failed that did so in the sweep before.
LEMMA NameFailed ==
  ASSUME InitAssumption, InitTypeOK, NEW f \in Calls, NEW g \in Calls, NEW n \in f.left,
         NEW before \in SUBSET PropertyNames, NEW failed \in SUBSET PropertyNames, Sweeping(f, before, failed),
         g = [f EXCEPT !.left = @ \ {n}, !.errors = @ + 1], UNCHANGED <<layout, values, usedNames>>,
         f.config = {}, n \in Pending(f), SetProperty(n) = "unset"
  PROVE  n \in PropertyNames /\ Sweeping(g, before, failed \cup {n})'
<1>1. /\ g.cls = f.cls /\ g.left = f.left \ {n} /\ g.errors = f.errors + 1 /\ g.last = f.last
      /\ g.used = f.used /\ g.config = f.config
  BY DEF Calls
<1>2. f.cls \in Classes /\ NamesIn(f.cls) \subseteq PropertyNames
  BY NamesAreFew DEF Calls
<1>3. n \in PropertyNames /\ n \notin failed /\ IsFiniteSet(failed)
  BY <1>2, NamesAreFew DEF Sweeping
<1>4. Cardinality(failed \cup {n}) = g.errors
  <2>1. Cardinality(failed \cup {n}) = Cardinality(failed) + 1
    BY <1>3, FS_AddElement
  <2> QED  BY <1>1, <2>1 DEF Sweeping
<1>5. n \in before
  BY DEF Sweeping, Dealt, Pending
<1>6. Blocked(n)
  BY SetPropertyIs DEF Blocked
<1>7. before \ g.left = failed \cup {n} => \A m \in failed \cup {n} : Blocked(m)
  <2> SUFFICES ASSUME before \ g.left = failed \cup {n} PROVE \A m \in failed \cup {n} : Blocked(m)
    OBVIOUS
  <2>1. before \ f.left = failed
    BY <1>1, <1>3
  <2> QED  BY <1>6, <2>1 DEF Sweeping
<1>8. Sweeping(g, before, failed \cup {n})
  <2>1. /\ \A m : Dealt(g, m) <=> Dealt(f, m)
        /\ Pending(g) = Pending(f)
    BY <1>1 DEF Dealt, Pending
  <2>2. /\ before \subseteq NamesIn(g.cls) /\ failed \cup {n} \subseteq before
        /\ Cardinality(before) = g.last
        /\ g.left \subseteq NamesIn(g.cls) /\ (failed \cup {n}) \cap g.left = {} /\ g.config = {}
        /\ failed \cup {n} \subseteq Pending(g)
    BY <1>1, <1>5, <2>1 DEF Sweeping
  <2>3. /\ \A m \in g.left \ before : Dealt(g, m)
        /\ \A m \in NamesIn(g.cls) \ g.left : m \in failed \cup {n} \/ Dealt(g, m)
    BY <1>1, <2>1 DEF Sweeping
  <2> QED  BY <1>4, <1>7, <2>2, <2>3 DEF Sweeping
<1>9. \A F : Sweeping(g, before, F) => Sweeping(g, before, F)'
  <2>1. \A m : Dealt(g, m) => Dealt(g, m)'
    BY ViolationsStay DEF Dealt
  <2>2. Pending(g)' = Pending(g) /\ NamesIn(g.cls)' = NamesIn(g.cls)
    BY DEF Pending, NamesIn, OwnNames, InitArguments, Skipped, Declared
  <2>3. \A m : Blocked(m) => Blocked(m)'
    BY DEF Blocked, Specs, Declared
  <2> QED  BY <2>1, <2>2, <2>3 DEF Sweeping
<1> QED  BY <1>3, <1>8, <1>9

\* One name of a sweep.
LEMMA SetNameKeeps ==
  ASSUME InitAssumption, InitInv, NEW n \in PropertyNames, SetName(n)
  PROVE  InitInv'
<1> DEFINE c == Working.cls
           used == Working.used
           argument == n \in InitArguments(c)
           result == IF n \in usedNames[used] \/ argument \/ Skipped(c, n) THEN "nothing" ELSE SetProperty(n)
           through == result \in {"nothing", "fine"}
<1>1. frames # <<>> /\ Active /\ Working.config = {} /\ n \in Working.left
  BY DEF SetName, Active
<1>2. IF result = "ambiguous" \/ (result = "violation" /\ Declared(c, n).usage # "Runtime")
      THEN Fail(result)
      ELSE /\ values' = (IF result = "fine" THEN values \cup {n} ELSE values)
           /\ usedNames' = (IF through THEN [usedNames EXCEPT ![used] = @ \cup {n}] ELSE usedNames)
           /\ frames' = WithTop([Working EXCEPT !.left = @ \ {n},
                                    !.errors = IF result = "unset" THEN @ + 1 ELSE @])
           /\ UNCHANGED <<layout, phase, constructors, constructed>>
  BY DEF SetName
<1>3. PICK f \in Calls : f = Working /\ Top(f) /\ f.used \in DOMAIN usedNames
  BY <1>1, TopSweeps
<1>4. PICK before, failed \in SUBSET PropertyNames : Sweeping(f, before, failed)
  BY <1>1, <1>3 DEF Top, Resting
<1>5. result \in {"nothing", "ambiguous", "fine", "unset", "violation"}
      /\ (result # "nothing" => result = SetProperty(n) /\ n \notin usedNames[f.used] /\ ~argument /\ ~Skipped(c, n))
  BY <1>3, SetPropertyIs
<1>6. PICK what : what = result
  OBVIOUS
<1> HIDE DEF result
<1>7. CASE result = "ambiguous" \/ (result = "violation" /\ Declared(c, n).usage # "Runtime")
  BY <1>2, <1>6, <1>7, FailKeeps
<1>8. CASE ~(result = "ambiguous" \/ (result = "violation" /\ Declared(c, n).usage # "Runtime"))
  <2>1. InitTypeOK /\ usedNames \in Seq(SUBSET PropertyNames) /\ values \subseteq PropertyNames
    BY DEF InitInv, InitTypeOK
  <2>2. UNCHANGED <<layout, phase, constructors, constructed>>
    BY <1>2, <1>8
  <2>3. values \subseteq values' /\ values' \subseteq PropertyNames
    BY <1>2, <1>8, <2>1
  <2>4. usedNames' \in Seq(SUBSET PropertyNames) /\ DOMAIN usedNames' = DOMAIN usedNames
    <3>1. CASE through
      <4>1. usedNames' = [usedNames EXCEPT ![used] = @ \cup {n}] /\ used \in DOMAIN usedNames
        BY <1>2, <1>3, <1>8, <3>1
      <4> HIDE DEF used
      <4> QED  BY <2>1, <4>1
    <3>2. CASE ~through
      BY <1>2, <1>8, <2>1, <3>2
    <3> QED  BY <3>1, <3>2
  <2>5. \A m \in values' : ~Blocked(m)'
    <3>1. \A m \in values : ~Blocked(m)
      BY DEF InitInv
    <3>2. result = "fine" => ~Blocked(n)
      BY <1>5, SetPropertyIs DEF Blocked
    <3> QED  BY <1>2, <1>8, <2>2, <2>3, <3>1, <3>2, BlockedLess
  <2>6. PICK g \in Calls : g = [f EXCEPT !.left = @ \ {n}, !.errors = IF result = "unset" THEN @ + 1 ELSE @]
    <3>1. PICK e \in Nat : e = IF result = "unset" THEN f.errors + 1 ELSE f.errors
      BY DEF Calls
    <3>2. [f EXCEPT !.left = @ \ {n}, !.errors = e] \in Calls
      BY <3>1 DEF Calls
    <3> QED  BY <3>1, <3>2
  <2>7. g.cls = f.cls /\ g.next = f.next /\ g.used = f.used
    BY <2>6 DEF Calls
  <2>8. Top(g)'
    <3>1. CASE result = "unset"
      <4>1. g = [f EXCEPT !.left = @ \ {n}, !.errors = @ + 1]
        BY <2>6, <3>1
      <4>2. n \in Pending(f)
        <5>1. n \in NamesIn(f.cls)
          BY <1>1, <1>3, <1>4 DEF Sweeping
        <5> QED  BY <1>3, <1>5, <3>1, <5>1 DEF Pending, NamesIn
      <4>3. UNCHANGED <<layout, values, usedNames>>
        BY <1>2, <1>8, <2>2, <3>1
      <4>4. n \in PropertyNames /\ Sweeping(g, before, failed \cup {n})'
        BY <1>1, <1>3, <1>4, <1>5, <2>1, <3>1, <4>1, <4>2, <4>3, NameFailed
      <4> QED  BY <4>4 DEF Top
    <3>2. CASE result # "unset"
      <4>1. g = [f EXCEPT !.left = @ \ {n}]
        BY <2>6, <3>2 DEF Calls
      <4>2. \A m \in PropertyNames : m \in usedNames[f.used] => m \in usedNames'[f.used]
        BY <1>2, <1>3, <1>8, <2>1
      <4>3. \A m \in PropertyNames \ {n} : m \in usedNames'[f.used] => m \in usedNames[f.used]
        BY <1>2, <1>3, <1>8, <2>1
      <4>4. n \in usedNames'[f.used] \/ SetProperty(n) = "violation"
        BY <1>2, <1>3, <1>5, <1>8, <2>1, <3>2
      <4>5. values' = values \/ ~Dealt(f, n)
        BY <1>2, <1>5, <1>8 DEF Dealt
      <4>6. Sweeping(g, before, failed)'
        BY <1>1, <1>3, <1>4, <2>1, <2>2, <2>3, <4>1, <4>2, <4>3, <4>4, <4>5, NameSwept
      <4> QED  BY <4>6 DEF Top
    <3> QED  BY <3>1, <3>2
  <2>9. frames' = WithTop(g)
    BY <1>2, <1>3, <1>8, <2>6
  <2> QED  BY <1>1, <1>3, <2>2, <2>3, <2>4, <2>5, <2>7, <2>8, <2>9, Rework
<1> QED  BY <1>7, <1>8

\* Names of which as many fail as the time before are the same ones, and no
\* value was set in between: each of them needs another one of them.
LEMMA CircleFound ==
  ASSUME InitAssumption, InitInv, NEW f \in Calls, f = Working, f.left = {}, f.errors > 0, GivesUp(f),
         NEW before \in SUBSET PropertyNames, NEW failed \in SUBSET PropertyNames, Sweeping(f, before, failed)
  PROVE  ~ (Pending(f) \subseteq Settable(Pending(f)))
<1>1. IsFiniteSet(before) /\ Cardinality(before) = f.last /\ Cardinality(failed) = f.errors
      /\ failed \subseteq before /\ f.errors \in Nat /\ f.last \in Nat
  BY NamesAreFew DEF Sweeping, InitInv, Calls
<1>2. failed = before
  <2>1. Cardinality(failed) <= Cardinality(before) /\ (Cardinality(before) = Cardinality(failed) => before = failed)
    BY <1>1, FS_Subset
  <2> QED  BY <1>1, <2>1 DEF GivesUp
<1>3. failed # {}
  <2>1. SUFFICES ASSUME failed = {} PROVE FALSE
    OBVIOUS
  <2>2. Cardinality(failed) = 0
    BY <2>1, FS_EmptySet
  <2> QED  BY <1>1, <2>2
<1>4. \A n \in failed : Blocked(n)
  BY <1>2 DEF Sweeping
<1>5. \A n \in Pending(f) : n \in failed \/ SetProperty(n) = "violation"
  BY DEF Sweeping, Dealt, Pending, NamesIn
<1>6. \A n \in Pending(f) : ~CanJoin(n, values)
  <2>1. \A n : Blocked(n) => ~CanJoin(n, values)
    BY DEF Blocked, CanJoin
  <2>2. ASSUME NEW n, SetProperty(n) = "violation" PROVE ~CanJoin(n, values)
    <3>1. PICK k \in DOMAIN Lineage : Lineage[k] \in Specs(n) /\ Verdict(Lineage[k], n) = "violation"
      BY <2>2, SetPropertyIs
    <3> QED  BY <3>1 DEF Verdict, CanJoin
  <2> QED  BY <1>4, <1>5, <2>1, <2>2
<1>7. PICK n \in failed : TRUE
  BY <1>3
<1>8. n \in Pending(f) /\ Blocked(n)
  BY <1>4 DEF Sweeping
<1>9. n \notin values /\ values \in SUBSET PropertyNames
  BY <1>8 DEF InitInv, InitTypeOK
<1>10. n \notin Settable(Pending(f))
  BY <1>6, <1>9 DEF Settable
<1> QED  BY <1>8, <1>10

\* What failed in a sweep is what the next one starts from.
LEMMA EndSweepKeeps ==
  ASSUME InitAssumption, InitInv, EndSweep
  PROVE  InitInv'
<1>1. frames # <<>> /\ Active /\ Working.config = {} /\ Working.left = {} /\ Working.errors > 0
  BY DEF EndSweep, Active
<1>2. PICK f \in Calls : f = Working /\ Top(f) /\ f.used \in DOMAIN usedNames
  BY <1>1, TopSweeps
<1>3. PICK before, failed \in SUBSET PropertyNames : Sweeping(f, before, failed)
  <2>1. ~Resting(f)
    BY <1>1, <1>2 DEF Resting
  <2> QED  BY <1>2, <2>1 DEF Top
<1>4. CASE GivesUp(Working)
  <2>1. Fail("circular")
    BY <1>4 DEF EndSweep
  <2>2. ~ (Pending(f) \subseteq Settable(Pending(f)))
    BY <1>1, <1>2, <1>3, <1>4, CircleFound
  <2>3. UNCHANGED <<layout, frames, usedNames, values>>
    BY <2>1 DEF Fail
  <2>4. Working' = Working
    BY <2>3 DEF Working
  <2>5. Pending(f)' = Pending(f)
    BY <2>3 DEF Pending, OwnNames, Skipped, Declared
  <2>6. \A N : Settable(N)' = Settable(N)
    BY <2>3 DEF Settable, CanJoin, Specs, Declared
  <2>7. CircularMeansCircular'
    <3>1. PICK N : N = Pending(f)
      OBVIOUS
    <3>2. {n \in OwnNames(Working.cls) \ usedNames[Working.used] : ~Skipped(Working.cls, n)}' = N
      BY <1>2, <2>4, <2>5, <3>1 DEF Pending
    <3>3. ~ (N \subseteq Settable(N)')
      BY <2>2, <2>6, <3>1
    <3> QED  BY <3>2, <3>3 DEF CircularMeansCircular
  <2> QED  BY <2>1, <2>7, FailKeeps
<1>5. CASE ~GivesUp(Working)
  <2>1. /\ frames' = WithTop([Working EXCEPT !.left = OwnNames(Working.cls) \cup InitArguments(Working.cls),
                                             !.last = Working.errors, !.errors = 0])
        /\ UNCHANGED <<layout, phase, usedNames, values, constructors, constructed>>
    BY <1>5 DEF EndSweep
  <2>2. InitTypeOK /\ usedNames \in Seq(SUBSET PropertyNames) /\ values \subseteq PropertyNames
    BY DEF InitInv, InitTypeOK
  <2>3. f.cls \in Classes
    BY DEF Calls
  <2>4. PICK names \in SUBSET PropertyNames : names = NamesIn(f.cls)
    BY <2>2, <2>3, NamesAreFew
  <2>5. PICK g \in Calls : g = [f EXCEPT !.left = names, !.last = f.errors, !.errors = 0]
    BY DEF Calls
  <2>6. /\ g.cls = f.cls /\ g.left = names /\ g.errors = 0 /\ g.last = f.errors
        /\ g.used = f.used /\ g.next = f.next /\ g.config = f.config
    BY <2>5 DEF Calls
  <2>7. frames' = WithTop(g)
    BY <1>2, <2>1, <2>4, <2>5 DEF NamesIn
  <2>8. \A m \in values' : ~Blocked(m)'
    <3>1. \A m \in values : ~Blocked(m)
      BY DEF InitInv
    <3> QED  BY <2>1, <3>1, BlockedLess
  <2>9. Top(g)'
    <3>1. \A m : Dealt(f, m) => Dealt(g, m)'
      BY <2>1, <2>6, ViolationsStay DEF Dealt
    <3>2. NamesIn(g.cls)' = names
      BY <2>1, <2>4, <2>6 DEF NamesIn, OwnNames, InitArguments
    <3>3. Cardinality({}) = 0
      BY FS_EmptySet
    <3>4. /\ failed \subseteq names /\ Cardinality(failed) = g.last
          /\ \A m \in names \ failed : Dealt(f, m)
      BY <1>1, <1>2, <1>3, <2>4, <2>6 DEF Sweeping
    <3>5. Sweeping(g, failed, {})'
      BY <2>6, <3>1, <3>2, <3>3, <3>4 DEF Sweeping
    <3> QED  BY <3>5 DEF Top
  <2> QED  BY <1>1, <1>2, <2>1, <2>2, <2>6, <2>7, <2>8, <2>9, Rework
<1> QED  BY <1>4, <1>5

\* What is noted last comes after everything else.
LEMMA OneMoreNoted ==
  ASSUME NEW s \in Seq(Constructors), NEW hasRun, NEW fn \in Constructors,
         Orderly(s, hasRun), Ready(fn, hasRun \cup ToSet(s))
  PROVE  /\ Append(s, fn) \in Seq(Constructors) /\ ToSet(Append(s, fn)) = ToSet(s) \cup {fn}
         /\ Orderly(Append(s, fn), hasRun)
<1> DEFINE t == Append(s, fn)
           L == Len(s)
<1>1. /\ t \in Seq(Constructors) /\ Len(t) = L + 1 /\ t[L + 1] = fn /\ \A k \in 1..L : t[k] = s[k]
      /\ L \in Nat /\ DOMAIN s = 1..L /\ DOMAIN t = 1..(L + 1)
  OBVIOUS
<1> HIDE DEF t, L
<1>2. ToSet(t) = ToSet(s) \cup {fn}
  <2>1. \A x : x \in ToSet(t) <=> \E k \in 1..(L + 1) : t[k] = x
    BY <1>1 DEF ToSet
  <2>2. \A x : x \in ToSet(s) <=> \E k \in 1..L : s[k] = x
    BY <1>1 DEF ToSet
  <2>3. \A k \in 1..(L + 1) : k \in 1..L \/ k = L + 1
    BY <1>1
  <2>4. 1..L \subseteq 1..(L + 1) /\ L + 1 \in 1..(L + 1)
    BY <1>1
  <2> QED  BY <1>1, <2>1, <2>2, <2>3, <2>4
<1>3. ASSUME NEW k \in 1..(L + 1) PROVE Ready(t[k], hasRun \cup {t[m] : m \in 1..(k - 1)})
  <2>1. CASE k = L + 1
    <3>1. ToSet(s) = {t[m] : m \in 1..L}
      BY <1>1 DEF ToSet
    <3>2. k - 1 = L /\ t[k] = fn
      BY <1>1, <2>1
    <3> QED  BY <3>1, <3>2
  <2>2. CASE k # L + 1
    <3>1. k \in DOMAIN s /\ t[k] = s[k] /\ \A m \in 1..(k - 1) : t[m] = s[m]
      BY <1>1, <2>2
    <3>2. {t[m] : m \in 1..(k - 1)} = {s[m] : m \in 1..(k - 1)}
      BY <3>1
    <3>3. Ready(s[k], hasRun \cup {s[m] : m \in 1..(k - 1)})
      BY <3>1 DEF Orderly
    <3> QED  BY <3>1, <3>2, <3>3
  <2> QED  BY <2>1, <2>2
<1>4. Orderly(t, hasRun)
  BY <1>1, <1>3 DEF Orderly
<1> QED  BY <1>1, <1>2, <1>4 DEF t

\* Whoever has noted the constructors of the parents has noted those of all
\* ancestors.
LEMMA AncestorsNoted ==
  ASSUME InitAssumption, NEW s \in Seq(Constructors), NEW hasRun, Orderly(s, hasRun), NEW c \in Classes,
         \A m \in 1..Len(Extends[c]) : <<".init", Extends[c][m]>> \in ToSet(s),
         NEW d \in Classes, d # c, Derives(c, d), d \in DOMAIN layout.init
  PROVE  <<".init", d>> \in hasRun \cup ToSet(s)
<1> DEFINE N == Cardinality(Classes)
<1>1. N \in Nat
  BY FS_CardinalityType DEF InitAssumption
<1>a. PICK n \in 0..N : \E path \in [1..n -> Classes] :
          /\ path # <<>> /\ path[1] = c /\ path[n] = d /\ Len(path) = n
          /\ \A i \in 1..(n - 1) : Contains(Extends[path[i]], path[i + 1])
  <2>1. PICK path \in SeqOf(Classes, N) :
          /\ path # <<>> /\ path[1] = c /\ Last(path) = d
          /\ \A i \in 1..(Len(path) - 1) : Contains(Extends[path[i]], path[i + 1])
    BY DEF Derives
  <2>2. PICK n \in 0..N : path \in [1..n -> Classes]
    BY DEF SeqOf
  <2>3. Len(path) = n
    BY <1>1, <2>2
  <2> QED  BY <2>1, <2>2, <2>3 DEF Last
<1>2. PICK path \in [1..n -> Classes] :
          /\ path # <<>> /\ path[1] = c /\ path[n] = d /\ Len(path) = n
          /\ \A i \in 1..(n - 1) : Contains(Extends[path[i]], path[i + 1])
  BY <1>a
<1> HIDE DEF N
<1>3. n \in Nat /\ n >= 2
  <2>1. n # 0
    BY <1>2
  <2>2. n # 1
    BY <1>2
  <2> QED  BY <1>1, <2>1, <2>2
<1> DEFINE p == path[2]
<1>4. p \in Classes /\ Contains(Extends[c], p)
  BY <1>2, <1>3
<1>5. PICK k \in DOMAIN s : s[k] = <<".init", p>>
  <2>1. PICK m \in 1..Len(Extends[c]) : Extends[c][m] = p
    BY <1>4 DEF Contains
  <2> QED  BY <2>1 DEF ToSet
<1>6. CASE p = d
  BY <1>5, <1>6 DEF ToSet
<1>7. CASE p # d
  <2> DEFINE rest == [i \in 1..(n - 1) |-> path[i + 1]]
  <2>1. rest \in [1..(n - 1) -> Classes] /\ n - 1 \in 0..N /\ Len(rest) = n - 1 /\ n - 1 \in Nat \ {0}
    BY <1>1, <1>2, <1>3
  <2>2. rest \in SeqOf(Classes, Cardinality(Classes))
    BY <2>1 DEF SeqOf, N
  <2>3. rest[1] = p /\ Last(rest) = d /\ rest # <<>>
    <3>1. 1 \in 1..(n - 1) /\ n - 1 \in 1..(n - 1) /\ (n - 1) + 1 = n /\ 1 + 1 = 2
      BY <1>3
    <3>2. rest[1] = p /\ rest[n - 1] = d
      BY <1>2, <3>1
    <3>3. DOMAIN rest # {}
      BY <3>1
    <3>4. rest # <<>>
      BY <3>3
    <3>5. Last(rest) = rest[n - 1]
      BY <2>1 DEF Last
    <3> QED  BY <3>2, <3>4, <3>5
  <2>4. \A i \in 1..(Len(rest) - 1) : Contains(Extends[rest[i]], rest[i + 1])
    <3>1. \A i \in 1..(n - 2) : rest[i] = path[i + 1] /\ rest[i + 1] = path[(i + 1) + 1] /\ i + 1 \in 1..(n - 1)
      BY <1>3
    <3>2. Len(rest) - 1 = n - 2
      BY <1>3, <2>1
    <3> HIDE DEF rest
    <3> QED  BY <1>2, <3>1, <3>2
  <2> HIDE DEF rest, p
  <2>5. Derives(p, d)
    BY <2>2, <2>3, <2>4 DEF Derives
  <2>6. Ready(<<".init", p>>, hasRun \cup {s[m] : m \in 1..(k - 1)})
    BY <1>5 DEF Orderly
  <2>7. <<".init", d>> \in hasRun \cup {s[m] : m \in 1..(k - 1)}
    <3>1. PICK x : x = <<".init", p>>
      OBVIOUS
    <3>2. x[1] = ".init" /\ x[2] = p
      BY <3>1
    <3>3. Ready(x, hasRun \cup {s[m] : m \in 1..(k - 1)})
      BY <2>6, <3>1
    <3> QED  BY <1>7, <2>5, <3>2, <3>3 DEF Ready
  <2>8. {s[m] : m \in 1..(k - 1)} \subseteq ToSet(s)
    BY DEF ToSet
  <2> QED  BY <2>7, <2>8
<1> QED  BY <1>6, <1>7

\* The class in Python may be noted at any time.
LEMMA ExtensionNoted ==
  ASSUME InitAssumption, InitInv, NEW c \in Classes, NEW s, s = NoteExtension(c)
  PROVE  /\ s \in Seq(Constructors) /\ ToSet(constructors) \subseteq ToSet(s)
         /\ Orderly(s, ToSet(constructed))
         /\ phase = "second" /\ c \in layout.native => <<"__init__", c>> \in ToSet(s)
<1>1. constructors \in Seq(Constructors) /\ Orderly(constructors, ToSet(constructed))
  BY DEF InitInv, InitTypeOK
<1>a. PICK q \in Seq(Constructors) : q = constructors
  BY <1>1
<1>b. PICK hasRun : hasRun = ToSet(constructed)
  OBVIOUS
<1>2. q = constructors /\ hasRun = ToSet(constructed)
  BY <1>a, <1>b
<1>3. PICK fn \in Constructors : fn = <<"__init__", c>> /\ fn[1] = "__init__"
  <2>1. <<"__init__", c>> \in Constructors
    BY DEF Constructors
  <2>2. PICK fn : fn = <<"__init__", c>>
    OBVIOUS
  <2>3. fn[1] = "__init__"
    BY <2>2
  <2> QED  BY <2>1, <2>2, <2>3
<1>4. Ready(fn, hasRun \cup ToSet(q))
  BY <1>3 DEF Ready
<1>5. /\ Append(q, fn) \in Seq(Constructors) /\ ToSet(Append(q, fn)) = ToSet(q) \cup {fn}
      /\ Orderly(Append(q, fn), hasRun)
  BY <1>1, <1>2, <1>4, OneMoreNoted
<1>6. s = IF phase = "second" /\ c \in layout.native THEN Append(q, fn) ELSE q
  BY <1>2, <1>3 DEF NoteExtension
<1> QED  BY <1>1, <1>2, <1>3, <1>5, <1>6

\* An object is created.
LEMMA LoadObjectKeeps ==
  ASSUME InitAssumption, InitInv, LoadObject
  PROVE  InitInv'
<1>1. /\ phase = "off" /\ layout' \in Layouts /\ phase' = "first"
      /\ UNCHANGED <<frames, usedNames, values, constructors, constructed>>
  BY DEF LoadObject
<1>2. frames = <<>> /\ values = {} /\ constructors = <<>> /\ constructed = <<>>
  BY <1>1 DEF InitInv
<1>3. (\A c \in Classes : InitArguments(c) \subseteq PropertyNames)'
  BY <1>1 DEF InitArguments, InitAssumption
<1>4. InitTypeOK'
  BY <1>1, <1>3 DEF InitInv, InitTypeOK
<1>5. DOMAIN frames' = {} /\ Len(frames') = 0 /\ DOMAIN constructors' = {} /\ DOMAIN constructed' = {}
  BY <1>1, <1>2
<1>6. Orderly(constructors, ToSet(constructed))' /\ ParentsFirst' /\ CircularMeansCircular'
  BY <1>1, <1>5 DEF Orderly, ParentsFirst, CircularMeansCircular
<1> QED  BY <1>1, <1>2, <1>4, <1>5, <1>6 DEF InitInv

\* One of the two passes begins, with the class of the object.
LEMMA InitializeKeeps ==
  ASSUME InitAssumption, InitInv, Initialize
  PROVE  InitInv'
<1>1. /\ Active /\ frames = <<>> /\ Call(Bottom, 0, <<>>)
      /\ UNCHANGED <<layout, phase, values, constructors, constructed>>
  BY DEF Initialize, Active
<1>2. InitTypeOK /\ usedNames \in Seq(SUBSET PropertyNames) /\ phase \in {"first", "second"}
  BY <1>1 DEF InitInv, InitTypeOK, Active
<1>3. /\ frames' \in Seq(Calls) /\ Len(frames') = 1
      /\ frames'[1].cls = Bottom /\ frames'[1].next = 1
      /\ \E f \in Calls : frames'[1] = f /\ Top(f)'
      /\ usedNames' \in Seq(SUBSET PropertyNames)
      /\ \A i \in DOMAIN frames' : frames'[i].used \in DOMAIN usedNames'
  <2>1. PICK before \in Seq(Calls) : before = <<>> /\ Len(before) = 0 /\ DOMAIN before = {}
    <3>1. <<>> \in Seq(Calls) /\ Len(<<>>) = 0 /\ DOMAIN <<>> = {}
      BY EmptySeq
    <3> QED  BY <3>1
  <2>2. PICK c \in Classes : c = Bottom
    BY DEF InitAssumption
  <2>3. Call(c, 0, before) /\ 0 \in 0..Len(usedNames)
    BY <1>1, <1>2, <2>1, <2>2
  <2>4. /\ frames' \in Seq(Calls) /\ Len(frames') = Len(before) + 1
         /\ frames'[Len(frames')].cls = c /\ frames'[Len(frames')].next = 1
         /\ \E f \in Calls : frames'[Len(frames')] = f /\ Top(f)'
         /\ usedNames' \in Seq(SUBSET PropertyNames)
         /\ \A i \in DOMAIN frames' : frames'[i].used \in DOMAIN usedNames'
    BY <1>1, <1>2, <2>1, <2>3, CallSweeps
  <2> QED  BY <2>1, <2>2, <2>4
<1>4. DOMAIN frames' = {1}
  BY <1>3
<1>5. InitTypeOK'
  BY <1>1, <1>3 DEF InitInv, InitTypeOK, InitArguments
<1>6. \A m \in values' : ~Blocked(m)'
  BY <1>1, BlockedLess DEF InitInv
<1>7. (\A i \in DOMAIN frames : frames[i].next <= Len(Extends[frames[i].cls]) + 1)'
  BY <1>3, <1>4 DEF InitAssumption
<1>8. (\A i \in DOMAIN frames :
          Noted(frames[i], ToSet(constructors), frames[i].next - (IF i = Len(frames) THEN 1 ELSE 2)))'
  BY <1>3, <1>4 DEF Noted
<1>9. Orderly(constructors, ToSet(constructed))' /\ ParentsFirst'
  BY <1>1, OrderKept DEF InitInv
<1>10. CircularMeansCircular' /\ phase' # "off"
  BY <1>1, <1>2 DEF CircularMeansCircular
<1>11. (\A i \in DOMAIN frames, f \in Calls : frames[i] = f => IF i = Len(frames) THEN Top(f) ELSE Resting(f))'
  BY <1>3, <1>4
<1>12. (\A i \in 1..(Len(frames) - 1) :
          frames[i].next > 1 /\ frames[i + 1].cls = Extends[frames[i].cls][frames[i].next - 1])'
  BY <1>3
<1> QED  BY <1>5, <1>6, <1>7, <1>8, <1>9, <1>10, <1>11, <1>12 DEF InitInv

\* A class is done with its properties and calls its next parent.
LEMMA NextParentKeeps ==
  ASSUME InitAssumption, InitInv, NextParent
  PROVE  InitInv'
<1> DEFINE L == Len(frames)
<1>1. /\ frames # <<>> /\ Active /\ Resting(Working) /\ Working.next <= Len(Extends[Working.cls])
      /\ Call(Extends[Working.cls][Working.next], Working.used, WithTop([Working EXCEPT !.next = @ + 1]))
      /\ constructors' = (IF Working.next = 1 THEN NoteExtension(Working.cls) ELSE constructors)
      /\ UNCHANGED <<layout, phase, values, constructed>>
  BY DEF NextParent, Settled, Active, Resting
<1>2. PICK f \in Calls : f = Working /\ f.used \in DOMAIN usedNames
  BY <1>1, TopSweeps
<1>3. /\ f.cls \in Classes /\ f.next \in Nat \ {0} /\ f.used \in Nat /\ f.next <= Len(Extends[f.cls])
      /\ Extends[f.cls] \in Seq(Classes)
  BY <1>1, <1>2 DEF Calls, InitAssumption
<1>4. PICK p \in Classes : p = Extends[f.cls][f.next]
  BY <1>3
<1>5. PICK g \in Calls : g = [f EXCEPT !.next = @ + 1]
  <2>1. PICK k \in Nat \ {0} : k = f.next + 1
    BY <1>3
  <2>2. [f EXCEPT !.next = k] \in Calls
    BY DEF Calls
  <2> QED  BY <2>1, <2>2
<1>6. /\ g.cls = f.cls /\ g.left = f.left /\ g.errors = f.errors /\ g.used = f.used
      /\ g.next = f.next + 1 /\ g.config = f.config
  BY <1>5 DEF Calls
<1>7. InitTypeOK /\ frames \in Seq(Calls) /\ usedNames \in Seq(SUBSET PropertyNames) /\ phase \in {"first", "second"}
  BY <1>1 DEF InitInv, InitTypeOK, Active
<1>8. PICK before \in Seq(Calls) : before = WithTop(g)
  BY <1>1, <1>7, WithTopIs
<1>9. /\ Len(before) = L /\ before[L] = g /\ \A i \in 1..(L - 1) : before[i] = frames[i]
      /\ f = frames[L] /\ L \in Nat \ {0} /\ DOMAIN frames = 1..L /\ DOMAIN before = 1..L
  <2>1. /\ Len(WithTop(g)) = Len(frames) /\ WithTop(g)[Len(frames)] = g
        /\ \A i \in 1..(Len(frames) - 1) : WithTop(g)[i] = frames[i]
        /\ Working = frames[Len(frames)] /\ Len(frames) \in Nat \ {0}
    BY <1>1, <1>7, WithTopIs
  <2>2. Len(before) = L /\ before[L] = g /\ f = frames[L] /\ L \in Nat \ {0}
    BY <1>2, <1>8, <2>1
  <2>3. \A i \in 1..(L - 1) : before[i] = frames[i]
    BY <1>8, <2>1
  <2>4. DOMAIN frames = 1..L
    BY <1>7
  <2>5. DOMAIN before = 1..L
    BY <1>8, <2>2
  <2> QED  BY <2>2, <2>3, <2>4, <2>5
<1>10. \A i \in DOMAIN before : before[i].used \in DOMAIN usedNames
  <2>1. \A i \in DOMAIN frames : frames[i].used \in DOMAIN usedNames
    BY <1>7 DEF InitTypeOK
  <2> QED  BY <1>2, <1>6, <1>9, <2>1
<1>11. Call(p, f.used, before) /\ f.used \in 0..Len(usedNames)
  BY <1>1, <1>2, <1>4, <1>5, <1>7, <1>8
<1>12. /\ frames' \in Seq(Calls) /\ Len(frames') = Len(before) + 1
       /\ \A i \in DOMAIN before : frames'[i] = before[i]
       /\ frames'[Len(frames')].cls = p /\ frames'[Len(frames')].next = 1
       /\ \E h \in Calls : frames'[Len(frames')] = h /\ Top(h)'
       /\ usedNames' \in Seq(SUBSET PropertyNames)
       /\ \A i \in DOMAIN frames' : frames'[i].used \in DOMAIN usedNames'
  BY <1>1, <1>7, <1>10, <1>11, CallSweeps
<1> HIDE DEF L
<1>13. /\ Len(frames) = L /\ Len(frames') = L + 1 /\ DOMAIN frames' = 1..(L + 1)
       /\ frames'[L] = g /\ \A i \in 1..(L - 1) : frames'[i] = frames[i]
       /\ frames'[L + 1].cls = p /\ frames'[L + 1].next = 1
       /\ \E h \in Calls : frames'[L + 1] = h /\ Top(h)'
  <2>1. Len(frames) = L
    BY DEF L
  <2>2. L \in 1..L /\ \A i \in 1..(L - 1) : i \in 1..L
    BY <1>9
  <2>3. Len(frames') = L + 1 /\ frames' \in Seq(Calls)
    BY <1>9, <1>12
  <2>4. frames'[L] = g /\ \A i \in 1..(L - 1) : frames'[i] = frames[i]
    BY <1>9, <1>12, <2>2
  <2>5. frames'[L + 1].cls = p /\ frames'[L + 1].next = 1
    BY <1>12, <2>3
  <2>6. \E h \in Calls : frames'[L + 1] = h /\ Top(h)'
    BY <1>12, <2>3
  <2>7. DOMAIN frames' = 1..(L + 1)
    BY <2>3
  <2> QED  BY <2>1, <2>3, <2>4, <2>5, <2>6, <2>7
<1>14. \A i \in 1..(L + 1) : i \in 1..(L - 1) \/ i = L \/ i = L + 1
  BY <1>9
<1>15. PICK noted \in Seq(Constructors) :
          /\ constructors' = noted /\ ToSet(constructors) \subseteq ToSet(noted)
          /\ Orderly(noted, ToSet(constructed))
          /\ phase = "second" /\ f.next = 1 /\ f.cls \in layout.native => <<"__init__", f.cls>> \in ToSet(noted)
  <2>1. CASE f.next = 1
    <3>1. PICK s : s = NoteExtension(f.cls)
      OBVIOUS
    <3> QED  BY <1>1, <1>2, <1>3, <2>1, <3>1, ExtensionNoted
  <2>2. CASE f.next # 1
    <3>1. constructors' = constructors
      BY <1>1, <1>2, <2>2
    <3> QED  BY <2>2, <3>1 DEF InitInv, InitTypeOK
  <2> QED  BY <2>1, <2>2
<1>16. InitTypeOK'
  <2>1. constructed \in Seq(Constructors)
    BY <1>7 DEF InitTypeOK
  <2>2. (\A c \in Classes : InitArguments(c) \subseteq PropertyNames)' /\ values' \subseteq PropertyNames
    BY <1>1, <1>7 DEF InitTypeOK, InitArguments
  <2>3. constructors' \in Seq(Constructors) /\ constructed' \in Seq(Constructors)
    BY <1>1, <1>15, <2>1
  <2> QED  BY <1>12, <2>2, <2>3 DEF InitTypeOK
<1>17. \A m \in values' : ~Blocked(m)'
  BY <1>1, BlockedLess DEF InitInv
<1>18. (\A i \in DOMAIN frames, h \in Calls : frames[i] = h => IF i = Len(frames) THEN Top(h) ELSE Resting(h))'
  <2>1. ASSUME NEW i \in 1..(L - 1), NEW h \in Calls, frames[i] = h PROVE Resting(h)
    <3>1. i \in DOMAIN frames /\ i # Len(frames)
      BY <1>9, <1>13
    <3> QED  BY <1>1, <2>1, <3>1 DEF InitInv
  <2>2. Resting(g)
    BY <1>1, <1>2, <1>6 DEF Resting
  <2> QED  BY <1>9, <1>13, <1>14, <2>1, <2>2
<1>19. (\A i \in DOMAIN frames : frames[i].next <= Len(Extends[frames[i].cls]) + 1)'
  <2>1. \A i \in 1..(L - 1) : frames[i].next <= Len(Extends[frames[i].cls]) + 1
    <3>1. \A i \in 1..(L - 1) : i \in DOMAIN frames
      BY <1>9
    <3> QED  BY <3>1 DEF InitInv
  <2>2. g.next <= Len(Extends[g.cls]) + 1
    BY <1>3, <1>6
  <2>3. 1 <= Len(Extends[p]) + 1
    BY DEF InitAssumption
  <2> QED  BY <1>13, <1>14, <2>1, <2>2, <2>3
<1>20. (\A i \in 1..(Len(frames) - 1) :
          frames[i].next > 1 /\ frames[i + 1].cls = Extends[frames[i].cls][frames[i].next - 1])'
  <2>1. ASSUME NEW i \in 1..L
        PROVE  frames'[i].next > 1 /\ frames'[i + 1].cls = Extends[frames'[i].cls][frames'[i].next - 1]
    <3>1. CASE i = L
      <4>1. g.next > 1 /\ g.next - 1 = f.next
        <5>1. \A k \in Nat \ {0} : k + 1 > 1 /\ (k + 1) - 1 = k
          OBVIOUS
        <5> QED  BY <1>3, <1>6, <5>1
      <4> QED  BY <1>4, <1>6, <1>13, <3>1, <4>1
    <3>2. CASE i # L
      <4>1. i \in 1..(L - 1) /\ i + 1 \in 1..L
        BY <1>9, <3>2
      <4>2. frames[i].next > 1 /\ frames[i + 1].cls = Extends[frames[i].cls][frames[i].next - 1]
        BY <1>13, <4>1 DEF InitInv
      <4>3. frames'[i + 1].cls = frames[i + 1].cls
        <5>1. CASE i + 1 = L
          BY <1>6, <1>9, <1>13, <5>1
        <5>2. CASE i + 1 # L
          <6>1. i + 1 \in 1..(L - 1)
            BY <1>9, <4>1, <5>2
          <6> QED  BY <1>13, <6>1
        <5> QED  BY <5>1, <5>2
      <4> QED  BY <1>13, <4>1, <4>2, <4>3
    <3> QED  BY <3>1, <3>2
  <2>2. Len(frames') - 1 = L
    BY <1>9, <1>13
  <2> QED  BY <2>1, <2>2
<1>21. phase' = "second" => (\A i \in DOMAIN frames :
          Noted(frames[i], ToSet(constructors), frames[i].next - (IF i = Len(frames) THEN 1 ELSE 2)))'
  <2>1. ASSUME phase = "second", NEW i \in 1..(L + 1), NEW h \in Calls, frames'[i] = h
        PROVE  /\ h.next > 1 /\ h.cls \in layout.native => <<"__init__", h.cls>> \in ToSet(noted)
               /\ \A m \in 1..(h.next - (IF i = L + 1 THEN 1 ELSE 2)) :
                     <<".init", Extends[h.cls][m]>> \in ToSet(noted)
    <3>1. \A j \in 1..L : Noted(frames[j], ToSet(constructors), frames[j].next - (IF j = L THEN 1 ELSE 2))
      BY <1>9, <1>13, <2>1 DEF InitInv
    <3>2. CASE i = L + 1
      <4>1. h.next = 1
        BY <1>13, <2>1, <3>2
      <4>2. 1..(1 - 1) = {}
        OBVIOUS
      <4> QED  BY <3>2, <4>1, <4>2
    <3>3. CASE i = L
      <4>1. Noted(f, ToSet(constructors), f.next - 1)
        <5>1. L \in 1..L /\ frames[L] = f
          BY <1>9
        <5>2. Noted(frames[L], ToSet(constructors), frames[L].next - (IF L = L THEN 1 ELSE 2))
          BY <3>1, <5>1
        <5>3. (IF L = L THEN 1 ELSE 2) = 1
          OBVIOUS
        <5> QED  BY <5>1, <5>2, <5>3
      <4>2. g.next - 2 = f.next - 1 /\ L # L + 1
        BY <1>3, <1>6, <1>9
      <4>3. h = g
        BY <1>13, <2>1, <3>3
      <4>4. h.cls \in layout.native => <<"__init__", h.cls>> \in ToSet(noted)
        <5>1. CASE f.next = 1
          BY <1>6, <1>15, <2>1, <4>3, <5>1
        <5>2. CASE f.next # 1
          <6>1. f.next > 1
            <7>1. \A k \in Nat \ {0} : k # 1 => k > 1
              OBVIOUS
            <7> QED  BY <1>3, <5>2, <7>1
          <6> QED  BY <1>6, <1>15, <4>1, <4>3, <6>1 DEF Noted
        <5> QED  BY <5>1, <5>2
      <4>5. \A m \in 1..(f.next - 1) : <<".init", Extends[f.cls][m]>> \in ToSet(noted)
        BY <1>15, <4>1 DEF Noted
      <4> QED  BY <1>6, <3>3, <4>2, <4>3, <4>4, <4>5
    <3>4. CASE i \in 1..(L - 1)
      <4>1. i # L + 1 /\ i # L /\ i \in 1..L
        BY <1>9, <3>4
      <4>2. frames[i] = h
        BY <1>13, <2>1, <3>4
      <4>3. Noted(h, ToSet(constructors), h.next - 2)
        BY <3>1, <4>1, <4>2
      <4> QED  BY <1>15, <4>1, <4>3 DEF Noted
    <3> QED  BY <1>14, <3>2, <3>3, <3>4
  <2>2. \A i \in 1..(L + 1) : frames'[i] \in Calls
    BY <1>12, <1>13
  <2>3. Len(frames') = L + 1 /\ DOMAIN frames' = 1..(L + 1) /\ constructors' = noted /\ phase' = phase /\ layout' = layout
    BY <1>1, <1>13, <1>15
  <2> QED  BY <2>1, <2>2, <2>3 DEF Noted
<1>22. Orderly(constructors, ToSet(constructed))' /\ ParentsFirst'
  <2>1. Orderly(noted, ToSet(constructed))'
    BY <1>1, <1>15 DEF Orderly, Ready
  <2>2. ParentsFirst'
    BY <1>1 DEF InitInv, ParentsFirst
  <2> QED  BY <1>15, <2>1, <2>2
<1>23. CircularMeansCircular' /\ phase' # "off"
  BY <1>1, <1>7 DEF CircularMeansCircular
<1> QED  BY <1>16, <1>17, <1>18, <1>19, <1>20, <1>21, <1>22, <1>23 DEF InitInv

\* A class is done with its parents, and notes its own constructor.
LEMMA ReturnKeeps ==
  ASSUME InitAssumption, InitInv, Return
  PROVE  InitInv'
<1>1. /\ frames # <<>> /\ Active /\ Resting(Working) /\ Working.next > Len(Extends[Working.cls])
      /\ constructors' = (IF phase = "second" THEN NotesInit(Working.cls) ELSE constructors)
      /\ frames' = Front(frames)
      /\ phase' = (IF Len(frames) > 1 THEN phase ELSE IF phase = "first" THEN "second" ELSE "run")
      /\ UNCHANGED <<layout, usedNames, values, constructed>>
  BY DEF Return, Settled, Active, Resting
<1>2. InitTypeOK /\ frames \in Seq(Calls) /\ phase \in {"first", "second"}
  BY <1>1 DEF InitInv, InitTypeOK, Active
<1>3. PICK s \in Seq(Calls) : s = frames
  BY <1>2
<1>4. PICK x \in Calls : TRUE
  <2>1. s[1] \in Calls
    BY <1>1, <1>3, EmptySeq
  <2> QED  BY <2>1
<1>5. PICK L \in Nat \ {0} : L = Len(s)
  BY <1>1, <1>3, TopReplaced, <1>4
<1>6. /\ Front(s) \in Seq(Calls) /\ Len(Front(s)) = Len(s) - 1
      /\ \A i \in 1..(Len(s) - 1) : Front(s)[i] = s[i]
  BY <1>1, <1>3, <1>4, TopReplaced
<1>7. frames' \in Seq(Calls) /\ Len(frames') = L - 1 /\ \A i \in 1..(L - 1) : frames'[i] = frames[i]
  BY <1>1, <1>3, <1>5, <1>6
<1>8. DOMAIN frames' = 1..(L - 1) /\ Len(frames) = L /\ DOMAIN frames = 1..L /\ L \in 1..L
  BY <1>3, <1>5, <1>7
<1>9. PICK f \in Calls : f = Working /\ f = frames[L]
  <2>1. Last(s) = s[Len(s)] /\ Last(s) \in Calls
    BY <1>1, <1>3, <1>4, TopReplaced
  <2> QED  BY <1>3, <1>5, <2>1 DEF Working
<1>10. PICK c \in Classes : c = f.cls
  BY DEF Calls
<1>11. Extends[c] \in Seq(Classes) /\ f.next \in Nat \ {0} /\ f.next = Len(Extends[c]) + 1
  <2>1. Extends[c] \in Seq(Classes) /\ f.next \in Nat \ {0}
    BY DEF InitAssumption, Calls
  <2>2. frames[L].next <= Len(Extends[frames[L].cls]) + 1
    BY <1>8 DEF InitInv
  <2>3. f.next <= Len(Extends[c]) + 1 /\ f.next > Len(Extends[c])
    BY <1>1, <1>9, <1>10, <2>2
  <2>4. Len(Extends[c]) \in Nat
    BY <2>1
  <2> QED  BY <2>1, <2>3, <2>4
<1>12. PICK noted \in Seq(Constructors) :
          /\ constructors' = noted /\ ToSet(constructors) \subseteq ToSet(noted)
          /\ Orderly(noted, ToSet(constructed))
          /\ phase = "second" => <<".init", c>> \in ToSet(noted)
  <2>1. CASE phase # "second"
    BY <1>1, <2>1 DEF InitInv, InitTypeOK
  <2>2. CASE phase = "second"
    <3>1. Noted(f, ToSet(constructors), f.next - 1)
      <4>1. \A i \in DOMAIN frames :
              Noted(frames[i], ToSet(constructors), frames[i].next - (IF i = Len(frames) THEN 1 ELSE 2))
        BY <2>2 DEF InitInv
      <4>2. Noted(frames[L], ToSet(constructors), frames[L].next - (IF L = L THEN 1 ELSE 2))
        BY <1>8, <4>1
      <4>3. (IF L = L THEN 1 ELSE 2) = 1
        OBVIOUS
      <4> QED  BY <1>9, <4>2, <4>3
    <3>2. \A m \in 1..Len(Extends[c]) : <<".init", Extends[c][m]>> \in ToSet(constructors)
      <4>1. f.next - 1 = Len(Extends[c])
        BY <1>11
      <4> QED  BY <1>10, <3>1, <4>1 DEF Noted
    <3>3. PICK t : t = (IF Extends[c] = <<>> THEN NoteExtension(c) ELSE constructors)
      OBVIOUS
    <3>4. /\ t \in Seq(Constructors) /\ ToSet(constructors) \subseteq ToSet(t)
          /\ Orderly(t, ToSet(constructed))
          /\ c \in layout.native => <<"__init__", c>> \in ToSet(t)
      <4>1. CASE Extends[c] = <<>>
        BY <2>2, <3>3, <4>1, ExtensionNoted
      <4>2. CASE Extends[c] # <<>>
        <5>1. f.next > 1
          <6>1. Len(Extends[c]) \in Nat \ {0}
            BY <1>11, <4>2, EmptySeq
          <6> QED  BY <1>11, <6>1
        <5> QED  BY <1>10, <3>1, <3>3, <4>2, <5>1 DEF Noted, InitInv, InitTypeOK
      <4> QED  BY <4>1, <4>2
    <3>5. PICK hasRun : hasRun = ToSet(constructed)
      OBVIOUS
    <3>6. PICK fn \in Constructors : fn = <<".init", c>> /\ fn[2] = c
      <4>1. <<".init", c>> \in Constructors
        BY DEF Constructors
      <4>2. PICK fn : fn = <<".init", c>>
        OBVIOUS
      <4>3. fn[2] = c
        BY <4>2
      <4> QED  BY <4>1, <4>2, <4>3
    <3>7. Ready(fn, hasRun \cup ToSet(t))
      <4>1. \A m \in 1..Len(Extends[c]) : <<".init", Extends[c][m]>> \in ToSet(t)
        BY <3>2, <3>4
      <4>2. Orderly(t, hasRun)
        BY <3>4, <3>5
      <4>3. ASSUME NEW d \in Classes, d # c, Derives(c, d), d \in DOMAIN layout.init
            PROVE  <<".init", d>> \in hasRun \cup ToSet(t)
        BY <3>4, <4>1, <4>2, <4>3, AncestorsNoted
      <4> QED  BY <3>4, <3>6, <4>3 DEF Ready
    <3>8. /\ Append(t, fn) \in Seq(Constructors) /\ ToSet(Append(t, fn)) = ToSet(t) \cup {fn}
          /\ Orderly(Append(t, fn), hasRun)
      BY <3>4, <3>5, <3>7, OneMoreNoted
    <3>9. constructors' = Append(t, fn)
      BY <1>1, <1>9, <1>10, <2>2, <3>3, <3>6 DEF NotesInit
    <3> QED  BY <3>4, <3>5, <3>6, <3>8, <3>9
  <2> QED  BY <2>1, <2>2
<1>13. InitTypeOK'
  <2>1. constructed \in Seq(Constructors) /\ usedNames \in Seq(SUBSET PropertyNames)
    BY <1>2 DEF InitTypeOK
  <2>2. (\A d \in Classes : InitArguments(d) \subseteq PropertyNames)' /\ values' \subseteq PropertyNames
    BY <1>1, <1>2 DEF InitTypeOK, InitArguments
  <2>3. constructors' \in Seq(Constructors) /\ constructed' \in Seq(Constructors)
    BY <1>1, <1>12, <2>1
  <2>4. \A i \in DOMAIN frames' : frames'[i].used \in DOMAIN usedNames'
    <3>1. \A i \in DOMAIN frames : frames[i].used \in DOMAIN usedNames
      BY <1>2 DEF InitTypeOK
    <3>2. \A i \in 1..(L - 1) : i \in 1..L
      BY <1>5
    <3> QED  BY <1>1, <1>7, <1>8, <3>1, <3>2
  <2> QED  BY <1>1, <1>7, <2>1, <2>2, <2>3, <2>4 DEF InitTypeOK
<1>14. \A m \in values' : ~Blocked(m)'
  BY <1>1, BlockedLess DEF InitInv
<1>15. \A i \in 1..(L - 1) : i \in 1..L /\ i # L
  BY <1>5
<1>16. (\A i \in DOMAIN frames, h \in Calls : frames[i] = h => IF i = Len(frames) THEN Top(h) ELSE Resting(h))'
  <2>1. ASSUME NEW i \in 1..(L - 1), NEW h \in Calls, frames[i] = h PROVE Resting(h)
    BY <1>1, <1>8, <1>15, <2>1 DEF InitInv
  <2>2. \A h : Resting(h) => Top(h)'
    BY DEF Top
  <2> QED  BY <1>7, <1>8, <2>1, <2>2
<1>17. (\A i \in DOMAIN frames : frames[i].next <= Len(Extends[frames[i].cls]) + 1)'
  <2>1. \A i \in 1..(L - 1) : frames[i].next <= Len(Extends[frames[i].cls]) + 1
    BY <1>8, <1>15 DEF InitInv
  <2> QED  BY <1>7, <1>8, <2>1
<1>18. \A i \in 1..(L - 1) :
          frames[i].next > 1 /\ frames[i + 1].cls = Extends[frames[i].cls][frames[i].next - 1]
  BY <1>8 DEF InitInv
<1>19. (\A i \in 1..(Len(frames) - 1) :
          frames[i].next > 1 /\ frames[i + 1].cls = Extends[frames[i].cls][frames[i].next - 1])'
  <2>1. \A i \in 1..((L - 1) - 1) : i \in 1..(L - 1) /\ i + 1 \in 1..(L - 1)
    BY <1>5
  <2> QED  BY <1>7, <1>18, <2>1
<1>20. phase' = "second" => (\A i \in DOMAIN frames :
          Noted(frames[i], ToSet(constructors), frames[i].next - (IF i = Len(frames) THEN 1 ELSE 2)))'
  <2>1. ASSUME phase' = "second", NEW i \in 1..(L - 1), NEW h \in Calls, frames[i] = h
        PROVE  /\ h.next > 1 /\ h.cls \in layout.native => <<"__init__", h.cls>> \in ToSet(noted)
               /\ \A m \in 1..(h.next - (IF i = L - 1 THEN 1 ELSE 2)) :
                     <<".init", Extends[h.cls][m]>> \in ToSet(noted)
    <3>1. phase = "second"
      <4>1. L > 1
        BY <1>5, <2>1
      <4> QED  BY <1>1, <1>8, <2>1, <4>1
    <3>2. Noted(h, ToSet(constructors), h.next - 2)
      <4>1. Noted(frames[i], ToSet(constructors), frames[i].next - (IF i = Len(frames) THEN 1 ELSE 2))
        BY <1>8, <1>15, <3>1 DEF InitInv
      <4> QED  BY <1>8, <1>15, <2>1, <4>1
    <3>3. h.next > 1 /\ h.cls \in layout.native => <<"__init__", h.cls>> \in ToSet(noted)
      BY <1>12, <3>2 DEF Noted
    <3>4. \A m \in 1..(h.next - 2) : <<".init", Extends[h.cls][m]>> \in ToSet(noted)
      BY <1>12, <3>2 DEF Noted
    <3>5. CASE i # L - 1
      BY <3>3, <3>4, <3>5
    <3>6. CASE i = L - 1
      <4>1. i + 1 = L /\ (IF i = L - 1 THEN 1 ELSE 2) = 1
        BY <1>5, <3>6
      <4>2. h.next > 1 /\ c = Extends[h.cls][h.next - 1]
        BY <1>9, <1>10, <1>18, <2>1, <4>1
      <4>3. ASSUME NEW m \in 1..(h.next - 1) PROVE m \in 1..(h.next - 2) \/ m = h.next - 1
        <5>1. h.next \in Nat \ {0}
          BY DEF Calls
        <5>2. PICK k \in Nat \ {0} : k = h.next
          BY <5>1
        <5>3. m \in 1..(k - 1)
          BY <5>2
        <5>4. m \in 1..(k - 2) \/ m = k - 1
          BY <5>3
        <5> QED  BY <5>2, <5>4
      <4>4. <<".init", c>> \in ToSet(noted)
        BY <1>12, <3>1
      <4> QED  BY <3>3, <3>4, <4>1, <4>2, <4>3, <4>4
    <3> QED  BY <3>5, <3>6
  <2>2. \A i \in 1..(L - 1) : frames'[i] \in Calls /\ frames'[i] = frames[i]
    BY <1>7, <1>8
  <2>3. Len(frames') = L - 1 /\ DOMAIN frames' = 1..(L - 1) /\ constructors' = noted /\ layout' = layout
    BY <1>1, <1>7, <1>8, <1>12
  <2> QED  BY <2>1, <2>2, <2>3 DEF Noted
<1>21. Orderly(constructors, ToSet(constructed))' /\ ParentsFirst'
  <2>1. Orderly(noted, ToSet(constructed))'
    BY <1>1, <1>12 DEF Orderly, Ready
  <2>2. ParentsFirst'
    BY <1>1 DEF InitInv, ParentsFirst
  <2> QED  BY <1>12, <2>1, <2>2
<1>22. CircularMeansCircular' /\ phase' # "off"
  BY <1>1, <1>2 DEF CircularMeansCircular
<1>23. Active' => (\A i \in DOMAIN frames, h \in Calls :
          frames[i] = h => IF i = Len(frames) THEN Top(h) ELSE Resting(h))'
  BY <1>16
<1> QED  BY <1>13, <1>14, <1>17, <1>19, <1>20, <1>21, <1>22, <1>23 DEF InitInv

\* What never runs is nothing to wait for.
LEMMA ReadyWithout ==
  ASSUME NEW fn, NEW before, NEW less, Ready(fn, before),
         \A x \in before : x \in less \/ (x[1] = ".init" /\ x[2] \notin DOMAIN layout.init)
  PROVE  Ready(fn, less)
<1>1. ASSUME NEW x \in before, x[1] = "__init__" PROVE x \in less
  BY <1>1
<1>2. ASSUME NEW x \in before, x[2] \in DOMAIN layout.init PROVE x \in less
  BY <1>2
<1>3. \A c : <<"__init__", c>> \in before => <<"__init__", c>> \in less
  <2> SUFFICES ASSUME NEW c, NEW x, x = <<"__init__", c>>, x \in before PROVE x \in less
    OBVIOUS
  <2>1. x[1] = "__init__"
    OBVIOUS
  <2> QED  BY <1>1, <2>1
<1>4. \A d \in DOMAIN layout.init : <<".init", d>> \in before => <<".init", d>> \in less
  <2> SUFFICES ASSUME NEW d \in DOMAIN layout.init, NEW x, x = <<".init", d>>, x \in before PROVE x \in less
    OBVIOUS
  <2>1. x[2] = d
    OBVIOUS
  <2> QED  BY <1>2, <2>1
<1> QED  BY <1>3, <1>4 DEF Ready

\* What is left to run, once the first constructor has.
LEMMA RestOrderly ==
  ASSUME NEW s \in Seq(Constructors), s # <<>>, NEW hasRun, NEW more, Orderly(s, hasRun), hasRun \subseteq more,
         Head(s) \in more \/ (Head(s)[1] = ".init" /\ Head(s)[2] \notin DOMAIN layout.init)
  PROVE  /\ Tail(s) \in Seq(Constructors) /\ Head(s) \in Constructors
         /\ Ready(Head(s), hasRun) /\ Orderly(Tail(s), more)
<1> DEFINE t == Tail(s)
           L == Len(s)
<1>1. /\ t \in Seq(Constructors) /\ L \in Nat \ {0} /\ Len(t) = L - 1 /\ Head(s) = s[1]
      /\ DOMAIN t = 1..(L - 1) /\ \A k \in 1..(L - 1) : t[k] = s[k + 1]
  BY EmptySeq
<1> HIDE DEF t, L
<1>2. DOMAIN s = 1..L /\ s[1] \in Constructors /\ 1 \in 1..L
  BY <1>1 DEF L
<1>3. \A k \in 1..L : Ready(s[k], hasRun \cup {s[m] : m \in 1..(k - 1)})
  BY <1>2 DEF Orderly
<1>4. Ready(s[1], hasRun)
  <2>1. Ready(s[1], hasRun \cup {s[m] : m \in 1..(1 - 1)})
    BY <1>2, <1>3
  <2>2. hasRun \cup {s[m] : m \in 1..(1 - 1)} = hasRun
    OBVIOUS
  <2> QED  BY <2>1, <2>2
<1>5. ASSUME NEW k \in 1..(L - 1) PROVE Ready(t[k], more \cup {t[m] : m \in 1..(k - 1)})
  <2>1. k + 1 \in 1..L /\ (k + 1) - 1 = k /\ t[k] = s[k + 1]
    <3>1. \A j \in Nat \ {0} : \A i \in 1..(j - 1) : i + 1 \in 1..j /\ (i + 1) - 1 = i
      OBVIOUS
    <3> QED  BY <1>1, <3>1
  <2>2. Ready(t[k], hasRun \cup {s[m] : m \in 1..k})
    BY <1>3, <2>1
  <2>3. ASSUME NEW x \in hasRun \cup {s[m] : m \in 1..k}
        PROVE  \/ x \in more \cup {t[m] : m \in 1..(k - 1)}
               \/ (x[1] = ".init" /\ x[2] \notin DOMAIN layout.init)
    <3>1. CASE x \in hasRun
      BY <3>1
    <3>2. CASE x \notin hasRun
      <4>1. PICK m \in 1..k : x = s[m]
        BY <2>3, <3>2
      <4>2. CASE m = 1
        BY <1>1, <4>1, <4>2
      <4>3. CASE m # 1
        <5>1. m - 1 \in 1..(k - 1) /\ m - 1 \in 1..(L - 1) /\ (m - 1) + 1 = m
          BY <1>1, <4>3
        <5>2. t[m - 1] = x
          BY <1>1, <4>1, <5>1
        <5> QED  BY <5>1, <5>2
      <4> QED  BY <4>2, <4>3
    <3> QED  BY <3>1, <3>2
  <2>4. PICK fn, before, less : /\ fn = t[k] /\ before = hasRun \cup {s[m] : m \in 1..k}
                                /\ less = more \cup {t[m] : m \in 1..(k - 1)}
    OBVIOUS
  <2>5. Ready(fn, before)
    BY <2>2, <2>4
  <2>6. \A x \in before : x \in less \/ (x[1] = ".init" /\ x[2] \notin DOMAIN layout.init)
    BY <2>3, <2>4
  <2>7. Ready(fn, less)
    BY <2>5, <2>6, ReadyWithout
  <2> QED  BY <2>4, <2>7
<1>6. Orderly(t, more)
  BY <1>1, <1>5 DEF Orderly
<1> QED  BY <1>1, <1>2, <1>4, <1>6 DEF t

\* The first of the constructors has run, or its class has none to run.
LEMMA RunConstructorKeeps ==
  ASSUME InitAssumption, InitInv, RunConstructor
  PROVE  InitInv'
<1>1. phase = "run" /\ UNCHANGED <<layout, frames, usedNames, values>>
  BY DEF RunConstructor
<1>2. /\ InitTypeOK /\ constructors \in Seq(Constructors) /\ constructed \in Seq(Constructors)
      /\ Orderly(constructors, ToSet(constructed)) /\ ParentsFirst
  BY DEF InitInv, InitTypeOK
<1>3. PICK s \in Seq(Constructors) : s = constructors
  BY <1>2
<1>4. PICK done \in Seq(Constructors) : done = constructed
  BY <1>2
<1>5. Orderly(done, {})
  <2>1. \A k \in DOMAIN done : {} \cup {done[m] : m \in 1..(k - 1)} = {done[m] : m \in 1..(k - 1)}
    OBVIOUS
  <2>2. \A k \in DOMAIN done : Ready(done[k], {done[m] : m \in 1..(k - 1)})
    BY <1>2, <1>4 DEF ParentsFirst, Ready
  <2> QED  BY <2>1, <2>2 DEF Orderly
<1>6. /\ phase' \in {"run", "done"}
      /\ \E rest, hasRun \in Seq(Constructors) :
            /\ constructors' = rest /\ constructed' = hasRun
            /\ Orderly(rest, ToSet(hasRun)) /\ Orderly(hasRun, {})
  <2>1. CASE constructors = <<>>
    <3>1. phase' = "done" /\ constructors' = s /\ constructed' = done
      BY <1>3, <1>4, <2>1 DEF RunConstructor
    <3> QED  BY <1>2, <1>3, <1>4, <1>5, <3>1
  <2>2. CASE constructors # <<>>
    <3>1. PICK fn : fn = Head(s)
      OBVIOUS
    <3>2. /\ constructors' = Tail(s) /\ phase' = phase
          /\ constructed' = (IF fn[1] = "__init__" \/ fn[2] \in DOMAIN layout.init
                             THEN Append(done, fn) ELSE done)
      BY <1>3, <1>4, <2>2, <3>1 DEF RunConstructor
    <3>3. CASE fn[1] = "__init__" \/ fn[2] \in DOMAIN layout.init
      <4>1. /\ Tail(s) \in Seq(Constructors) /\ fn \in Constructors
            /\ Ready(fn, ToSet(done)) /\ Orderly(Tail(s), ToSet(done) \cup {fn})
        <5>1. PICK hasRun, more : hasRun = ToSet(done) /\ more = ToSet(done) \cup {fn}
          OBVIOUS
        <5>2. s # <<>> /\ Orderly(s, hasRun) /\ hasRun \subseteq more /\ Head(s) \in more
          BY <1>2, <1>3, <1>4, <2>2, <3>1, <5>1
        <5>3. /\ Tail(s) \in Seq(Constructors) /\ Head(s) \in Constructors
              /\ Ready(Head(s), hasRun) /\ Orderly(Tail(s), more)
          BY <5>2, RestOrderly
        <5> QED  BY <3>1, <5>1, <5>3
      <4>2. Ready(fn, {} \cup ToSet(done))
        <5>1. {} \cup ToSet(done) = ToSet(done)
          OBVIOUS
        <5> QED  BY <4>1, <5>1
      <4>3. /\ Append(done, fn) \in Seq(Constructors) /\ ToSet(Append(done, fn)) = ToSet(done) \cup {fn}
            /\ Orderly(Append(done, fn), {})
        BY <1>5, <4>1, <4>2, OneMoreNoted
      <4> QED  BY <1>1, <3>2, <3>3, <4>1, <4>3
    <3>4. CASE ~ (fn[1] = "__init__" \/ fn[2] \in DOMAIN layout.init)
      <4>1. Head(s) \in Constructors
        BY <1>3, <2>2, EmptySeq
      <4>2. fn[1] = ".init"
        BY <3>1, <3>4, <4>1 DEF Constructors
      <4>3. Tail(s) \in Seq(Constructors) /\ Orderly(Tail(s), ToSet(done))
        BY <1>2, <1>3, <1>4, <2>2, <3>1, <3>4, <4>2, RestOrderly
      <4> QED  BY <1>1, <1>5, <3>2, <3>4, <4>3
    <3> QED  BY <3>3, <3>4
  <2> QED  BY <2>1, <2>2
<1>7. PICK rest, hasRun \in Seq(Constructors) :
            /\ constructors' = rest /\ constructed' = hasRun
            /\ Orderly(rest, ToSet(hasRun)) /\ Orderly(hasRun, {})
  BY <1>6
<1>8. ParentsFirst'
  <2>1. \A k \in DOMAIN hasRun : {} \cup {hasRun[m] : m \in 1..(k - 1)} = {hasRun[m] : m \in 1..(k - 1)}
    OBVIOUS
  <2>2. \A k \in DOMAIN hasRun : Ready(hasRun[k], {hasRun[m] : m \in 1..(k - 1)})
    BY <1>7, <2>1 DEF Orderly
  <2> QED  BY <1>1, <1>7, <2>2 DEF ParentsFirst, Ready
<1>9. Orderly(constructors, ToSet(constructed))'
  <2>1. PICK before : before = ToSet(hasRun)
    OBVIOUS
  <2>2. Orderly(rest, before)
    BY <1>7, <2>1
  <2>3. Orderly(rest, before)'
    BY <1>1, <2>2 DEF Orderly, Ready
  <2> QED  BY <1>7, <2>1, <2>3
<1>10. InitTypeOK'
  BY <1>1, <1>2, <1>7 DEF InitTypeOK, InitArguments
<1>11. \A m \in values' : ~Blocked(m)'
  BY <1>1, BlockedLess DEF InitInv
<1>12. ~Active' /\ phase' # "off" /\ phase' # "second" /\ CircularMeansCircular'
  BY <1>6 DEF Active, CircularMeansCircular
<1>13. /\ \A i \in DOMAIN frames : frames[i].next <= Len(Extends[frames[i].cls]) + 1
       /\ \A i \in 1..(Len(frames) - 1) :
             frames[i].next > 1 /\ frames[i + 1].cls = Extends[frames[i].cls][frames[i].next - 1]
  BY DEF InitInv
<1>14. (/\ \A i \in DOMAIN frames : frames[i].next <= Len(Extends[frames[i].cls]) + 1
        /\ \A i \in 1..(Len(frames) - 1) :
              frames[i].next > 1 /\ frames[i + 1].cls = Extends[frames[i].cls][frames[i].next - 1])'
  BY <1>1, <1>13
<1> QED  BY <1>8, <1>9, <1>10, <1>11, <1>12, <1>14 DEF InitInv

\* The invariant is kept by all steps.
LEMMA InitInduction ==
  ASSUME InitAssumption, InitInv, [InitNext]_initialising
  PROVE  InitInv'
<1>1. CASE InitNext
  BY <1>1, LoadObjectKeeps, InitializeKeeps, EndSweepKeeps, NextParentKeeps, ReturnKeeps,
     RunConstructorKeeps, SetConfigKeeps, SetNameKeeps DEF InitNext
<1>2. CASE UNCHANGED initialising
  <2>1. UNCHANGED <<layout, phase, frames, usedNames, values, constructors, constructed>>
    BY <1>2 DEF initialising
  <2>2. CircularMeansCircular'
    BY <2>1 DEF InitInv, CircularMeansCircular, Settable, CanJoin, Skipped, Specs, OwnNames, Declared, Working
  <2>3. InitTypeOK'
    BY <2>1 DEF InitInv, InitTypeOK, InitArguments
  <2>4. (\A n \in values : ~Blocked(n))'
    BY <2>1, BlockedLess DEF InitInv
  <2>5. Orderly(constructors, ToSet(constructed))' /\ ParentsFirst'
    BY <2>1, OrderKept DEF InitInv
  <2>6. ASSUME NEW f, Top(f) PROVE Top(f)'
    <3>1. CASE Resting(f)
      BY <3>1 DEF Top, Resting
    <3>2. CASE ~Resting(f)
      <4>1. PICK before, failed \in SUBSET PropertyNames : Sweeping(f, before, failed)
        BY <2>6, <3>2 DEF Top
      <4>2. NamesIn(f.cls)' = NamesIn(f.cls) /\ Pending(f)' = Pending(f)
        BY <2>1 DEF NamesIn, Pending, OwnNames, InitArguments, Skipped, Declared
      <4>3. \A n : Dealt(f, n) => Dealt(f, n)'
        BY <2>1, ViolationsStay DEF Dealt
      <4>4. \A n : Blocked(n) => Blocked(n)'
        BY <2>1 DEF Blocked, Specs, Declared
      <4>5. Sweeping(f, before, failed)'
        BY <4>1, <4>2, <4>3, <4>4 DEF Sweeping
      <4> QED  BY <4>5 DEF Top
    <3> QED  BY <3>1, <3>2
  <2>7. (Active => \A i \in DOMAIN frames, f \in Calls :
            frames[i] = f => IF i = Len(frames) THEN Top(f) ELSE Resting(f))'
    BY <2>1, <2>6 DEF InitInv, Active
  <2>8. (/\ phase = "off" => frames = <<>> /\ values = {} /\ constructors = <<>> /\ constructed = <<>>
         /\ \A i \in DOMAIN frames : frames[i].next <= Len(Extends[frames[i].cls]) + 1
         /\ \A i \in 1..(Len(frames) - 1) :
               frames[i].next > 1 /\ frames[i + 1].cls = Extends[frames[i].cls][frames[i].next - 1])'
    BY <2>1 DEF InitInv
  <2>9. (phase = "second" => \A i \in DOMAIN frames :
            Noted(frames[i], ToSet(constructors), frames[i].next - (IF i = Len(frames) THEN 1 ELSE 2)))'
    BY <2>1 DEF InitInv, Noted
  <2> QED  BY <2>2, <2>3, <2>4, <2>5, <2>7, <2>8, <2>9 DEF InitInv
<1> QED  BY <1>1, <1>2

\* MuranoObject.initialize gives an object up because of a circle only if its
\* names really wait for each other, and no constructor runs before those of
\* the ancestors of its class or before the class in Python: for all layouts,
\* hierarchies, orders of the names and numbers of sweeps.
THEOREM ObjectsAreInitialised == InitSpec => []InitialisedInOrder
<1>1. InitInit => InitInv
  <2> SUFFICES ASSUME InitInit PROVE InitInv
    OBVIOUS
  <2>1. /\ layout.init = <<>> /\ phase = "off" /\ frames = <<>> /\ usedNames = <<>> /\ values = {}
        /\ constructors = <<>> /\ constructed = <<>>
    BY DEF InitInit
  <2>2. \A c \in Classes : InitArguments(c) = {}
    BY <2>1 DEF InitArguments
  <2>3. InitTypeOK
    BY <2>1, <2>2 DEF InitTypeOK
  <2>4. DOMAIN frames = {} /\ Len(frames) = 0 /\ DOMAIN constructors = {} /\ DOMAIN constructed = {}
    BY <2>1
  <2>5. ~Active /\ ParentsFirst /\ CircularMeansCircular /\ Orderly(constructors, ToSet(constructed))
    BY <2>1, <2>4 DEF Active, ParentsFirst, CircularMeansCircular, Orderly
  <2> QED  BY <2>1, <2>3, <2>4, <2>5 DEF InitInv
<1>2. InitInv /\ [InitNext]_initialising => InitInv'
  BY InitAssumption, InitInduction
<1>3. InitInv => InitialisedInOrder
  BY DEF InitInv, InitialisedInOrder
<1> QED  BY <1>1, <1>2, <1>3, PTL DEF InitSpec

-----------------------------------------------------------------------------
(* The order of destruction *)

Nodes == Objects \cup {Root}
IsGraph(graph) ==
    DOMAIN graph \subseteq Objects /\ \A o \in DOMAIN graph : graph[o] \in Seq(Nodes) /\ graph[o] # <<>>
Circles(graph) ==
    \E set \in SUBSET DOMAIN graph :
        set # {} /\ \A o \in set : \E k \in DOMAIN graph[o] : graph[o][k] \in set
DfsCalls == [of : Objects, n : Nat \ {0}, back : BOOLEAN, max : Nat]
Searches == [visited : [Nodes -> Nat], index : [Nodes -> Nat], found : SUBSET Objects,
             keys : Seq(Objects), stack : Seq(DfsCalls)]

\* An object that dfs is done with: it will not get an index any more.
Over(search, o) ==
    \/ search.visited[o] >= 3
    \/ search.visited[o] = 2 /\ \A i \in DOMAIN search.stack : search.stack[i].of # o

\* What holds between two steps of the search.
OnStack(graph, search) ==
    LET chain == search.stack IN
    /\ \A i \in DOMAIN chain : chain[i].of \in DOMAIN graph /\ search.visited[chain[i].of] >= 1
    /\ \A j \in DOMAIN chain : \A i \in 1..(j - 1) :
          chain[i].of = chain[j].of => search.visited[chain[i].of] >= 2
    /\ \A i \in 1..(Len(chain) - 1) :
          chain[i].n <= Len(graph[chain[i].of]) /\ graph[chain[i].of][chain[i].n] = chain[i + 1].of
Began(graph, search) ==
    \A o \in DOMAIN graph : search.visited[o] = 0 \/ Over(search, o)
                            \/ \E i \in DOMAIN search.stack : search.stack[i].of = o
\* The followers that a call has looked at.
LookedAt(graph, search, i) ==
    \A k \in 1..(search.stack[i].n - 1) :
        LET s == graph[search.stack[i].of][k] IN
        s \in DOMAIN graph => \/ Over(search, s) /\ search.index[s] <= search.stack[i].max
                              \/ k # 1 /\ \E j \in 1..i : search.stack[j].of = s
CameBack(graph, search) ==
    LET call == Last(search.stack) IN
    search.stack # <<>> /\ call.back =>
        /\ call.n <= Len(graph[call.of])
        /\ graph[call.of][call.n] \in DOMAIN graph => Over(search, graph[call.of][call.n])
Indexed(graph, search) ==
    \A o \in search.found :
        /\ o \in DOMAIN graph /\ Over(search, o)
        /\ \A k \in DOMAIN graph[o] :
              graph[o][k] \in DOMAIN graph /\ (k = 1 \/ ~Circles(graph)) =>
                  Over(search, graph[o][k]) /\ search.index[graph[o][k]] < search.index[o]
SearchInv(graph, search) ==
    /\ search \in Searches
    /\ OnStack(graph, search) /\ Began(graph, search) /\ CameBack(graph, search)
    /\ \A i \in DOMAIN search.stack :
          search.stack[i].n <= Len(graph[search.stack[i].of]) + 1 /\ LookedAt(graph, search, i)
    /\ Indexed(graph, search)


\* What is over stays so, and keeps its index.
Keeps(search, next) ==
    \A o \in Nodes : Over(search, o) => Over(next, o) /\ next.index[o] = search.index[o]

\* dfs of an object begins.
LEMMA CallDfsKeeps ==
  ASSUME ObjectsAssumption, NEW graph, IsGraph(graph), NEW search \in Searches, NEW o \in Nodes,
         OnStack(graph, search), Began(graph, search), Indexed(graph, search),
         \A i \in DOMAIN search.stack :
            search.stack[i].n <= Len(graph[search.stack[i].of]) + 1 /\ LookedAt(graph, search, i),
         search.stack # <<>> =>
            LET call == Last(search.stack) IN
            call.n <= Len(graph[call.of]) /\ graph[call.of][call.n] = o
  PROVE  SearchInv(graph, CallDfs(graph, search, o))
<1> DEFINE L == Len(search.stack)
<1>1. /\ search.stack \in Seq(DfsCalls) /\ search.visited \in [Nodes -> Nat] /\ L \in Nat
      /\ search.index \in [Nodes -> Nat] /\ search.found \in SUBSET Objects
      /\ search.keys \in Seq(Objects) /\ DOMAIN search.stack = 1..L
  BY DEF Searches
<1>2. PICK call : call = DfsCall(o)
  OBVIOUS
<1>3. call.of = o /\ call.n = 1 /\ call.back = FALSE /\ (o \in Objects => call \in DfsCalls)
  BY <1>2 DEF DfsCall, DfsCalls
<1>4. PICK seen \in Nat : seen = search.visited[o] + 1
  BY <1>1
<1>5. PICK chain \in Seq(DfsCalls) :
         chain = IF o \in DOMAIN graph THEN Append(search.stack, call) ELSE search.stack
  <2>1. CASE o \in DOMAIN graph
    <3>1. Append(search.stack, call) \in Seq(DfsCalls)
      BY <1>1, <1>3, <2>1 DEF IsGraph
    <3> QED  BY <2>1, <3>1
  <2>2. CASE o \notin DOMAIN graph
    BY <1>1, <2>2
  <2> QED  BY <2>1, <2>2
<1>6. PICK st \in Searches : st = [search EXCEPT !.visited[o] = seen, !.stack = chain]
  BY <1>1 DEF Searches
<1>7. st = CallDfs(graph, search, o)
  BY <1>2, <1>4, <1>5, <1>6 DEF CallDfs, Searches
<1>8. /\ st.visited = [search.visited EXCEPT ![o] = seen] /\ st.index = search.index
      /\ st.found = search.found /\ st.keys = search.keys /\ st.stack = chain
  BY <1>6 DEF Searches
<1>9. /\ \A i \in 1..L : i \in DOMAIN chain /\ chain[i] = search.stack[i]
      /\ o \notin DOMAIN graph => DOMAIN chain = 1..L
      /\ o \in DOMAIN graph => /\ DOMAIN chain = 1..(L + 1) /\ chain[L + 1] = call
                               /\ Len(chain) = L + 1
      /\ DOMAIN chain \subseteq 1..(L + 1)
  BY <1>1, <1>5
<1>10. \A p \in Nodes : st.visited[p] \in Nat /\ search.visited[p] \in Nat
                        /\ st.visited[p] >= search.visited[p] /\ (p # o => st.visited[p] = search.visited[p])
  BY <1>1, <1>4, <1>8
<1>11. Keeps(search, st)
  <2>1. SUFFICES ASSUME NEW p \in Nodes, Over(search, p) PROVE Over(st, p)
    BY <1>8 DEF Keeps
  <2>2. CASE p = o
    BY <1>1, <1>4, <1>8, <2>1, <2>2 DEF Over
  <2>3. CASE p # o
    <3>1. \A i \in DOMAIN chain : chain[i].of = p => i \in 1..L /\ search.stack[i].of = p
      BY <1>1, <1>3, <1>5, <1>9, <2>3
    <3> QED  BY <1>1, <1>8, <1>10, <2>1, <2>3, <3>1 DEF Over
  <2> QED  BY <2>2, <2>3
<1>12. OnStack(graph, st)
  <2>1. \A i \in 1..L : search.stack[i].of \in DOMAIN graph /\ search.visited[search.stack[i].of] >= 1
                        /\ search.stack[i].of \in Nodes
    BY <1>1 DEF OnStack, Nodes, IsGraph
  <2>2. \A i \in DOMAIN chain : chain[i].of \in DOMAIN graph /\ st.visited[chain[i].of] >= 1
    <3>1. ASSUME NEW i \in 1..L
          PROVE  chain[i].of \in DOMAIN graph /\ st.visited[chain[i].of] >= 1
      <4>1. chain[i] = search.stack[i] /\ chain[i].of \in Nodes /\ chain[i].of \in DOMAIN graph
        BY <1>9, <2>1
      <4>2. search.visited[chain[i].of] >= 1
        BY <2>1, <4>1
      <4>3. \A x, y \in Nat : x >= 1 /\ y >= x => y >= 1
        OBVIOUS
      <4> QED  BY <1>10, <4>1, <4>2, <4>3
    <3>2. o \in DOMAIN graph => chain[L + 1].of = o /\ st.visited[o] >= 1
      BY <1>1, <1>3, <1>4, <1>8, <1>9
    <3>3. \A i \in DOMAIN chain : i \in 1..L \/ (i = L + 1 /\ o \in DOMAIN graph)
      BY <1>1, <1>9
    <3> QED  BY <1>3, <1>9, <3>1, <3>2, <3>3
  <2>3. ASSUME NEW j \in DOMAIN chain, NEW i \in 1..(j - 1), chain[i].of = chain[j].of
        PROVE  st.visited[chain[i].of] >= 2
    <3>1. i \in 1..L /\ chain[i] = search.stack[i] /\ i \in Nat /\ j \in Nat
      BY <1>1, <1>9
    <3>2. CASE j \in 1..L
      <4>1. search.visited[search.stack[i].of] >= 2
        BY <1>1, <1>9, <2>3, <3>1, <3>2 DEF OnStack
      <4>2. chain[i].of \in Nodes
        BY <2>1, <3>1
      <4>3. search.visited[chain[i].of] >= 2
        BY <3>1, <4>1
      <4>4. \A x, y \in Nat : x >= 2 /\ y >= x => y >= 2
        OBVIOUS
      <4> QED  BY <1>10, <4>2, <4>3, <4>4
    <3>3. CASE j \notin 1..L
      <4>1. j = L + 1 /\ chain[j] = call /\ o \in DOMAIN graph
        BY <1>1, <1>9, <3>3
      <4>2. search.visited[o] >= 1
        BY <1>3, <2>1, <2>3, <3>1, <4>1
      <4> QED  BY <1>1, <1>3, <1>4, <1>8, <2>3, <4>1, <4>2
    <3> QED  BY <3>2, <3>3
  <2>4. ASSUME NEW i \in 1..(Len(chain) - 1)
        PROVE  chain[i].n <= Len(graph[chain[i].of]) /\ graph[chain[i].of][chain[i].n] = chain[i + 1].of
    <3>1. i \in 1..L /\ chain[i] = search.stack[i]
      BY <1>1, <1>5, <1>9
    <3>2. CASE i < L
      <4>1. i + 1 \in 1..L /\ chain[i + 1] = search.stack[i + 1] /\ i \in 1..(L - 1)
        BY <1>1, <1>9, <3>1, <3>2
      <4> QED  BY <3>1, <4>1 DEF OnStack
    <3>3. CASE i = L
      <4>1. search.stack # <<>> /\ Last(search.stack) = search.stack[L]
        BY <1>1, <3>1, EmptySeq DEF Last
      <4>2. o \in DOMAIN graph /\ chain[L + 1] = call
        BY <1>1, <1>5, <1>9, <3>3
      <4> QED  BY <1>3, <3>1, <3>3, <4>1, <4>2
    <3> QED  BY <1>1, <3>1, <3>2, <3>3
  <2> QED  BY <1>8, <2>2, <2>3, <2>4 DEF OnStack
<1>13. Began(graph, st)
  <2>1. SUFFICES ASSUME NEW p \in DOMAIN graph
                 PROVE  st.visited[p] = 0 \/ Over(st, p) \/ \E i \in DOMAIN chain : chain[i].of = p
    BY <1>8 DEF Began
  <2>2. CASE p = o
    BY <1>1, <1>3, <1>9, <2>2
  <2>3. CASE p # o
    <3>1. p \in Nodes
      BY DEF IsGraph, Nodes
    <3>2. CASE \E i \in DOMAIN search.stack : search.stack[i].of = p
      BY <1>1, <1>9, <3>2
    <3> QED  BY <1>10, <1>11, <2>3, <3>1, <3>2 DEF Began, Keeps
  <2> QED  BY <2>2, <2>3
<1>14. CameBack(graph, st)
  <2>1. CASE o \in DOMAIN graph
    <3>1. chain # <<>> /\ Last(chain) = call
      BY <1>1, <1>9, <2>1, EmptySeq DEF Last
    <3> QED  BY <1>3, <1>8, <3>1 DEF CameBack
  <2>2. CASE o \notin DOMAIN graph
    BY <1>5, <1>8, <2>2 DEF CameBack
  <2> QED  BY <2>1, <2>2
<1>15. ASSUME NEW i \in DOMAIN chain
       PROVE  chain[i].n <= Len(graph[chain[i].of]) + 1 /\ LookedAt(graph, st, i)
  <2>1. CASE i \in 1..L
    <3>1. chain[i] = search.stack[i] /\ chain[i].of \in DOMAIN graph /\ chain[i] \in DfsCalls
      BY <1>1, <1>9, <2>1 DEF OnStack
    <3>2. \A k \in 1..(chain[i].n - 1) : graph[chain[i].of][k] \in Nodes
      <4>1. graph[chain[i].of] \in Seq(Nodes) /\ chain[i].n \in Nat
        BY <3>1 DEF IsGraph, DfsCalls
      <4>2. chain[i].n <= Len(graph[chain[i].of]) + 1
        BY <1>1, <2>1, <3>1
      <4>3. \A k \in 1..(chain[i].n - 1) : k \in 1..Len(graph[chain[i].of])
        BY <4>1, <4>2
      <4> QED  BY <4>1, <4>3
    <3>3. \A j \in 1..i : chain[j] = search.stack[j]
      BY <1>1, <1>9, <2>1
    <3>4. LookedAt(graph, search, i)
      BY <1>1, <2>1
    <3>5. LookedAt(graph, st, i)
      BY <1>8, <1>11, <3>1, <3>2, <3>3, <3>4 DEF LookedAt, Keeps
    <3> QED  BY <1>1, <2>1, <3>1, <3>5
  <2>2. CASE i \notin 1..L
    <3>1. chain[i] = call /\ o \in DOMAIN graph
      BY <1>1, <1>9, <2>2
    <3>2. Len(graph[o]) \in Nat
      BY <3>1 DEF IsGraph
    <3>3. LookedAt(graph, st, i)
      BY <1>3, <1>8, <3>1 DEF LookedAt
    <3> QED  BY <1>3, <3>1, <3>2, <3>3
  <2> QED  BY <2>1, <2>2
<1>16. Indexed(graph, st)
  <2>1. SUFFICES ASSUME NEW p \in search.found
                 PROVE  /\ p \in DOMAIN graph /\ Over(st, p)
                        /\ \A k \in DOMAIN graph[p] :
                              graph[p][k] \in DOMAIN graph /\ (k = 1 \/ ~Circles(graph)) =>
                                  Over(st, graph[p][k]) /\ search.index[graph[p][k]] < search.index[p]
    BY <1>8 DEF Indexed
  <2>2. p \in DOMAIN graph /\ Over(search, p) /\ p \in Nodes
    BY DEF Indexed, IsGraph, Nodes
  <2>3. \A k \in DOMAIN graph[p] : graph[p][k] \in Nodes
    BY <2>2 DEF IsGraph
  <2> QED  BY <1>11, <2>2, <2>3 DEF Indexed, Keeps
<1> QED  BY <1>6, <1>7, <1>8, <1>12, <1>13, <1>14, <1>15, <1>16 DEF SearchInv

\* Another call is on top, of the same object: nothing that was looked at
\* before is forgotten, and the rest of the stack stays.
LEMMA WithCallKeeps ==
  ASSUME ObjectsAssumption, NEW graph, IsGraph(graph), NEW search, SearchInv(graph, search),
         search.stack # <<>>, NEW call \in DfsCalls,
         call.of = Last(search.stack).of, call.n <= Len(graph[call.of]) + 1,
         call.n >= Last(search.stack).n, call.max >= Last(search.stack).max,
         \A k \in 1..(call.n - 1) : k >= Last(search.stack).n =>
             LET s == graph[call.of][k] IN
             s \in DOMAIN graph => \/ Over(search, s) /\ search.index[s] <= call.max
                                   \/ k # 1 /\ \E j \in DOMAIN search.stack : search.stack[j].of = s
  PROVE  LET next == WithCall(search, call) IN
         /\ next \in Searches /\ next.stack # <<>> /\ Last(next.stack) = call
         /\ OnStack(graph, next) /\ Began(graph, next) /\ Indexed(graph, next)
         /\ \A i \in DOMAIN next.stack :
               next.stack[i].n <= Len(graph[next.stack[i].of]) + 1 /\ LookedAt(graph, next, i)
         /\ Keeps(search, next) /\ next.visited = search.visited /\ next.index = search.index
<1> DEFINE L == Len(search.stack)
<1>1. /\ search \in Searches /\ search.stack \in Seq(DfsCalls) /\ search.visited \in [Nodes -> Nat]
      /\ search.index \in [Nodes -> Nat] /\ search.found \in SUBSET Objects
  BY DEF Searches, SearchInv
<1>15. /\ Append(Front(search.stack), call) \in Seq(DfsCalls)
       /\ Len(Append(Front(search.stack), call)) = L
       /\ Append(Front(search.stack), call)[L] = call
       /\ \A i \in 1..(L - 1) : Append(Front(search.stack), call)[i] = search.stack[i]
       /\ Last(search.stack) = search.stack[L] /\ Last(search.stack) \in DfsCalls /\ L \in Nat \ {0}
  <2>1. ASSUME NEW s \in Seq(DfsCalls), s # <<>>, NEW x \in DfsCalls
        PROVE  /\ Append(Front(s), x) \in Seq(DfsCalls) /\ Len(Append(Front(s), x)) = Len(s)
               /\ Append(Front(s), x)[Len(s)] = x
               /\ \A i \in 1..(Len(s) - 1) : Append(Front(s), x)[i] = s[i]
               /\ Last(s) = s[Len(s)] /\ Last(s) \in DfsCalls /\ Len(s) \in Nat \ {0}
    BY <2>1, TopReplaced
  <2> QED  BY <1>1, <2>1, Zenon
<1>2. PICK chain \in Seq(DfsCalls) : chain = Append(Front(search.stack), call)
  BY <1>15, Zenon
<1>3. /\ Len(chain) = L /\ chain[L] = call /\ \A i \in 1..(L - 1) : chain[i] = search.stack[i]
      /\ Last(search.stack) = search.stack[L] /\ L \in Nat \ {0}
  BY <1>2, <1>15, Zenon
<1>16. /\ search.stack[L].n \in Nat \ {0} /\ search.stack[L].max \in Nat
       /\ call.n \in Nat \ {0} /\ call.max \in Nat
  BY <1>3, <1>15 DEF DfsCalls
<1>4. /\ DOMAIN chain = 1..L /\ DOMAIN search.stack = 1..L /\ Last(chain) = call /\ chain # <<>>
      /\ \A i \in 1..L : i = L \/ i \in 1..(L - 1)
  BY <1>1, <1>2, <1>3, EmptySeq DEF Last
<1>5. PICK st \in Searches : st = [search EXCEPT !.stack = chain]
  BY <1>1 DEF Searches
<1>6. st = WithCall(search, call)
  BY <1>2, <1>5 DEF WithCall
<1>7. /\ st.visited = search.visited /\ st.index = search.index /\ st.found = search.found
      /\ st.stack = chain
  BY <1>5 DEF Searches
<1>8. \A i \in 1..L : chain[i].of = search.stack[i].of /\ chain[i].of \in DOMAIN graph
                      /\ chain[i] \in DfsCalls
  <2>1. \A i \in 1..L : search.stack[i].of \in DOMAIN graph
    BY <1>4 DEF SearchInv, OnStack
  <2>2. \A i \in 1..L : chain[i].of = search.stack[i].of /\ chain[i] \in DfsCalls
    BY <1>2, <1>3, <1>4
  <2> QED  BY <2>1, <2>2
<1>9. \A p : Over(search, p) <=> Over(st, p)
  BY <1>4, <1>7, <1>8 DEF Over
<1>10. Keeps(search, st)
  BY <1>7, <1>9 DEF Keeps
<1>11. OnStack(graph, st)
  <2>1. \A i \in DOMAIN chain : chain[i].of \in DOMAIN graph /\ search.visited[chain[i].of] >= 1
    BY <1>4, <1>8 DEF SearchInv, OnStack
  <2>2. \A j \in DOMAIN chain : \A i \in 1..(j - 1) :
           chain[i].of = chain[j].of => search.visited[chain[i].of] >= 2
    <3>1. \A j \in 1..L : \A i \in 1..(j - 1) : i \in 1..L
      BY <1>3
    <3> QED  BY <1>4, <1>8, <3>1 DEF SearchInv, OnStack
  <2>3. \A i \in 1..(L - 1) :
           chain[i].n <= Len(graph[chain[i].of]) /\ graph[chain[i].of][chain[i].n] = chain[i + 1].of
    <3>1. \A i \in 1..(L - 1) : i + 1 \in 1..L
      BY <1>3
    <3> QED  BY <1>3, <1>8, <3>1 DEF SearchInv, OnStack
  <2> QED  BY <1>3, <1>7, <2>1, <2>2, <2>3 DEF OnStack
<1>12. Began(graph, st)
  <2>1. SUFFICES ASSUME NEW p \in DOMAIN graph
                 PROVE  search.visited[p] = 0 \/ Over(st, p) \/ \E i \in 1..L : chain[i].of = p
    BY <1>4, <1>7 DEF Began
  <2> QED  BY <1>4, <1>8, <1>9 DEF SearchInv, Began
<1>13. Indexed(graph, st)
  <2>1. Indexed(graph, search)
    BY DEF SearchInv
  <2> QED  BY <1>7, <1>9, <2>1 DEF Indexed
<1>14. ASSUME NEW i \in 1..L
       PROVE  chain[i].n <= Len(graph[chain[i].of]) + 1 /\ LookedAt(graph, st, i)
  <2>1. LookedAt(graph, search, i) /\ search.stack[i].n <= Len(graph[search.stack[i].of]) + 1
    BY <1>4 DEF SearchInv
  <2>2. 1..i \subseteq 1..L
    BY <1>3
  <2>3. CASE i # L
    <3>1. chain[i] = search.stack[i]
      BY <1>3, <1>4, <2>3
    <3> QED  BY <1>7, <1>8, <1>9, <2>1, <2>2, <3>1 DEF LookedAt
  <2>4. CASE i = L
    <3>1. ASSUME NEW k \in 1..(call.n - 1), graph[call.of][k] \in DOMAIN graph
          PROVE  \/ Over(st, graph[call.of][k]) /\ search.index[graph[call.of][k]] <= call.max
                 \/ k # 1 /\ \E j \in 1..L : chain[j].of = graph[call.of][k]
      <4>1. CASE k >= Last(search.stack).n
        BY <1>4, <1>8, <1>9, <3>1, <4>1
      <4>2. CASE ~(k >= Last(search.stack).n)
        <5>1. k \in 1..(search.stack[L].n - 1)
          BY <1>3, <1>16, <4>2
        <5>2. \/ Over(search, graph[call.of][k])
                 /\ search.index[graph[call.of][k]] <= search.stack[L].max
              \/ k # 1 /\ \E j \in 1..L : search.stack[j].of = graph[call.of][k]
          <6>1. search.stack[L].of = call.of
            BY <1>3
          <6> QED  BY <2>1, <2>4, <3>1, <5>1, <6>1 DEF LookedAt
        <5>3. CASE Over(search, graph[call.of][k]) /\ search.index[graph[call.of][k]] <= search.stack[L].max
          <6>1. search.index[graph[call.of][k]] \in Nat
            BY <1>1, <3>1 DEF IsGraph, Nodes
          <6>2. search.stack[L].max \in Nat /\ call.max \in Nat
            BY <1>16
          <6>3. \A a, b, c \in Nat : a <= b /\ c >= b => a <= c
            OBVIOUS
          <6> QED  BY <1>3, <1>9, <5>3, <6>1, <6>2, <6>3
        <5> QED  BY <1>8, <5>2, <5>3
      <4> QED  BY <4>1, <4>2
    <3>2. chain[i] = call
      BY <1>3, <2>4
    <3>3. LookedAt(graph, st, i)
      BY <1>7, <2>4, <3>1, <3>2 DEF LookedAt
    <3> QED  BY <3>2, <3>3
  <2> QED  BY <2>3, <2>4
<1> QED  BY <1>4, <1>5, <1>6, <1>7, <1>10, <1>11, <1>12, <1>13, <1>14

\* dfs looks at the next follower, and goes there first if it has to.
LEMMA FollowKeeps ==
  ASSUME ObjectsAssumption, NEW graph, IsGraph(graph), NEW search, SearchInv(graph, search),
         search.stack # <<>>, Last(search.stack).n <= Len(graph[Last(search.stack).of])
  PROVE  SearchInv(graph, Follow(graph, search, Last(search.stack)))
<1>1. PICK call \in DfsCalls : call = Last(search.stack) /\ call = search.stack[Len(search.stack)]
                               /\ Len(search.stack) \in DOMAIN search.stack
  <2>1. ASSUME NEW t \in Seq(DfsCalls), t # <<>>
        PROVE  Last(t) \in DfsCalls /\ Last(t) = t[Len(t)] /\ Len(t) \in DOMAIN t
    <3>1. PICK x : x \in DfsCalls
      BY <2>1, EmptySeq
    <3> QED  BY <2>1, <3>1, TopReplaced
  <2>2. search.stack \in Seq(DfsCalls)
    BY DEF SearchInv, Searches
  <2> QED  BY <2>1, <2>2
<1> DEFINE list == graph[call.of]
           n == call.n
<1>2. /\ call.of \in DOMAIN graph /\ list \in Seq(Nodes) /\ n \in Nat \ {0} /\ n \in 1..Len(list)
      /\ Len(list) \in Nat /\ call.max \in Nat /\ call.back \in BOOLEAN /\ call.of \in Objects
  BY <1>1 DEF SearchInv, OnStack, IsGraph, DfsCalls
<1>3. PICK s \in Nodes : s = list[n]
  BY <1>2
<1>4. LookedAt(graph, search, Len(search.stack))
  BY <1>1 DEF SearchInv
<1>5. /\ search.visited \in [Nodes -> Nat] /\ search.index \in [Nodes -> Nat]
      /\ search.visited[s] \in Nat /\ search.index[s] \in Nat
  BY <1>3 DEF SearchInv, Searches
<1>6. CASE Repeats(list, n)
  <2>1. PICK done \in DfsCalls : done = [call EXCEPT !.n = @ + 1, !.back = FALSE]
    <3>1. PICK more \in Nat \ {0} : more = n + 1
      BY <1>2
    <3>2. PICK done \in DfsCalls : done = [call EXCEPT !.n = more, !.back = FALSE]
      BY DEF DfsCalls
    <3> QED  BY <3>1, <3>2 DEF DfsCalls
  <2>2. done.of = call.of /\ done.n = n + 1 /\ done.back = FALSE /\ done.max = call.max
    BY <2>1 DEF DfsCalls
  <2>3. PICK m \in 1..(n - 1) : list[m] = list[n]
    BY <1>6 DEF Repeats
  <2>4. list[n] \in DOMAIN graph => \/ Over(search, list[n]) /\ search.index[list[n]] <= call.max
                                    \/ n # 1 /\ \E j \in DOMAIN search.stack : search.stack[j].of = list[n]
    <3>1. list[m] \in DOMAIN graph =>
             \/ Over(search, list[m]) /\ search.index[list[m]] <= call.max
             \/ m # 1 /\ \E j \in 1..Len(search.stack) : search.stack[j].of = list[m]
      BY <1>1, <1>4 DEF LookedAt
    <3>2. n # 1 /\ 1..Len(search.stack) = DOMAIN search.stack
      BY <1>2, <2>3 DEF SearchInv, Searches
    <3> QED  BY <2>3, <3>1, <3>2
  <2>5. /\ done.n <= Len(list) + 1 /\ done.n >= n /\ done.max >= call.max
        /\ \A k \in 1..(done.n - 1) : k >= n => k = n
    BY <1>2, <2>2
  <2>6. WithCall(search, done) = Follow(graph, search, call)
    BY <1>6, <2>1 DEF Follow
  <2> DEFINE next == WithCall(search, done)
  <2>7. /\ next \in Searches /\ next.stack # <<>> /\ Last(next.stack) = done
        /\ OnStack(graph, next) /\ Began(graph, next) /\ Indexed(graph, next)
        /\ \A i \in DOMAIN next.stack :
              next.stack[i].n <= Len(graph[next.stack[i].of]) + 1 /\ LookedAt(graph, next, i)
    <3>1. /\ done.of = Last(search.stack).of /\ done.n <= Len(graph[done.of]) + 1
          /\ done.n >= Last(search.stack).n /\ done.max >= Last(search.stack).max
      BY <1>1, <2>2, <2>5
    <3>2. \A k \in 1..(done.n - 1) : k >= Last(search.stack).n =>
             LET f == graph[done.of][k] IN
             f \in DOMAIN graph => \/ Over(search, f) /\ search.index[f] <= done.max
                                   \/ k # 1 /\ \E j \in DOMAIN search.stack : search.stack[j].of = f
      BY <1>1, <2>2, <2>4, <2>5
    <3> QED  BY <3>1, <3>2, WithCallKeeps
  <2> HIDE DEF next
  <2>8. CameBack(graph, next)
    BY <2>2, <2>7 DEF CameBack
  <2>9. SearchInv(graph, next)
    BY <2>7, <2>8 DEF SearchInv
  <2> QED  BY <1>1, <2>6, <2>9 DEF next
<1>7. CASE ~Repeats(list, n) /\ ~call.back /\ Descends(n, s, search.visited)
  <2>1. PICK waits \in DfsCalls : waits = [call EXCEPT !.back = TRUE]
    BY <1>2 DEF DfsCalls
  <2>2. waits.of = call.of /\ waits.n = n /\ waits.back = TRUE /\ waits.max = call.max
    BY <2>1 DEF DfsCalls
  <2>3. waits.n <= Len(list) + 1 /\ waits.n >= n /\ waits.max >= call.max
        /\ \A k \in 1..(waits.n - 1) : ~(k >= n)
    BY <1>2, <2>2
  <2>4. CallDfs(graph, WithCall(search, waits), s) = Follow(graph, search, call)
    BY <1>3, <1>7, <2>1 DEF Follow
  <2> DEFINE next == WithCall(search, waits)
  <2>5. /\ next \in Searches /\ next.stack # <<>> /\ Last(next.stack) = waits
        /\ OnStack(graph, next) /\ Began(graph, next) /\ Indexed(graph, next)
        /\ \A i \in DOMAIN next.stack :
              next.stack[i].n <= Len(graph[next.stack[i].of]) + 1 /\ LookedAt(graph, next, i)
    <3>1. /\ waits.of = Last(search.stack).of /\ waits.n <= Len(graph[waits.of]) + 1
          /\ waits.n >= Last(search.stack).n /\ waits.max >= Last(search.stack).max
      BY <1>1, <2>2, <2>3
    <3>2. \A k \in 1..(waits.n - 1) : k >= Last(search.stack).n =>
             LET f == graph[waits.of][k] IN
             f \in DOMAIN graph => \/ Over(search, f) /\ search.index[f] <= waits.max
                                   \/ k # 1 /\ \E j \in DOMAIN search.stack : search.stack[j].of = f
      BY <1>1, <2>2, <2>3
    <3> QED  BY <3>1, <3>2, WithCallKeeps
  <2> HIDE DEF next
  <2>6. Last(next.stack).n <= Len(graph[Last(next.stack).of])
        /\ graph[Last(next.stack).of][Last(next.stack).n] = s
    BY <1>2, <1>3, <2>2, <2>5
  <2>7. SearchInv(graph, CallDfs(graph, next, s))
    BY <2>5, <2>6, CallDfsKeeps
  <2> QED  BY <1>1, <2>4, <2>7 DEF next
<1>8. CASE ~Repeats(list, n) /\ ~(~call.back /\ Descends(n, s, search.visited))
  <2>1. PICK max \in Nat : max = IF call.max < search.index[s] THEN search.index[s] ELSE call.max
    BY <1>2, <1>5
  <2>2. max >= call.max /\ search.index[s] <= max
    BY <1>2, <1>5, <2>1
  <2>3. PICK done \in DfsCalls : done = [call EXCEPT !.n = n + 1, !.back = FALSE, !.max = max]
    <3>1. PICK more \in Nat \ {0} : more = n + 1
      BY <1>2
    <3>2. PICK done \in DfsCalls : done = [call EXCEPT !.n = more, !.back = FALSE, !.max = max]
      BY DEF DfsCalls
    <3> QED  BY <3>1, <3>2
  <2>4. done.of = call.of /\ done.n = n + 1 /\ done.back = FALSE /\ done.max = max
    BY <2>3 DEF DfsCalls
  <2>5. s \in DOMAIN graph => \/ Over(search, s)
                              \/ n # 1 /\ \E j \in DOMAIN search.stack : search.stack[j].of = s
    <3>1. CASE call.back
      <4>1. s \in DOMAIN graph => Over(search, s)
        BY <1>1, <1>3, <3>1 DEF SearchInv, CameBack
      <4> QED  BY <4>1
    <3>2. CASE ~call.back
      <4>1. n # 1 /\ search.visited[s] # 0
        BY <1>8, <3>2 DEF Descends
      <4>2. s \in DOMAIN graph => Over(search, s) \/ \E j \in DOMAIN search.stack : search.stack[j].of = s
        BY <4>1 DEF SearchInv, Began
      <4> QED  BY <4>1, <4>2
    <3> QED  BY <3>1, <3>2
  <2>6. /\ done.n <= Len(list) + 1 /\ done.n >= n /\ done.max >= call.max
        /\ \A k \in 1..(done.n - 1) : k >= n => k = n
    BY <1>2, <2>2, <2>4
  <2>7. WithCall(search, done) = Follow(graph, search, call)
    <3>1. done = [[call EXCEPT !.n = @ + 1, !.back = FALSE] EXCEPT
                     !.max = IF @ < search.index[s] THEN search.index[s] ELSE @]
      BY <1>1, <2>1, <2>3 DEF DfsCalls
    <3> QED  BY <1>3, <1>8, <3>1 DEF Follow
  <2> DEFINE next == WithCall(search, done)
  <2>8. /\ next \in Searches /\ next.stack # <<>> /\ Last(next.stack) = done
        /\ OnStack(graph, next) /\ Began(graph, next) /\ Indexed(graph, next)
        /\ \A i \in DOMAIN next.stack :
              next.stack[i].n <= Len(graph[next.stack[i].of]) + 1 /\ LookedAt(graph, next, i)
    <3>1. /\ done.of = Last(search.stack).of /\ done.n <= Len(graph[done.of]) + 1
          /\ done.n >= Last(search.stack).n /\ done.max >= Last(search.stack).max
      BY <1>1, <2>4, <2>6
    <3>2. \A k \in 1..(done.n - 1) : k >= Last(search.stack).n =>
             LET f == graph[done.of][k] IN
             f \in DOMAIN graph => \/ Over(search, f) /\ search.index[f] <= done.max
                                   \/ k # 1 /\ \E j \in DOMAIN search.stack : search.stack[j].of = f
      BY <1>1, <1>3, <2>2, <2>4, <2>5, <2>6
    <3> QED  BY <3>1, <3>2, WithCallKeeps
  <2> HIDE DEF next
  <2>9. CameBack(graph, next)
    BY <2>4, <2>8 DEF CameBack
  <2>10. SearchInv(graph, next)
    BY <2>8, <2>9 DEF SearchInv
  <2> QED  BY <1>1, <2>7, <2>10 DEF next
<1> QED  BY <1>6, <1>7, <1>8

\* The calls from the one of an object to the last are a circle, if the last
\* of them has that object among its followers.
LEMMA CircleOnStack ==
  ASSUME NEW graph, IsGraph(graph), NEW search, SearchInv(graph, search),
         NEW j \in DOMAIN search.stack,
         NEW k \in DOMAIN graph[Last(search.stack).of],
         graph[Last(search.stack).of][k] = search.stack[j].of
  PROVE  Circles(graph)
<1> DEFINE chain == search.stack
           L == Len(chain)
<1>1. /\ chain \in Seq(DfsCalls) /\ L \in Nat /\ DOMAIN chain = 1..L /\ Last(chain) = chain[L]
      /\ j \in 1..L /\ L \in 1..L
  BY DEF SearchInv, Searches, Last
<1>2. PICK set : set = {chain[i].of : i \in j..L}
  OBVIOUS
<1>3. set \in SUBSET DOMAIN graph
  <2>1. \A i \in j..L : i \in 1..L
    BY <1>1
  <2>2. \A i \in 1..L : chain[i].of \in DOMAIN graph
    BY <1>1 DEF SearchInv, OnStack
  <2> QED  BY <1>2, <2>1, <2>2
<1>4. chain[j].of \in set
  BY <1>1, <1>2
<1>5. ASSUME NEW i \in j..L PROVE \E m \in DOMAIN graph[chain[i].of] : graph[chain[i].of][m] \in set
  <2>1. CASE i = L
    BY <1>1, <1>4, <2>1
  <2>2. CASE i # L
    <3>1. i \in 1..(L - 1) /\ i + 1 \in j..L /\ i \in 1..L
      BY <1>1, <2>2
    <3>2. chain[i].n <= Len(graph[chain[i].of]) /\ graph[chain[i].of][chain[i].n] = chain[i + 1].of
      BY <1>1, <3>1 DEF SearchInv, OnStack
    <3>3. chain[i].n \in Nat \ {0} /\ chain[i].of \in DOMAIN graph
      <4>1. chain[i] \in DfsCalls
        BY <1>1, <3>1
      <4> QED  BY <1>1, <3>1, <4>1 DEF DfsCalls, SearchInv, OnStack
    <3>4. chain[i].n \in DOMAIN graph[chain[i].of]
      BY <3>2, <3>3 DEF IsGraph
    <3> QED  BY <1>2, <3>1, <3>2, <3>4
  <2> QED  BY <2>1, <2>2
<1>6. \A o \in set : \E m \in DOMAIN graph[o] : graph[o][m] \in set
  BY <1>2, <1>5
<1> QED  BY <1>3, <1>4, <1>6 DEF Circles

\* dfs returns: its object gets an index above those of its followers, unless
\* another call is to give it one, or has.
LEMMA FinishKeeps ==
  ASSUME ObjectsAssumption, NEW graph, IsGraph(graph), NEW search, SearchInv(graph, search),
         search.stack # <<>>, ~(Last(search.stack).n <= Len(graph[Last(search.stack).of]))
  PROVE  SearchInv(graph, Finish(search, Last(search.stack)))
<1> DEFINE L == Len(search.stack)
<1>1. /\ search \in Searches /\ search.stack \in Seq(DfsCalls) /\ search.visited \in [Nodes -> Nat]
      /\ search.index \in [Nodes -> Nat] /\ search.found \in SUBSET Objects
      /\ search.keys \in Seq(Objects)
  BY DEF Searches, SearchInv
<1>2. PICK chain \in Seq(DfsCalls) : chain = Front(search.stack)
  <2>1. ASSUME NEW t \in Seq(DfsCalls), t # <<>> PROVE Front(t) \in Seq(DfsCalls)
    <3>1. PICK x : x \in DfsCalls
      BY <2>1, EmptySeq
    <3> QED  BY <2>1, <3>1, TopReplaced
  <2> QED  BY <1>1, <2>1
<1>3. PICK call \in DfsCalls : call = Last(search.stack)
  <2>1. ASSUME NEW t \in Seq(DfsCalls), t # <<>> PROVE Last(t) \in DfsCalls
    BY <2>1, EmptySeq DEF Last
  <2> QED  BY <1>1, <2>1
<1>4. /\ Len(chain) = L - 1 /\ \A i \in 1..(L - 1) : chain[i] = search.stack[i]
      /\ call = search.stack[L] /\ L \in Nat \ {0}
  <2>1. ASSUME NEW t \in Seq(DfsCalls), t # <<>>
        PROVE  /\ Len(Front(t)) = Len(t) - 1 /\ \A i \in 1..(Len(t) - 1) : Front(t)[i] = t[i]
               /\ Last(t) = t[Len(t)] /\ Len(t) \in Nat \ {0}
    <3>1. PICK x : x \in DfsCalls
      BY <2>1, EmptySeq
    <3> QED  BY <2>1, <3>1, TopReplaced
  <2> QED  BY <1>1, <1>2, <1>3, <2>1
<1>5. /\ DOMAIN chain = 1..(L - 1) /\ DOMAIN search.stack = 1..L /\ L \in 1..L
      /\ \A i \in 1..L : i = L \/ i \in 1..(L - 1)
      /\ \A i \in 1..(L - 1) : i \in 1..L
  BY <1>1, <1>2, <1>4
<1> DEFINE o == call.of
           list == graph[o]
<1>6. /\ o \in DOMAIN graph /\ o \in Objects /\ o \in Nodes /\ list \in Seq(Nodes)
      /\ search.visited[o] \in Nat /\ search.visited[o] >= 1
      /\ \A i \in 1..(L - 1) : search.stack[i].of = o => search.visited[o] >= 2
      /\ call.n = Len(list) + 1 /\ call.max \in Nat
  <2>1. o \in DOMAIN graph /\ search.visited[o] >= 1 /\ call.n <= Len(list) + 1
    <3>1. call = search.stack[L] /\ L \in DOMAIN search.stack
      BY <1>4, <1>5
    <3> QED  BY <3>1 DEF SearchInv, OnStack
  <2>2. \A i \in 1..(L - 1) : search.stack[i].of = o => search.visited[o] >= 2
    <3>1. call = search.stack[L] /\ L \in DOMAIN search.stack
      BY <1>4, <1>5
    <3>2. \A i \in 1..(L - 1) : search.stack[i].of = search.stack[L].of => search.visited[search.stack[i].of] >= 2
      BY <3>1 DEF SearchInv, OnStack
    <3> QED  BY <3>1, <3>2
  <2>3. o \in Objects /\ o \in Nodes /\ list \in Seq(Nodes) /\ Len(list) \in Nat
    BY <2>1 DEF IsGraph, Nodes
  <2>4. call.n \in Nat /\ call.max \in Nat
    BY DEF DfsCalls
  <2> QED  BY <1>1, <1>3, <2>1, <2>2, <2>3, <2>4
<1>7. PICK st \in Searches :
         /\ search.visited[o] > 2 => st = [search EXCEPT !.stack = chain]
         /\ ~(search.visited[o] > 2) =>
               st = [search EXCEPT !.stack = chain, !.visited[o] = @ + 1,
                                   !.index[o] = call.max + 1, !.found = @ \cup {o}]
  <2>1. PICK more \in Nat : more = search.visited[o] + 1
    BY <1>6
  <2>2. PICK above \in Nat : above = call.max + 1
    BY <1>6
  <2>3. [search EXCEPT !.stack = chain] \in Searches
    BY <1>1 DEF Searches
  <2>4. [search EXCEPT !.stack = chain, !.visited[o] = more, !.index[o] = above, !.found = @ \cup {o}]
           \in Searches
    BY <1>1, <1>6 DEF Searches
  <2>5. [search EXCEPT !.stack = chain, !.visited[o] = more, !.index[o] = above, !.found = @ \cup {o}]
        = [search EXCEPT !.stack = chain, !.visited[o] = @ + 1,
                         !.index[o] = call.max + 1, !.found = @ \cup {o}]
    BY <1>1, <2>1, <2>2 DEF Searches
  <2> QED  BY <2>3, <2>4, <2>5
<1>8. st = Finish(search, call)
  BY <1>2, <1>7 DEF Finish
<1>9. st.stack = chain /\ st.keys = search.keys
  BY <1>7 DEF Searches
<1>10. /\ \A p \in Nodes : p # o => st.visited[p] = search.visited[p] /\ st.index[p] = search.index[p]
       /\ st.visited[o] = (IF search.visited[o] > 2 THEN search.visited[o] ELSE search.visited[o] + 1)
       /\ search.visited[o] > 2 => st.index[o] = search.index[o] /\ st.found = search.found
       /\ ~(search.visited[o] > 2) =>
             st.index[o] = call.max + 1 /\ st.found = search.found \cup {o}
  <2>1. CASE search.visited[o] > 2
    <3>1. st.visited = search.visited /\ st.index = search.index /\ st.found = search.found
      BY <1>7, <2>1 DEF Searches
    <3> QED  BY <2>1, <3>1
  <2>2. CASE ~(search.visited[o] > 2)
    <3>1. /\ st.visited = [search.visited EXCEPT ![o] = @ + 1]
          /\ st.index = [search.index EXCEPT ![o] = call.max + 1]
          /\ st.found = search.found \cup {o}
      BY <1>1, <1>7, <2>2 DEF Searches
    <3> QED  BY <1>1, <1>6, <2>2, <3>1
  <2> QED  BY <2>1, <2>2
<1>11. Over(st, o)
  <2>1. CASE search.visited[o] = 1
    <3>1. st.visited[o] = 2
      BY <1>10, <2>1
    <3>2. \A i \in 1..(L - 1) : chain[i].of # o
      BY <1>4, <1>6, <2>1
    <3> QED  BY <1>5, <1>9, <3>1, <3>2 DEF Over
  <2>2. CASE search.visited[o] # 1
    <3>1. st.visited[o] >= 3
      BY <1>6, <1>10, <2>2
    <3> QED  BY <3>1 DEF Over
  <2> QED  BY <2>1, <2>2
<1>12. Over(search, o) => search.visited[o] > 2
  <2>1. L \in DOMAIN search.stack /\ search.stack[L].of = o
    BY <1>4, <1>5
  <2>2. \A n \in Nat : n >= 3 => n > 2
    OBVIOUS
  <2> QED  BY <1>6, <2>1, <2>2 DEF Over
<1>13. Keeps(search, st)
  <2>1. SUFFICES ASSUME NEW p \in Nodes, Over(search, p)
                 PROVE  Over(st, p) /\ st.index[p] = search.index[p]
    BY DEF Keeps
  <2>2. CASE p = o
    BY <1>10, <1>11, <1>12, <2>1, <2>2
  <2>3. CASE p # o
    <3>1. \A i \in DOMAIN chain : chain[i] = search.stack[i] /\ i \in DOMAIN search.stack
      BY <1>4, <1>5
    <3> QED  BY <1>9, <1>10, <2>1, <2>3, <3>1 DEF Over
  <2> QED  BY <2>2, <2>3
<1>14. OnStack(graph, st)
  <2>1. \A i \in 1..(L - 1) : chain[i].of \in DOMAIN graph /\ chain[i].of \in Nodes
    BY <1>4, <1>5 DEF SearchInv, OnStack, IsGraph, Nodes
  <2>2. \A p \in Nodes : st.visited[p] >= search.visited[p] /\ st.visited[p] \in Nat /\ search.visited[p] \in Nat
    <3>1. st.visited[o] \in Nat /\ st.visited[o] >= search.visited[o]
      BY <1>6, <1>10
    <3>2. \A p \in Nodes : search.visited[p] \in Nat /\ search.visited[p] >= search.visited[p]
      BY <1>1
    <3> QED  BY <1>10, <3>1, <3>2
  <2>3. \A x, y \in Nat : (x >= 1 /\ y >= x => y >= 1) /\ (x >= 2 /\ y >= x => y >= 2)
    OBVIOUS
  <2>4. ASSUME NEW i \in 1..(L - 1) PROVE st.visited[chain[i].of] >= 1
    <3>1. search.visited[chain[i].of] >= 1
      BY <1>4, <1>5 DEF SearchInv, OnStack
    <3> QED  BY <2>1, <2>2, <2>3, <3>1
  <2>5. ASSUME NEW j \in 1..(L - 1), NEW i \in 1..(j - 1), chain[i].of = chain[j].of
        PROVE  st.visited[chain[i].of] >= 2
    <3>1. i \in 1..(L - 1) /\ j \in DOMAIN search.stack
      BY <1>4, <1>5
    <3>2. search.visited[chain[i].of] >= 2
      BY <1>4, <2>5, <3>1 DEF SearchInv, OnStack
    <3> QED  BY <2>1, <2>2, <2>3, <3>1, <3>2
  <2>6. ASSUME NEW i \in 1..(L - 1 - 1)
        PROVE  chain[i].n <= Len(graph[chain[i].of]) /\ graph[chain[i].of][chain[i].n] = chain[i + 1].of
    <3>1. i \in 1..(L - 1) /\ i + 1 \in 1..(L - 1)
      BY <1>4
    <3> QED  BY <1>4, <3>1 DEF SearchInv, OnStack
  <2> QED  BY <1>4, <1>5, <1>9, <2>1, <2>4, <2>5, <2>6 DEF OnStack
<1>15. Began(graph, st)
  <2>1. SUFFICES ASSUME NEW p \in DOMAIN graph, p # o
                 PROVE  st.visited[p] = 0 \/ Over(st, p) \/ \E i \in DOMAIN chain : chain[i].of = p
    BY <1>9, <1>11 DEF Began
  <2>2. p \in Nodes
    BY DEF IsGraph, Nodes
  <2>3. CASE search.visited[p] = 0
    BY <1>10, <2>1, <2>2, <2>3
  <2>4. CASE Over(search, p)
    BY <1>13, <2>2, <2>4 DEF Keeps
  <2>5. CASE \E i \in DOMAIN search.stack : search.stack[i].of = p
    BY <1>4, <1>5, <2>1, <2>5
  <2> QED  BY <2>3, <2>4, <2>5 DEF SearchInv, Began
<1>16. CameBack(graph, st)
  <2>1. SUFFICES ASSUME chain # <<>>
                 PROVE  /\ Last(chain).n <= Len(graph[Last(chain).of])
                        /\ graph[Last(chain).of][Last(chain).n] = o
    BY <1>9, <1>11 DEF CameBack
  <2>2. L - 1 \in 1..(L - 1) /\ Last(chain) = search.stack[L - 1] /\ L - 1 + 1 = L
    <3>1. L - 1 # 0
      BY <1>2, <1>4, <2>1, EmptySeq
    <3>2. L - 1 \in 1..(L - 1) /\ L - 1 + 1 = L
      <4>1. \A m \in Nat \ {0} : m - 1 # 0 => m - 1 \in 1..(m - 1) /\ m - 1 + 1 = m
        OBVIOUS
      <4> QED  BY <1>4, <3>1, <4>1
    <3>3. Last(chain) = chain[L - 1]
      BY <1>4 DEF Last
    <3> QED  BY <1>4, <3>2, <3>3
  <2> QED  BY <1>4, <2>2 DEF SearchInv, OnStack
<1>17. ASSUME NEW i \in DOMAIN chain
       PROVE  chain[i].n <= Len(graph[chain[i].of]) + 1 /\ LookedAt(graph, st, i)
  <2>1. i \in 1..(L - 1) /\ i \in DOMAIN search.stack /\ chain[i] = search.stack[i] /\ chain[i] \in DfsCalls
    BY <1>4, <1>5
  <2>2. chain[i].n <= Len(graph[chain[i].of]) + 1 /\ LookedAt(graph, search, i)
        /\ chain[i].of \in DOMAIN graph
    BY <2>1 DEF SearchInv, OnStack
  <2>3. \A k \in 1..(chain[i].n - 1) : graph[chain[i].of][k] \in Nodes
    <3>1. graph[chain[i].of] \in Seq(Nodes) /\ chain[i].n \in Nat
      BY <2>1, <2>2 DEF IsGraph, DfsCalls
    <3>2. \A k \in 1..(chain[i].n - 1) : k \in 1..Len(graph[chain[i].of])
      BY <2>2, <3>1
    <3> QED  BY <3>1, <3>2
  <2>4. \A j \in 1..i : chain[j] = search.stack[j]
    BY <1>4, <2>1
  <2>5. LookedAt(graph, st, i)
    BY <1>9, <1>13, <2>1, <2>2, <2>3, <2>4 DEF LookedAt, Keeps
  <2> QED  BY <2>2, <2>5
<1>18. ASSUME NEW p \in search.found
       PROVE  /\ p \in DOMAIN graph /\ Over(st, p) /\ st.index[p] = search.index[p]
              /\ \A k \in DOMAIN graph[p] :
                    graph[p][k] \in DOMAIN graph /\ (k = 1 \/ ~Circles(graph)) =>
                        Over(st, graph[p][k]) /\ st.index[graph[p][k]] < st.index[p]
  <2>1. p \in DOMAIN graph /\ Over(search, p) /\ p \in Nodes
    BY DEF SearchInv, Indexed, IsGraph, Nodes
  <2>2. \A k \in DOMAIN graph[p] : graph[p][k] \in Nodes
    BY <2>1 DEF IsGraph
  <2>3. Over(st, p) /\ st.index[p] = search.index[p]
    BY <1>13, <2>1 DEF Keeps
  <2>4. ASSUME NEW k \in DOMAIN graph[p], graph[p][k] \in DOMAIN graph, k = 1 \/ ~Circles(graph)
        PROVE  Over(st, graph[p][k]) /\ st.index[graph[p][k]] < st.index[p]
    <3>1. Over(search, graph[p][k]) /\ search.index[graph[p][k]] < search.index[p]
      BY <2>4 DEF SearchInv, Indexed
    <3>2. Over(st, graph[p][k]) /\ st.index[graph[p][k]] = search.index[graph[p][k]]
      BY <1>13, <2>2, <3>1 DEF Keeps
    <3> QED  BY <2>3, <3>1, <3>2
  <2> QED  BY <2>1, <2>3, <2>4
<1>19. ASSUME ~(search.visited[o] > 2), NEW k \in DOMAIN list, list[k] \in DOMAIN graph,
              k = 1 \/ ~Circles(graph)
       PROVE  Over(st, list[k]) /\ st.index[list[k]] < st.index[o]
  <2>1. k \in 1..(call.n - 1) /\ list[k] \in Nodes
    BY <1>6
  <2>2. \/ Over(search, list[k]) /\ search.index[list[k]] <= call.max
        \/ k # 1 /\ \E j \in 1..L : search.stack[j].of = list[k]
    <3>1. LookedAt(graph, search, L) /\ search.stack[L] = call
      BY <1>4, <1>5 DEF SearchInv
    <3> QED  BY <1>19, <2>1, <3>1 DEF LookedAt
  <2>3. CASE Over(search, list[k]) /\ search.index[list[k]] <= call.max
    <3>1. Over(st, list[k]) /\ st.index[list[k]] = search.index[list[k]]
      BY <1>13, <2>1, <2>3 DEF Keeps
    <3>2. st.index[o] = call.max + 1 /\ call.max \in Nat /\ search.index[list[k]] \in Nat
      BY <1>1, <1>6, <1>10, <1>19, <2>1
    <3> QED  BY <2>3, <3>1, <3>2
  <2>4. CASE k # 1 /\ \E j \in 1..L : search.stack[j].of = list[k]
    <3>1. PICK j \in DOMAIN search.stack : search.stack[j].of = list[k]
      BY <1>5, <2>4
    <3>2. k \in DOMAIN graph[Last(search.stack).of]
          /\ graph[Last(search.stack).of][k] = search.stack[j].of
      BY <1>3, <3>1
    <3>3. Circles(graph)
      BY <3>2, CircleOnStack
    <3> QED  BY <1>19, <2>4, <3>3
  <2> QED  BY <2>2, <2>3, <2>4
<1>20. Indexed(graph, st)
  <2>1. \A p \in st.found : p \in search.found \/ (p = o /\ ~(search.visited[o] > 2))
    <3>1. CASE search.visited[o] > 2
      BY <1>10, <3>1
    <3>2. CASE ~(search.visited[o] > 2)
      BY <1>10, <3>2
    <3> QED  BY <3>1, <3>2
  <2> QED  BY <1>6, <1>11, <1>18, <1>19, <2>1 DEF Indexed
<1> QED  BY <1>3, <1>7, <1>8, <1>9, <1>14, <1>15, <1>16, <1>17, <1>20 DEF SearchInv

\* A step of the search.
LEMMA DfsStepKeeps ==
  ASSUME ObjectsAssumption, NEW graph, IsGraph(graph), NEW search, SearchInv(graph, search)
  PROVE  SearchInv(graph, DfsStep(graph, search))
<1>1. CASE search.stack # <<>>
  <2>1. CASE Last(search.stack).n <= Len(graph[Last(search.stack).of])
    <3>1. DfsStep(graph, search) = Follow(graph, search, Last(search.stack))
      BY <1>1, <2>1 DEF DfsStep
    <3> QED  BY <1>1, <2>1, <3>1, FollowKeeps
  <2>2. CASE ~(Last(search.stack).n <= Len(graph[Last(search.stack).of]))
    <3>1. DfsStep(graph, search) = Finish(search, Last(search.stack))
      BY <1>1, <2>2 DEF DfsStep
    <3> QED  BY <1>1, <2>2, <3>1, FinishKeeps
  <2> QED  BY <2>1, <2>2
<1>2. CASE search.stack = <<>> /\ search.keys = <<>>
  BY <1>2 DEF DfsStep
<1>3. CASE search.stack = <<>> /\ search.keys # <<>>
  <2>1. /\ search \in Searches /\ search.keys \in Seq(Objects)
    BY DEF SearchInv, Searches
  <2>2. Tail(search.keys) \in Seq(Objects) /\ Head(search.keys) \in Nodes
    BY <1>3, <2>1, EmptySeq DEF Nodes
  <2>3. PICK o \in Nodes : o = Head(search.keys)
    BY <2>2
  <2>4. PICK rest \in Searches : rest = [search EXCEPT !.keys = Tail(@)]
    BY <2>1, <2>2 DEF Searches
  <2>5. /\ rest.visited = search.visited /\ rest.index = search.index
        /\ rest.found = search.found /\ rest.stack = <<>>
    BY <1>3, <2>1, <2>4 DEF Searches
  <2>6. OnStack(graph, rest) /\ Began(graph, rest) /\ Indexed(graph, rest) /\ CameBack(graph, rest)
    <3>1. \A p : Over(search, p) <=> Over(rest, p)
      BY <1>3, <2>5 DEF Over
    <3>2. OnStack(graph, search) /\ Began(graph, search) /\ Indexed(graph, search)
      BY DEF SearchInv
    <3>3. OnStack(graph, rest)
      BY <1>3, <2>5, <3>2 DEF OnStack
    <3>4. Began(graph, rest)
      BY <1>3, <2>5, <3>1, <3>2 DEF Began
    <3>5. Indexed(graph, rest)
      BY <2>5, <3>1, <3>2 DEF Indexed
    <3>6. CameBack(graph, rest)
      BY <2>5 DEF CameBack
    <3> QED  BY <3>3, <3>4, <3>5, <3>6
  <2>7. \A i \in DOMAIN rest.stack :
           rest.stack[i].n <= Len(graph[rest.stack[i].of]) + 1 /\ LookedAt(graph, rest, i)
    BY <2>5
  <2>8. DfsStep(graph, search) = IF search.visited[o] = 0 THEN CallDfs(graph, rest, o) ELSE rest
    BY <1>3, <2>3, <2>4 DEF DfsStep, NextKey
  <2>9. CASE search.visited[o] = 0
    BY <2>5, <2>6, <2>7, <2>8, <2>9, CallDfsKeeps
  <2>10. CASE search.visited[o] # 0
    BY <2>6, <2>7, <2>8, <2>10 DEF SearchInv
  <2> QED  BY <2>9, <2>10
<1> QED  BY <1>1, <1>2, <1>3

\* Values of S that follow from one another, as a function.
Iterates(g, S, N, first, step) ==
    g \in [0..N -> S] /\ g[0] = first /\ \A k \in 1..N : g[k] = step[g[k - 1]]
LEMMA Iterated ==
  ASSUME NEW S, NEW first \in S, NEW step \in [S -> S], NEW N \in Nat
  PROVE  \E g : Iterates(g, S, N, first, step)
<1> DEFINE Fits(n, g) == g \in [0..n -> S] /\ g[0] = first /\ \A k \in 1..n : g[k] = step[g[k - 1]]
           Bad == {n \in 0..N : ~ \E g : Fits(n, g)}
<1>1. Bad = {}
  <2>1. SUFFICES ASSUME Bad # {} PROVE FALSE
    OBVIOUS
  <2>2. Bad \in SUBSET Nat
    OBVIOUS
  <2>3. PICK n \in Bad : \A m \in Bad : n <= m
    <3> HIDE DEF Bad
    <3> QED  BY <2>1, <2>2, LeastNatural
  <2>4. n \in 0..N /\ n \in Nat /\ ~ \E g : Fits(n, g)
    <3> HIDE DEF Fits
    <3> QED  BY <2>3
  <2>5. CASE n = 0
    <3>1. PICK g : g = [k \in 0..0 |-> first]
      OBVIOUS
    <3>2. Fits(0, g)
      BY <3>1
    <3> QED  BY <2>4, <2>5, <3>2
  <2>6. CASE n # 0
    <3>1. n - 1 \in 0..N /\ n - 1 \in Nat /\ ~(n <= n - 1)
      BY <2>4, <2>6
    <3>2. n - 1 \notin Bad
      BY <2>3, <3>1
    <3>3. PICK g : Fits(n - 1, g)
      BY <3>1, <3>2
    <3>4. PICK x \in S : x = step[g[n - 1]]
      BY <3>1, <3>3
    <3>5. PICK h : h = [k \in 0..n |-> IF k = n THEN x ELSE g[k]]
      OBVIOUS
    <3>6. h \in [0..n -> S] /\ h[0] = first
      BY <2>4, <2>6, <3>3, <3>5
    <3>7. \A k \in 1..n : h[k] = step[h[k - 1]]
      <4>1. h[n] = x /\ h[n - 1] = g[n - 1]
        BY <2>4, <3>1, <3>5
      <4>2. \A k \in 1..(n - 1) : h[k] = g[k] /\ h[k - 1] = g[k - 1] /\ g[k] = step[g[k - 1]]
        BY <2>4, <3>3, <3>5
      <4>3. \A k \in 1..n : k = n \/ k \in 1..(n - 1)
        BY <2>4
      <4> QED  BY <3>4, <4>1, <4>2, <4>3
    <3>8. Fits(n, h)
      BY <3>6, <3>7
    <3> QED  BY <2>4, <3>8
  <2> QED  BY <2>5, <2>6
<1>2. PICK g : Fits(N, g)
  BY <1>1
<1> QED  BY <1>2 DEF Iterates

\* The search ends in a state in which all indices are right.
LEMMA SearchIsRight ==
  ASSUME ObjectsAssumption, NEW graph, IsGraph(graph), NEW keys \in Seq(Objects)
  PROVE  SearchInv(graph, Topological(graph, keys))
<1> DEFINE N == MaxDfsSteps
           none == [o \in Objects \cup {Root} |-> 0]
           start == [visited |-> none, index |-> none, found |-> {}, keys |-> keys, stack |-> <<>>]
           S == {s \in Searches : SearchInv(graph, s)}
           search == CHOOSE f : f = [n \in 0..N |-> IF n = 0 THEN start ELSE DfsStep(graph, f[n - 1])]
<1>1. N \in Nat
  <2>1. Cardinality(Objects) \in Nat /\ MaxSubscriptions \in Nat
    BY FS_CardinalityType DEF ObjectsAssumption
  <2>2. \A a, b \in Nat : a * b \in Nat /\ a + b \in Nat
    OBVIOUS
  <2> QED  BY <2>1, <2>2 DEF MaxDfsSteps
<1>2. start \in S
  <2>1. start \in Searches
    BY DEF Searches, Nodes
  <2>2. OnStack(graph, start) /\ CameBack(graph, start) /\ Indexed(graph, start)
    BY DEF OnStack, CameBack, Indexed
  <2>3. Began(graph, start)
    BY DEF Began, IsGraph
  <2> QED  BY <2>1, <2>2, <2>3 DEF SearchInv
<1>3. \A s \in S : DfsStep(graph, s) \in S
  <2>1. ASSUME NEW s \in S PROVE DfsStep(graph, s) \in S
    <3>1. SearchInv(graph, DfsStep(graph, s))
      BY DfsStepKeeps
    <3> QED  BY <3>1 DEF SearchInv
  <2> QED  BY <2>1
<1>14. PICK all : all = S
  OBVIOUS
<1>4. PICK step \in [all -> all] : step = [s \in S |-> DfsStep(graph, s)]
  BY <1>3, <1>14
<1> HIDE DEF S, start, N
<1>5. PICK g \in [0..N -> S] : \A k \in 0..N : g[k] = IF k = 0 THEN start ELSE step[g[k - 1]]
  <2>1. ASSUME NEW M \in Nat, NEW first \in all PROVE \E g : Iterates(g, all, M, first, step)
    BY <1>4, Iterated
  <2>2. PICK g : Iterates(g, all, N, start, step)
    BY <1>1, <1>2, <1>14, <2>1
  <2>3. \A k \in 0..N : k = 0 \/ k \in 1..N
    BY <1>1
  <2> QED  BY <1>14, <2>2, <2>3 DEF Iterates
<1>6. \A k \in 0..N : g[k] = IF k = 0 THEN start ELSE DfsStep(graph, g[k - 1])
  <2>1. \A k \in 0..N : k = 0 \/ k - 1 \in 0..N
    BY <1>1
  <2>2. \A k \in 0..N : k # 0 => g[k - 1] \in S
    BY <1>5, <2>1
  <2> QED  BY <1>4, <1>5, <1>14, <2>1, <2>2
<1>7. g = [k \in 0..N |-> IF k = 0 THEN start ELSE DfsStep(graph, g[k - 1])]
  BY <1>5, <1>6
<1>8. search = [k \in 0..N |-> IF k = 0 THEN start ELSE DfsStep(graph, search[k - 1])]
  BY <1>7
<1>9. PICK f : f = search
  OBVIOUS
<1>10. /\ f[0] = start /\ \A k \in 1..N : f[k] = DfsStep(graph, f[k - 1])
  <2>1. f = [k \in 0..N |-> IF k = 0 THEN start ELSE DfsStep(graph, f[k - 1])]
    BY <1>8, <1>9
  <2>2. 0 \in 0..N /\ \A k \in 1..N : k \in 0..N /\ k # 0
    BY <1>1
  <2> QED  BY <2>1, <2>2
<1> DEFINE Bad == {k \in 0..N : f[k] \notin S}
<1>11. Bad = {}
  <2>1. SUFFICES ASSUME Bad # {} PROVE FALSE
    OBVIOUS
  <2>2. PICK n \in Bad : \A m \in Bad : n <= m
    <3>1. Bad \in SUBSET Nat
      BY <1>1
    <3> HIDE DEF Bad
    <3> QED  BY <2>1, <3>1, LeastNatural
  <2>3. n # 0 /\ n \in 1..N /\ n - 1 \in 0..N /\ n - 1 \notin Bad
    BY <1>1, <1>2, <1>10, <2>2
  <2> QED  BY <1>3, <1>10, <2>2, <2>3
<1>12. f[N] \in S
  BY <1>1, <1>11
<1>13. Topological(graph, keys) = search[N]
  BY DEF Topological, N, start
<1> QED  BY <1>9, <1>12, <1>13 DEF S

\* Something in a finite set has the greatest number.
LEMMA HasGreatest ==
  ASSUME NEW S, IsFiniteSet(S), S # {}, NEW f \in [S -> Nat]
  PROVE  \E x \in S : \A y \in S : f[y] <= f[x]
<1> DEFINE Best(A, x) == x \in A /\ \A y \in A : f[y] <= f[x]
           Bad == {c \in Nat : \E A \in SUBSET S : A # {} /\ Cardinality(A) = c /\ ~ \E x : Best(A, x)}
<1>1. Bad = {}
  <2>1. SUFFICES ASSUME Bad # {} PROVE FALSE
    OBVIOUS
  <2>2. PICK c \in Bad : \A d \in Bad : c <= d
    <3>1. Bad \in SUBSET Nat
      OBVIOUS
    <3> HIDE DEF Bad
    <3> QED  BY <2>1, <3>1, LeastNatural
  <2>3. PICK A \in SUBSET S : A # {} /\ Cardinality(A) = c /\ ~ \E x : Best(A, x)
    <3> HIDE DEF Best
    <3> QED  BY <2>2
  <2>4. PICK a \in A : TRUE
    BY <2>3
  <2>5. PICK B : B = A \ {a}
    OBVIOUS
  <2>6. IsFiniteSet(A)
    BY FS_Subset
  <2>7. IsFiniteSet(B) /\ Cardinality(B) = Cardinality(A) - 1
    BY <2>4, <2>5, <2>6, FS_RemoveElement
  <2>8. Cardinality(A) \in Nat /\ Cardinality(B) \in Nat
    BY <2>6, <2>7, FS_CardinalityType
  <2>9. Cardinality(B) \notin Bad
    BY <2>2, <2>3, <2>7, <2>8
  <2>10. CASE B = {}
    <3>1. A = {a}
      BY <2>4, <2>5, <2>10
    <3> QED  BY <2>3, <3>1
  <2>11. CASE B # {}
    <3>1. PICK b : Best(B, b)
      BY <2>5, <2>8, <2>9, <2>11
    <3>2. \A y \in A : f[y] \in Nat
      OBVIOUS
    <3>3. CASE f[a] <= f[b]
      <4>1. Best(A, b)
        BY <2>5, <3>1, <3>3
      <4> QED  BY <2>3, <4>1
    <3>4. CASE ~(f[a] <= f[b])
      <4>1. \A k, l, m \in Nat : ~(k <= l) /\ m <= l => m <= k
        OBVIOUS
      <4>2. b \in A /\ f[a] \in Nat /\ f[b] \in Nat /\ f[a] <= f[a]
        BY <2>4, <2>5, <3>1, <3>2
      <4>3. \A y \in A : f[y] <= f[a]
        BY <2>5, <3>1, <3>2, <3>4, <4>1, <4>2
      <4> QED  BY <2>3, <2>4, <4>3
    <3> QED  BY <3>3, <3>4
  <2> QED  BY <2>10, <2>11
<1>2. IsFiniteSet(S) /\ Cardinality(S) \in Nat
  BY FS_CardinalityType
<1> QED  BY <1>1, <1>2

-----------------------------------------------------------------------------
(* The objects that are being destroyed *)

Subscriptions == [subscriber : Objects, handler : Handlers]
Works == [phase : {"run", "tell", "destroy", "done", "closed"}, order : Seq(SUBSET Objects),
          next : Nat, left : SUBSET Objects, final : BOOLEAN]
DestructionTypes ==
    /\ owner \in [Objects -> Nodes]
    /\ work.phase # "closed" => subscribed \in [Objects -> Seq(Subscriptions)]
    /\ destroyed \in SUBSET Objects /\ pending \in SUBSET Objects
    /\ work \in Works /\ ran \in Seq(Objects)

\* Who comes after another is in a group with a lower index.
Ordered(order) ==
    \A m, n \in DOMAIN order : \A o \in order[m], p \in order[n] :
        owner[o] = p \/ (Acyclic /\ <<o, p>> \in edges) => n < m
IsTold(o) == o \in destroyed \/ subscribed[o] = <<>>
\* Those of the group that is being told or destroyed come last.
InGroup == work.next \in DOMAIN work.order /\ work.left \subseteq work.order[work.next]
NoGroups == work.order = <<>> /\ work.left = {}
Telling ==
    work.phase = "tell" =>
        /\ ran = <<>>
        /\ InGroup \/ (NoGroups /\ work.next = 1)
        /\ \A m \in DOMAIN work.order : \A o \in work.order[m] :
              m < work.next \/ (m = work.next /\ o \notin work.left) => IsTold(o)
Destroying ==
    work.phase = "destroy" =>
        /\ InGroup \/ (NoGroups /\ work.next = 0)
        /\ \A i \in DOMAIN ran : \E m \in DOMAIN work.order : m >= work.next /\ ran[i] \in work.order[m]
        /\ ~work.final => \A i \in DOMAIN ran : ran[i] \in destroyed \/ ran[i] \in work.order[work.next]
AllTold ==
    work.phase \in {"destroy", "done", "closed"} =>
        \A m \in DOMAIN work.order : \A o \in work.order[m] : IsTold(o)
\* Only at the end of the task objects run that are not marked.
Marked ==
    ~work.final =>
        /\ work.phase \in {"tell", "destroy", "done"} =>
              \A m \in DOMAIN work.order : work.order[m] \subseteq pending \cup destroyed
        /\ work.phase \in {"run", "done"} => \A i \in DOMAIN ran : ran[i] \in destroyed
        /\ work.phase # "closed"
DestructionInv ==
    /\ DestructionTypes
    /\ work.phase = "run" => work = NoWork
    /\ Ordered(work.order)
    /\ Telling /\ Destroying /\ AllTold /\ Marked
    /\ OwnedFirst

\* The owner comes first among the followers of an object.
LEMMA FollowersAre ==
  ASSUME owner \in [Objects -> Nodes], subscribed \in [Objects -> Seq(Subscriptions)], NEW o \in Objects
  PROVE  Followers(o) \in Seq(Nodes) /\ Followers(o) # <<>> /\ Followers(o)[1] = owner[o]
         /\ 1 \in DOMAIN Followers(o)
<1>1. PICK list \in Seq(Subscriptions) : list = subscribed[o]
  OBVIOUS
<1>2. PICK who \in Seq(Nodes) : who = [n \in DOMAIN list |-> list[n].subscriber]
  <2>1. DOMAIN list = 1..Len(list) /\ Len(list) \in Nat /\ \A n \in 1..Len(list) : list[n] \in Subscriptions
    OBVIOUS
  <2>2. \A n \in 1..Len(list) : list[n].subscriber \in Nodes
    BY <2>1 DEF Subscriptions, Nodes
  <2>3. PICK M \in Nat : M = Len(list)
    BY <2>1
  <2>4. [n \in 1..M |-> list[n].subscriber] \in Seq(Nodes)
    BY <2>2, <2>3
  <2> QED  BY <2>1, <2>3, <2>4
<1>3. PICK me \in Nodes : me = owner[o]
  OBVIOUS
<1>4. <<me>> \o who \in Seq(Nodes) /\ <<me>> \o who # <<>> /\ (<<me>> \o who)[1] = me
      /\ 1 \in DOMAIN (<<me>> \o who)
  OBVIOUS
<1> QED  BY <1>1, <1>2, <1>3, <1>4 DEF Followers

\* The groups are in order, when some objects are sorted.
LEMMA GroupsAreOrdered ==
  ASSUME ObjectsAssumption, owner \in [Objects -> Nodes], subscribed \in [Objects -> Seq(Subscriptions)],
         NEW sentenced \in SUBSET Objects, NEW keys \in SetToSeqs(sentenced)
  PROVE  LET order == Groups(Topological(DDGraph(sentenced), keys)) IN
         /\ order \in Seq(SUBSET sentenced)
         /\ \A m, n \in DOMAIN order : \A o \in order[m], p \in order[n] :
               \/ owner[o] = p
               \/ ~Circles(DDGraph(sentenced)) /\ \E k \in DOMAIN Followers(o) : Followers(o)[k] = p
               => n < m
<1>1. IsFiniteSet(sentenced) /\ Cardinality(sentenced) \in Nat
  BY FS_Subset, FS_CardinalityType DEF ObjectsAssumption
<1>2. keys \in Seq(Objects)
  <2>1. PICK N \in Nat : N = Cardinality(sentenced)
    BY <1>1
  <2>2. keys \in [1..N -> sentenced]
    BY <2>1 DEF SetToSeqs
  <2> QED  BY <2>1, <2>2
<1>3. ASSUME NEW o \in Objects
      PROVE  Followers(o) \in Seq(Nodes) /\ Followers(o) # <<>> /\ Followers(o)[1] = owner[o]
             /\ 1 \in DOMAIN Followers(o)
  BY FollowersAre
<1>4. PICK graph : graph = DDGraph(sentenced)
  OBVIOUS
<1>5. /\ DOMAIN graph = sentenced /\ \A o \in sentenced : graph[o] = Followers(o)
      /\ IsGraph(graph)
  BY <1>3, <1>4 DEF DDGraph, IsGraph
<1>6. PICK search : search = Topological(graph, keys)
  OBVIOUS
<1>7. SearchInv(graph, search)
  BY <1>2, <1>5, <1>6, SearchIsRight
<1>8. /\ search.found \in SUBSET Objects /\ search.index \in [Nodes -> Nat]
      /\ search.found \subseteq sentenced /\ Indexed(graph, search)
  BY <1>5, <1>7 DEF SearchInv, Searches, Indexed
<1>9. IsFiniteSet(search.found)
  BY <1>1, <1>8, FS_Subset
<1> DEFINE all == {0} \cup {search.index[o] : o \in search.found}
<1>10. \E x \in all : \A y \in all : x >= y
  <2>1. CASE search.found = {}
    BY <2>1
  <2>2. CASE search.found # {}
    <3>1. PICK f \in [search.found -> Nat] : \A o \in search.found : f[o] = search.index[o]
      <4>1. [o \in search.found |-> search.index[o]] \in [search.found -> Nat]
        BY <1>8 DEF Nodes
      <4> QED  BY <4>1
    <3>2. PICK o \in search.found : \A p \in search.found : f[p] <= f[o]
      BY <1>9, <2>2, <3>1, HasGreatest
    <3> QED  BY <3>1, <3>2
  <2> QED  BY <2>1, <2>2
<1>11. Max(all) \in Nat
  <2>1. Max(all) \in all
    BY <1>10 DEF Max
  <2> QED  BY <1>8, <2>1 DEF Nodes
<1>12. PICK N \in Nat : N = Max(all)
  BY <1>11
<1>13. PICK order : order = Groups(search)
  OBVIOUS
<1>14. order = [n \in 1..N |-> {o \in search.found : search.index[o] = n}]
  BY <1>12, <1>13 DEF Groups
<1>15. order \in Seq(SUBSET sentenced)
  BY <1>8, <1>14
<1>16. ASSUME NEW m \in DOMAIN order, NEW n \in DOMAIN order, NEW o \in order[m], NEW p \in order[n],
              \/ owner[o] = p
              \/ ~Circles(graph) /\ \E k \in DOMAIN Followers(o) : Followers(o)[k] = p
       PROVE  n < m
  <2>1. /\ o \in search.found /\ p \in search.found /\ o \in sentenced /\ p \in sentenced
        /\ search.index[o] = m /\ search.index[p] = n
    BY <1>8, <1>14
  <2>2. PICK k \in DOMAIN graph[o] : graph[o][k] = p /\ (k = 1 \/ ~Circles(graph))
    <3>1. graph[o] = Followers(o) /\ o \in Objects
      BY <1>5, <2>1
    <3> QED  BY <1>3, <1>16, <3>1
  <2>3. search.index[p] < search.index[o]
    BY <1>5, <1>8, <2>1, <2>2 DEF Indexed
  <2> QED  BY <2>1, <2>3
<1> QED  BY <1>4, <1>6, <1>13, <1>15, <1>16

\* A sort starts with all its groups still to be told.
LEMMA SortStarts ==
  ASSUME ObjectsAssumption, owner \in [Objects -> Nodes], subscribed \in [Objects -> Seq(Subscriptions)],
         NEW sentenced \in SUBSET Objects, NEW final \in BOOLEAN, SortInto(sentenced, final)
  PROVE  \E order \in Seq(SUBSET sentenced) :
            /\ work' = [phase |-> "tell", order |-> order, next |-> 1,
                        left |-> IF order = <<>> THEN {} ELSE order[1], final |-> final]
            /\ ran' = <<>>
            /\ \A m, n \in DOMAIN order : \A o \in order[m], p \in order[n] :
                  owner[o] = p \/ (Acyclic' /\ <<o, p>> \in edges') => n < m
<1>1. PICK keys \in SetToSeqs(sentenced) :
         LET order == Groups(Topological(DDGraph(sentenced), keys)) IN
         work' = [phase |-> "tell", order |-> order, next |-> 1,
                  left |-> IF order = <<>> THEN {} ELSE order[1], final |-> final]
  BY DEF SortInto
<1>2. PICK order : order = Groups(Topological(DDGraph(sentenced), keys))
  OBVIOUS
<1>3. /\ order \in Seq(SUBSET sentenced)
      /\ \A m, n \in DOMAIN order : \A o \in order[m], p \in order[n] :
            \/ owner[o] = p
            \/ ~Circles(DDGraph(sentenced)) /\ \E k \in DOMAIN Followers(o) : Followers(o)[k] = p
            => n < m
  BY <1>2, GroupsAreOrdered
<1>4. /\ ran' = <<>>
      /\ edges' = {e \in sentenced \X Objects : Contains(Followers(e[1]), e[2])}
  BY DEF SortInto
<1>5. ASSUME NEW o \in Objects
      PROVE  Followers(o) \in Seq(Nodes) /\ DOMAIN Followers(o) = 1..Len(Followers(o))
  BY FollowersAre
<1>6. \A o \in sentenced, p \in Objects :
         <<o, p>> \in edges' <=> \E k \in DOMAIN Followers(o) : Followers(o)[k] = p
  BY <1>4, <1>5 DEF Contains
<1>7. ASSUME Acyclic' PROVE ~Circles(DDGraph(sentenced))
  <2>1. SUFFICES ASSUME Circles(DDGraph(sentenced)) PROVE FALSE
    OBVIOUS
  <2>2. DOMAIN DDGraph(sentenced) = sentenced /\ \A o \in sentenced : DDGraph(sentenced)[o] = Followers(o)
    BY DEF DDGraph
  <2>3. PICK set \in SUBSET sentenced : /\ set # {}
                                        /\ \A o \in set : \E k \in DOMAIN Followers(o) : Followers(o)[k] \in set
    BY <2>1, <2>2 DEF Circles
  <2>4. PICK o \in set : \A p \in set : <<o, p>> \notin edges'
    BY <1>7, <2>3 DEF Acyclic
  <2>5. PICK k \in DOMAIN Followers(o) : Followers(o)[k] \in set
    BY <2>3
  <2> QED  BY <1>6, <2>4, <2>5
<1>8. \A m, n \in DOMAIN order : \A o \in order[m], p \in order[n] : o \in sentenced /\ p \in Objects
  BY <1>3
<1>9. \A m, n \in DOMAIN order : \A o \in order[m], p \in order[n] :
         owner[o] = p \/ (Acyclic' /\ <<o, p>> \in edges') => n < m
  BY <1>3, <1>6, <1>7, <1>8
<1> QED  BY <1>1, <1>2, <1>3, <1>4, <1>9

LEMMA StartKeeps ==
  ASSUME ObjectsAssumption, DestructionInv, work.phase # "closed", NEW sentenced \in SUBSET Objects,
         NEW final \in BOOLEAN, SortInto(sentenced, final), pending' \in SUBSET Objects,
         final \/ sentenced \subseteq pending', UNCHANGED <<owner, subscribed, destroyed>>
  PROVE  DestructionInv'
<1>1. /\ owner \in [Objects -> Nodes] /\ subscribed \in [Objects -> Seq(Subscriptions)]
      /\ destroyed \in SUBSET Objects
  BY DEF DestructionInv, DestructionTypes
<1>2. PICK order \in Seq(SUBSET sentenced) :
         /\ work' = [phase |-> "tell", order |-> order, next |-> 1,
                     left |-> IF order = <<>> THEN {} ELSE order[1], final |-> final]
         /\ ran' = <<>>
         /\ \A m, n \in DOMAIN order : \A o \in order[m], p \in order[n] :
               owner[o] = p \/ (Acyclic' /\ <<o, p>> \in edges') => n < m
  BY <1>1, SortStarts
<1>3. /\ work'.phase = "tell" /\ work'.order = order /\ work'.next = 1 /\ work'.final = final
      /\ work'.left = (IF order = <<>> THEN {} ELSE order[1])
  BY <1>2
<1>4. /\ order \in Seq(SUBSET Objects) /\ \A m \in DOMAIN order : order[m] \subseteq sentenced /\ m >= 1
      /\ order # <<>> => 1 \in DOMAIN order
  <2>1. order # <<>> => 1 \in DOMAIN order
    BY EmptySeq
  <2> QED  BY <2>1
<1>5. work' \in Works
  BY <1>2, <1>4 DEF Works
<1>6. DestructionTypes'
  BY <1>1, <1>2, <1>3, <1>5 DEF DestructionTypes
<1>7. Ordered(work.order)'
  BY <1>2, <1>3 DEF Ordered
<1>8. Telling'
  <2>1. (InGroup \/ (NoGroups /\ work.next = 1))'
    BY <1>3, <1>4 DEF InGroup, NoGroups
  <2>2. \A m \in DOMAIN order : \A o \in order[m] :
           ~(m < 1) /\ (m = 1 => o \in work'.left)
    BY <1>3, <1>4, EmptySeq
  <2> QED  BY <1>2, <1>3, <2>1, <2>2 DEF Telling
<1>9. Destroying' /\ AllTold'
  BY <1>3 DEF Destroying, AllTold
<1>10. Marked'
  BY <1>2, <1>3, <1>4 DEF Marked
<1>11. OwnedFirst'
  BY <1>2 DEF OwnedFirst
<1> QED  BY <1>3, <1>6, <1>7, <1>8, <1>9, <1>10, <1>11 DEF DestructionInv

LEMMA LoadOwnersKeeps ==
  ASSUME ObjectsAssumption, DestructionInv, LoadOwners PROVE DestructionInv'
<1>1. /\ work.phase = "run" /\ work.order = <<>> /\ work.final = FALSE /\ destroyed = {}
      /\ owner' \in [Objects -> Nodes]
      /\ UNCHANGED <<subscribed, destroyed, pending, work, ran, edges>>
  BY DEF LoadOwners, NoWork, Nodes
<1>2. ran = <<>>
  <2>1. ran \in Seq(Objects) /\ \A i \in DOMAIN ran : FALSE
    BY <1>1 DEF DestructionInv, DestructionTypes, Marked
  <2>2. DOMAIN ran = 1..Len(ran) /\ Len(ran) \in Nat
    BY <2>1
  <2>3. Len(ran) = 0
    <3>1. Len(ran) # 0 => 1 \in DOMAIN ran
      BY <2>2
    <3> QED  BY <2>1, <3>1
  <2> QED  BY <2>1, <2>3, EmptySeq
<1>3. DestructionTypes'
  BY <1>1 DEF DestructionInv, DestructionTypes
<1>4. Ordered(work.order)'
  BY <1>1 DEF Ordered
<1>5. OwnedFirst'
  BY <1>1, <1>2 DEF OwnedFirst
<1>6. (work.phase = "run" => work = NoWork)'
  BY <1>1 DEF DestructionInv
<1>7. Telling' /\ Destroying' /\ AllTold'
  BY <1>1 DEF Telling, Destroying, AllTold
<1>8. Marked'
  BY <1>1 DEF DestructionInv, Marked
<1> QED  BY <1>3, <1>4, <1>5, <1>6, <1>7, <1>8 DEF DestructionInv

\* Subscriptions change only while nothing is being destroyed, and only those
\* to objects that were not.
LEMMA SubscriptionsKeep ==
  ASSUME ObjectsAssumption, DestructionInv, work = NoWork,
         subscribed' \in [Objects -> Seq(Subscriptions)],
         \A o \in destroyed : subscribed'[o] = subscribed[o],
         UNCHANGED <<owner, destroyed, pending, work, ran, edges>>
  PROVE  DestructionInv'
<1>1. work.phase = "run" /\ work.order = <<>> /\ work.final = FALSE
  BY DEF NoWork
<1>2. DestructionTypes'
  BY DEF DestructionInv, DestructionTypes
<1>3. Ordered(work.order)'
  BY <1>1 DEF Ordered
<1>4. OwnedFirst'
  <2>1. \A i \in DOMAIN ran : ran[i] \in destroyed
    BY <1>1 DEF DestructionInv, Marked
  <2>2. Acyclic' <=> Acyclic
    BY DEF Acyclic
  <2>3. \A i, j \in DOMAIN ran : i < j =>
           owner[ran[j]] # ran[i] /\ (Acyclic => <<ran[j], ran[i]>> \notin edges)
    BY DEF DestructionInv, OwnedFirst
  <2>4. \A i \in DOMAIN ran : subscribed[ran[i]] = <<>>
    BY DEF DestructionInv, OwnedFirst
  <2> QED  BY <2>1, <2>2, <2>3, <2>4 DEF OwnedFirst
<1>5. (work.phase = "run" => work = NoWork)'
  OBVIOUS
<1>6. Telling' /\ Destroying' /\ AllTold'
  BY <1>1 DEF Telling, Destroying, AllTold
<1>7. Marked'
  BY <1>1 DEF DestructionInv, Marked
<1> QED  BY <1>2, <1>3, <1>4, <1>5, <1>6, <1>7 DEF DestructionInv

LEMMA SubscribeKeeps ==
  ASSUME ObjectsAssumption, DestructionInv, Subscribe PROVE DestructionInv'
<1>1. subscribed \in [Objects -> Seq(Subscriptions)]
  BY DEF DestructionInv, DestructionTypes, Subscribe, NoWork
<1>2. PICK o \in Objects \ destroyed, s \in Objects \ destroyed, h \in Handlers :
         subscribed' = [subscribed EXCEPT ![o] = Append(@, Subscription(s, h))]
  BY DEF Subscribe
<1>3. Subscription(s, h) \in Subscriptions
  BY DEF Subscription, Subscriptions
<1>4. PICK more \in Seq(Subscriptions) : more = Append(subscribed[o], Subscription(s, h))
  <2>1. PICK x \in Subscriptions : x = Subscription(s, h)
    BY <1>3
  <2>2. PICK list \in Seq(Subscriptions) : list = subscribed[o]
    BY <1>1
  <2>3. Append(list, x) \in Seq(Subscriptions)
    OBVIOUS
  <2> QED  BY <2>1, <2>2, <2>3
<1>5. subscribed' = [subscribed EXCEPT ![o] = more]
  BY <1>1, <1>2, <1>4
<1>6. /\ subscribed' \in [Objects -> Seq(Subscriptions)]
      /\ \A d \in destroyed : subscribed'[d] = subscribed[d]
  BY <1>1, <1>5 DEF DestructionInv, DestructionTypes
<1>7. work = NoWork /\ UNCHANGED <<owner, destroyed, pending, work, ran, edges>>
  BY DEF Subscribe
<1> QED  BY <1>6, <1>7, SubscriptionsKeep

LEMMA UnsubscribeKeeps ==
  ASSUME ObjectsAssumption, DestructionInv, Unsubscribe PROVE DestructionInv'
<1>1. subscribed \in [Objects -> Seq(Subscriptions)]
  BY DEF DestructionInv, DestructionTypes, Unsubscribe, NoWork
<1>2. PICK o \in Objects \ destroyed : \E n \in DOMAIN subscribed[o] :
         subscribed' = [subscribed EXCEPT ![o] = RemoveAt(@, n)]
  BY DEF Unsubscribe
<1>3. PICK list \in Seq(Subscriptions) : list = subscribed[o]
  BY <1>1
<1>4. PICK n \in DOMAIN list : subscribed' = [subscribed EXCEPT ![o] = RemoveAt(list, n)]
  BY <1>1, <1>2, <1>3
<1>5. RemoveAt(list, n) \in Seq(Subscriptions)
  <2>1. n \in 1..Len(list) /\ Len(list) \in Nat
    OBVIOUS
  <2>2. SubSeq(list, 1, n - 1) \in Seq(Subscriptions) /\ SubSeq(list, n + 1, Len(list)) \in Seq(Subscriptions)
    BY <2>1, SubSeqProperties
  <2> QED  BY <2>2 DEF RemoveAt
<1>6. /\ subscribed' \in [Objects -> Seq(Subscriptions)]
      /\ \A d \in destroyed : subscribed'[d] = subscribed[d]
  BY <1>1, <1>4, <1>5 DEF DestructionInv, DestructionTypes
<1>7. work = NoWork /\ UNCHANGED <<owner, destroyed, pending, work, ran, edges>>
  BY DEF Unsubscribe
<1> QED  BY <1>6, <1>7, SubscriptionsKeep

LEMMA CollectKeeps ==
  ASSUME ObjectsAssumption, DestructionInv, Collect PROVE DestructionInv'
<1>1. PICK G \in SUBSET Objects : pending' = pending \cup G /\ SortInto(pending', FALSE)
  BY DEF Collect
<1>2. PICK all \in SUBSET Objects : all = pending'
  BY <1>1 DEF DestructionInv, DestructionTypes
<1>3. SortInto(all, FALSE)
  BY <1>1, <1>2
<1>4. work.phase # "closed" /\ UNCHANGED <<owner, subscribed, destroyed>>
  BY DEF Collect, NoWork
<1> QED  BY <1>2, <1>3, <1>4, StartKeeps

LEMMA PrepareFinalizeKeeps ==
  ASSUME ObjectsAssumption, DestructionInv, PrepareFinalize PROVE DestructionInv'
<1>1. PICK sentenced \in SUBSET Objects : pending' = pending \cup sentenced /\ SortInto(sentenced, TRUE)
  <2>1. PICK used \in SUBSET (Objects \ destroyed) :
           /\ pending' = pending \cup ((Objects \ destroyed) \ used)
           /\ SortInto((Objects \ destroyed) \ used, TRUE)
    BY DEF PrepareFinalize
  <2>2. PICK sentenced \in SUBSET Objects : sentenced = (Objects \ destroyed) \ used
    OBVIOUS
  <2> QED  BY <2>1, <2>2
<1>2. pending' \in SUBSET Objects
  BY <1>1 DEF DestructionInv, DestructionTypes
<1>3. work.phase # "closed" /\ UNCHANGED <<owner, subscribed, destroyed>>
  BY DEF PrepareFinalize, NoWork
<1> QED  BY <1>1, <1>2, <1>3, StartKeeps

LEMMA RepeatKeeps ==
  ASSUME ObjectsAssumption, DestructionInv, Repeat PROVE DestructionInv'
<1>1. work.phase = "done" /\ ~work.final /\ UNCHANGED <<owner, subscribed, destroyed, pending>>
  BY DEF Repeat
<1>2. CASE ran # <<>> /\ pending # {}
  <2>1. PICK all \in SUBSET Objects : all = pending
    BY DEF DestructionInv, DestructionTypes
  <2>2. SortInto(all, FALSE)
    BY <1>2, <2>1 DEF Repeat
  <2>3. pending' \in SUBSET Objects /\ all \subseteq pending'
    BY <1>1, <2>1
  <2> QED  BY <1>1, <2>2, <2>3, StartKeeps
<1>3. CASE ~(ran # <<>> /\ pending # {})
  <2>1. work' = NoWork /\ UNCHANGED <<ran, edges>>
    BY <1>3 DEF Repeat
  <2>2. work'.phase = "run" /\ work'.order = <<>> /\ work'.final = FALSE
    BY <2>1 DEF NoWork
  <2>3. DestructionTypes'
    <3>1. NoWork \in Works
      BY DEF NoWork, Works
    <3> QED  BY <1>1, <2>1, <3>1 DEF DestructionInv, DestructionTypes
  <2>4. Ordered(work.order)'
    BY <2>2 DEF Ordered
  <2>5. OwnedFirst'
    <3>1. Acyclic' <=> Acyclic
      BY <2>1 DEF Acyclic
    <3> QED  BY <1>1, <2>1, <3>1 DEF DestructionInv, OwnedFirst
  <2>6. Telling' /\ Destroying' /\ AllTold'
    BY <2>2 DEF Telling, Destroying, AllTold
  <2>7. Marked'
    BY <1>1, <2>1, <2>2 DEF DestructionInv, Marked
  <2> QED  BY <2>1, <2>3, <2>4, <2>5, <2>6, <2>7 DEF DestructionInv
<1> QED  BY <1>2, <1>3

LEMMA SignalKeeps ==
  ASSUME ObjectsAssumption, DestructionInv, NEW o \in Objects, Signal(o) PROVE DestructionInv'
<1>1. /\ work.phase = "tell" /\ o \in work.left
      /\ subscribed' = IF o \in destroyed THEN subscribed ELSE [subscribed EXCEPT ![o] = <<>>]
      /\ UNCHANGED <<owner, destroyed, pending, ran, edges>>
  BY DEF Signal
<1>2. PICK rest \in SUBSET Objects : rest = work.left \ {o}
  BY DEF DestructionInv, DestructionTypes, Works
<1>3. work \in Works /\ work' = [work EXCEPT !.left = rest] /\ ran = <<>>
  BY <1>1, <1>2 DEF Signal, DestructionInv, DestructionTypes, Telling
<1>4. /\ work' \in Works /\ work'.phase = "tell" /\ work'.order = work.order /\ work'.next = work.next
      /\ work'.left = rest /\ work'.final = work.final
  BY <1>1, <1>3 DEF Works
<1>5. subscribed \in [Objects -> Seq(Subscriptions)]
  BY <1>1 DEF DestructionInv, DestructionTypes
<1>6. /\ subscribed' \in [Objects -> Seq(Subscriptions)]
      /\ \A p \in Objects : p # o => subscribed'[p] = subscribed[p]
      /\ o \in destroyed \/ subscribed'[o] = <<>>
  <2>1. <<>> \in Seq(Subscriptions)
    OBVIOUS
  <2> QED  BY <1>1, <1>5, <2>1
<1>7. DestructionTypes'
  BY <1>1, <1>4, <1>6 DEF DestructionInv, DestructionTypes
<1>8. Ordered(work.order)'
  <2>1. Acyclic' <=> Acyclic
    BY <1>1 DEF Acyclic
  <2> QED  BY <1>1, <1>4, <2>1 DEF DestructionInv, Ordered
<1>9. Telling'
  <2>1. (InGroup \/ (NoGroups /\ work.next = 1))'
    BY <1>1, <1>2, <1>4 DEF DestructionInv, Telling, InGroup, NoGroups
  <2>2. ASSUME NEW m \in DOMAIN work.order, NEW p \in work.order[m],
               m < work.next \/ (m = work.next /\ p \notin rest)
        PROVE  p \in destroyed \/ subscribed'[p] = <<>>
    <3>1. p \in Objects
      <4>1. work.order[m] \in SUBSET Objects
        BY <1>3 DEF Works
      <4> QED  BY <4>1
    <3>2. CASE p = o
      BY <1>6, <3>2
    <3>3. CASE p # o
      <4>1. IsTold(p)
        BY <1>1, <1>2, <2>2, <3>3 DEF DestructionInv, Telling
      <4> QED  BY <1>6, <3>1, <3>3, <4>1 DEF IsTold
    <3> QED  BY <3>2, <3>3
  <2> QED  BY <1>1, <1>3, <1>4, <2>1, <2>2 DEF Telling, IsTold
<1>10. Destroying' /\ AllTold'
  BY <1>4 DEF Destroying, AllTold
<1>11. Marked'
  BY <1>1, <1>4 DEF DestructionInv, Marked
<1>12. OwnedFirst'
  BY <1>1, <1>3 DEF OwnedFirst
<1> QED  BY <1>4, <1>7, <1>8, <1>9, <1>10, <1>11, <1>12 DEF DestructionInv

LEMMA DestroyKeeps ==
  ASSUME ObjectsAssumption, DestructionInv, NEW o \in Objects, Destroy(o) PROVE DestructionInv'
<1>1. /\ work.phase = "destroy" /\ o \in work.left
      /\ ran' = IF o \in destroyed THEN ran ELSE Append(ran, o)
      /\ UNCHANGED <<owner, subscribed, destroyed, pending, edges>>
  BY DEF Destroy
<1>2. PICK rest \in SUBSET Objects : rest = work.left \ {o}
  BY DEF DestructionInv, DestructionTypes, Works
<1>3. work \in Works /\ work' = [work EXCEPT !.left = rest] /\ ran \in Seq(Objects)
  BY <1>1, <1>2 DEF Destroy, DestructionInv, DestructionTypes
<1>4. /\ work' \in Works /\ work'.phase = "destroy" /\ work'.order = work.order
      /\ work'.next = work.next /\ work'.left = rest /\ work'.final = work.final /\ work.next \in Nat
  BY <1>1, <1>3 DEF Works
<1>5. /\ InGroup /\ o \in work.order[work.next] /\ work.next \in DOMAIN work.order
      /\ \A i \in DOMAIN ran : \E m \in DOMAIN work.order : m >= work.next /\ ran[i] \in work.order[m]
      /\ ~work.final => \A i \in DOMAIN ran : ran[i] \in destroyed \/ ran[i] \in work.order[work.next]
      /\ IsTold(o)
  <2>1. InGroup
    BY <1>1 DEF DestructionInv, Destroying, NoGroups
  <2>2. o \in work.order[work.next] /\ work.next \in DOMAIN work.order
    BY <1>1, <2>1 DEF InGroup
  <2>3. IsTold(o)
    BY <1>1, <2>2 DEF DestructionInv, AllTold
  <2> QED  BY <1>1, <2>1, <2>2, <2>3 DEF DestructionInv, Destroying
<1>6. /\ ran' \in Seq(Objects)
      /\ \A i \in DOMAIN ran : i \in DOMAIN ran' /\ ran'[i] = ran[i]
      /\ \A i \in DOMAIN ran' : \/ i \in DOMAIN ran /\ ran'[i] = ran[i]
                                \/ ran'[i] = o /\ o \notin destroyed /\ \A j \in DOMAIN ran' : ~(i < j)
  <2>1. CASE o \in destroyed
    BY <1>1, <1>3, <2>1
  <2>2. CASE o \notin destroyed
    <3>1. ran' = Append(ran, o)
      BY <1>1, <2>2
    <3>2. /\ DOMAIN ran = 1..Len(ran) /\ Len(ran) \in Nat /\ DOMAIN Append(ran, o) = 1..(Len(ran) + 1)
          /\ Append(ran, o)[Len(ran) + 1] = o /\ \A i \in 1..Len(ran) : Append(ran, o)[i] = ran[i]
          /\ Append(ran, o) \in Seq(Objects)
      BY <1>3
    <3>3. \A i \in 1..(Len(ran) + 1) : i \in 1..Len(ran) \/ (i = Len(ran) + 1 /\ \A j \in 1..(Len(ran) + 1) : ~(i < j))
      BY <3>2
    <3> QED  BY <2>2, <3>1, <3>2, <3>3
  <2> QED  BY <2>1, <2>2
<1>7. DestructionTypes'
  BY <1>1, <1>4, <1>6 DEF DestructionInv, DestructionTypes
<1>8. Acyclic' <=> Acyclic
  BY <1>1 DEF Acyclic
<1>9. Ordered(work.order)'
  BY <1>1, <1>4, <1>8 DEF DestructionInv, Ordered
<1>10. Telling'
  BY <1>4 DEF Telling
<1>11. Destroying'
  <2>1. (InGroup)'
    BY <1>2, <1>4, <1>5 DEF InGroup
  <2>2. \A i \in DOMAIN ran' : \E m \in DOMAIN work.order : m >= work.next /\ ran'[i] \in work.order[m]
    <3>1. work.next >= work.next
      BY <1>4
    <3> QED  BY <1>5, <1>6, <3>1
  <2>3. ~work.final => \A i \in DOMAIN ran' : ran'[i] \in destroyed \/ ran'[i] \in work.order[work.next]
    BY <1>5, <1>6
  <2> QED  BY <1>1, <1>4, <2>1, <2>2, <2>3 DEF Destroying
<1>12. AllTold'
  BY <1>1, <1>4 DEF DestructionInv, AllTold, IsTold
<1>13. Marked'
  BY <1>1, <1>4 DEF DestructionInv, Marked
<1>14. OwnedFirst'
  <2>1. ASSUME NEW i \in DOMAIN ran', NEW j \in DOMAIN ran', i < j
        PROVE  owner[ran'[j]] # ran'[i] /\ (Acyclic => <<ran'[j], ran'[i]>> \notin edges)
    <3>1. i \in DOMAIN ran /\ ran'[i] = ran[i]
      BY <1>6, <2>1
    <3>2. CASE j \in DOMAIN ran /\ ran'[j] = ran[j]
      BY <2>1, <3>1, <3>2 DEF DestructionInv, OwnedFirst
    <3>3. CASE ran'[j] = o
      <4>1. PICK m \in DOMAIN work.order : m >= work.next /\ ran[i] \in work.order[m]
        BY <1>5, <3>1
      <4>2. m \in Nat /\ ~(m < work.next)
        BY <1>3, <1>4, <4>1 DEF Works
      <4> QED  BY <1>5, <3>1, <3>3, <4>1, <4>2 DEF DestructionInv, Ordered
    <3> QED  BY <1>6, <3>2, <3>3
  <2>2. \A i \in DOMAIN ran' : subscribed[ran'[i]] = <<>>
    BY <1>5, <1>6 DEF DestructionInv, OwnedFirst, IsTold
  <2> QED  BY <1>1, <1>8, <2>1, <2>2 DEF OwnedFirst
<1> QED  BY <1>4, <1>7, <1>9, <1>10, <1>11, <1>12, <1>13, <1>14 DEF DestructionInv

\* Some objects are marked, and no more is pending.
LEMMA NextGroupKeeps ==
  ASSUME ObjectsAssumption, DestructionInv, NextGroup PROVE DestructionInv'
<1> DEFINE gone == IF work.phase = "destroy" /\ ~work.final /\ work.next > 0
                   THEN work.order[work.next] \cap pending ELSE {}
           N == Len(work.order)
<1>1. /\ work.phase \in {"tell", "destroy"} /\ work.left = {}
      /\ destroyed' = destroyed \cup gone /\ pending' = pending \ gone
      /\ UNCHANGED <<owner, subscribed, ran, edges>>
  BY DEF NextGroup
<1>2. work \in Works /\ N \in Nat /\ DOMAIN work.order = 1..N /\ work.next \in Nat
      /\ \A m \in 1..N : work.order[m] \in SUBSET Objects
  BY DEF DestructionInv, DestructionTypes, Works
<1>3. gone \subseteq pending /\ gone \subseteq Objects
  BY DEF DestructionInv, DestructionTypes
<1>4. destroyed \subseteq destroyed' /\ pending \cup destroyed = pending' \cup destroyed'
  BY <1>1, <1>3
<1>5. /\ destroyed' \in SUBSET Objects /\ pending' \in SUBSET Objects
      /\ subscribed \in [Objects -> Seq(Subscriptions)] /\ ran \in Seq(Objects)
      /\ owner \in [Objects -> Nodes]
  BY <1>1, <1>3 DEF DestructionInv, DestructionTypes
<1> HIDE DEF gone, N
<1>6. \A p : IsTold(p) => IsTold(p)'
  BY <1>1, <1>4 DEF IsTold
<1>7. Acyclic' <=> Acyclic
  BY <1>1 DEF Acyclic
<1>8. OwnedFirst'
  BY <1>1, <1>7 DEF DestructionInv, OwnedFirst
<1>9. /\ \/ work.phase = "tell" /\ (work.next \in 1..N \/ (work.order = <<>> /\ work.next = 1 /\ N = 0))
         \/ work.phase = "destroy" /\ (work.next \in 1..N \/ (work.order = <<>> /\ work.next = 0 /\ N = 0))
      /\ work.order = <<>> <=> N = 0
  <2>1. work.order = <<>> <=> N = 0
    BY <1>2, EmptySeq DEF N, Works
  <2> QED  BY <1>1, <1>2, <2>1 DEF DestructionInv, Telling, Destroying, InGroup, NoGroups
\* To another group that is being told.
<1>10. CASE work.phase = "tell" /\ work.next < N
  <2>1. work.next + 1 \in 1..N /\ work.next + 1 \in Nat
    BY <1>2, <1>9, <1>10
  <2>2. PICK next \in Nat : next = work.next + 1
    BY <2>1
  <2>3. PICK left \in SUBSET Objects : left = work.order[next]
    BY <1>2, <2>1, <2>2
  <2>4. work' = [work EXCEPT !.next = next, !.left = left]
    BY <1>2, <1>10, <2>2, <2>3 DEF NextGroup, N
  <2>5. /\ work' \in Works /\ work'.phase = "tell" /\ work'.order = work.order /\ work'.next = next
        /\ work'.left = left /\ work'.final = work.final
    BY <1>2, <1>10, <2>4 DEF Works
  <2>6. DestructionTypes'
    BY <1>1, <1>5, <2>5 DEF DestructionTypes
  <2>7. Ordered(work.order)'
    BY <1>1, <1>7, <2>5 DEF DestructionInv, Ordered
  <2>8. Telling'
    <3>1. ran = <<>>
      BY <1>10 DEF DestructionInv, Telling
    <3>2. (InGroup)'
      BY <1>2, <2>1, <2>2, <2>3, <2>5 DEF InGroup
    <3>3. ASSUME NEW m \in DOMAIN work.order, NEW p \in work.order[m],
                 m < next \/ (m = next /\ p \notin left)
          PROVE  IsTold(p)
      <4>1. m < work.next \/ m = work.next
        BY <1>2, <2>2, <2>3, <3>3
      <4> QED  BY <1>1, <1>10, <4>1 DEF DestructionInv, Telling
    <3> QED  BY <1>1, <1>6, <2>5, <3>1, <3>2, <3>3 DEF Telling
  <2>9. Destroying' /\ AllTold'
    BY <2>5 DEF Destroying, AllTold
  <2>10. Marked'
    BY <1>4, <1>10, <2>5 DEF DestructionInv, Marked
  <2> QED  BY <1>8, <2>5, <2>6, <2>7, <2>8, <2>9, <2>10 DEF DestructionInv
\* All are told, the last group is the first to be destroyed.
<1>11. CASE work.phase = "tell" /\ ~(work.next < N)
  <2>1. PICK left \in SUBSET Objects : left = IF work.order = <<>> THEN {} ELSE work.order[N]
    <3>1. work.order # <<>> => N \in 1..N
      BY <1>2, <1>9
    <3>2. (IF work.order = <<>> THEN {} ELSE work.order[N]) \in SUBSET Objects
      BY <1>2, <3>1
    <3> QED  BY <3>2
  <2>2. work' = [work EXCEPT !.phase = "destroy", !.next = N, !.left = left]
    <3>1. work.next >= N
      BY <1>2, <1>11
    <3> QED  BY <1>2, <1>11, <2>1, <3>1 DEF NextGroup, N
  <2>3. /\ work' \in Works /\ work'.phase = "destroy" /\ work'.order = work.order /\ work'.next = N
        /\ work'.left = left /\ work'.final = work.final
    BY <1>2, <1>11, <2>2 DEF Works
  <2>4. DestructionTypes'
    BY <1>1, <1>5, <2>3 DEF DestructionTypes
  <2>5. Ordered(work.order)'
    BY <1>1, <1>7, <2>3 DEF DestructionInv, Ordered
  <2>6. ran = <<>>
    BY <1>11 DEF DestructionInv, Telling
  <2>7. Destroying'
    <3>1. (InGroup \/ (NoGroups /\ work.next = 0))'
      BY <1>2, <1>9, <2>1, <2>3 DEF InGroup, NoGroups
    <3> QED  BY <1>1, <2>3, <2>6, <3>1 DEF Destroying
  <2>8. AllTold'
    <3>1. ASSUME NEW m \in DOMAIN work.order, NEW p \in work.order[m] PROVE IsTold(p)
      <4>1. m < work.next \/ (m = work.next /\ p \notin work.left)
        BY <1>1, <1>2, <1>9, <1>11
      <4> QED  BY <1>11, <4>1 DEF DestructionInv, Telling
    <3> QED  BY <1>6, <2>3, <3>1 DEF AllTold
  <2>9. Telling'
    BY <2>3 DEF Telling
  <2>10. Marked'
    BY <1>4, <1>11, <2>3 DEF DestructionInv, Marked
  <2> QED  BY <1>8, <2>3, <2>4, <2>5, <2>7, <2>8, <2>9, <2>10 DEF DestructionInv
\* What was destroyed is marked, and the group before it comes next.
<1>12. CASE work.phase = "destroy" /\ work.next > 1
  <2>1. work.next \in 1..N /\ work.next - 1 \in 1..N /\ work.next - 1 \in Nat
    BY <1>2, <1>9, <1>12
  <2>2. PICK next \in Nat : next = work.next - 1
    BY <2>1
  <2>3. PICK left \in SUBSET Objects : left = work.order[next]
    BY <1>2, <2>1, <2>2
  <2>4. work' = [work EXCEPT !.next = next, !.left = left]
    BY <1>2, <1>12, <2>2, <2>3 DEF NextGroup
  <2>5. /\ work' \in Works /\ work'.phase = "destroy" /\ work'.order = work.order /\ work'.next = next
        /\ work'.left = left /\ work'.final = work.final
    BY <1>2, <1>12, <2>4 DEF Works
  <2>6. DestructionTypes'
    BY <1>1, <1>5, <2>5 DEF DestructionTypes
  <2>7. Ordered(work.order)'
    BY <1>1, <1>7, <2>5 DEF DestructionInv, Ordered
  <2>8. Destroying'
    <3>1. (InGroup)'
      BY <1>2, <2>1, <2>2, <2>3, <2>5 DEF InGroup
    <3>2. \A i \in DOMAIN ran : \E m \in DOMAIN work.order : m >= next /\ ran[i] \in work.order[m]
      <4>1. \A m \in DOMAIN work.order : m >= work.next => m >= next
        BY <1>2, <2>2
      <4> QED  BY <1>12, <4>1 DEF DestructionInv, Destroying
    <3>3. ~work.final => \A i \in DOMAIN ran : ran[i] \in destroyed'
      <4>1. SUFFICES ASSUME ~work.final, NEW i \in DOMAIN ran PROVE ran[i] \in destroyed'
        OBVIOUS
      <4>2. ran[i] \in destroyed \/ ran[i] \in work.order[work.next]
        BY <1>12, <4>1 DEF DestructionInv, Destroying
      <4>3. work.order[work.next] \subseteq pending \cup destroyed
        BY <1>2, <1>12, <2>1, <4>1 DEF DestructionInv, Marked
      <4>4. gone = work.order[work.next] \cap pending
        BY <1>12, <2>1, <4>1 DEF gone
      <4> QED  BY <1>1, <4>2, <4>3, <4>4
    <3> QED  BY <1>1, <2>5, <3>1, <3>2, <3>3 DEF Destroying
  <2>9. Telling' /\ AllTold'
    BY <1>6, <1>12, <2>5 DEF DestructionInv, Telling, AllTold
  <2>10. Marked'
    BY <1>4, <1>12, <2>5 DEF DestructionInv, Marked
  <2> QED  BY <1>8, <2>5, <2>6, <2>7, <2>8, <2>9, <2>10 DEF DestructionInv
<1>13. CASE work.phase = "destroy" /\ ~(work.next > 1)
  <2>1. work' = [work EXCEPT !.phase = "done"]
    <3>1. work.next <= 1
      BY <1>2, <1>13
    <3> QED  BY <1>2, <1>13, <3>1 DEF NextGroup
  <2>2. /\ work' \in Works /\ work'.phase = "done" /\ work'.order = work.order /\ work'.final = work.final
    BY <1>2, <2>1 DEF Works
  <2>3. DestructionTypes'
    BY <1>1, <1>5, <2>2 DEF DestructionTypes
  <2>4. Ordered(work.order)'
    BY <1>1, <1>7, <2>2 DEF DestructionInv, Ordered
  <2>5. Telling' /\ Destroying' /\ AllTold'
    BY <1>6, <1>13, <2>2 DEF DestructionInv, Telling, Destroying, AllTold
  <2>6. ASSUME ~work.final, NEW i \in DOMAIN ran PROVE ran[i] \in destroyed'
    <3>1. ran[i] \in destroyed \/ ran[i] \in work.order[work.next]
      BY <1>13, <2>6 DEF DestructionInv, Destroying
    <3>2. work.next \in 1..N
      <4>1. DOMAIN work.order # {}
        BY <1>13 DEF DestructionInv, Destroying
      <4> QED  BY <1>2, <1>9, <1>13, <4>1
    <3>3. work.order[work.next] \subseteq pending \cup destroyed
      BY <1>2, <1>13, <2>6, <3>2 DEF DestructionInv, Marked
    <3>4. gone = work.order[work.next] \cap pending
      BY <1>13, <2>6, <3>2 DEF gone
    <3> QED  BY <1>1, <3>1, <3>3, <3>4
  <2>7. Marked'
    BY <1>1, <1>4, <1>13, <2>2, <2>6 DEF DestructionInv, Marked
  <2> QED  BY <1>8, <2>2, <2>3, <2>4, <2>5, <2>7 DEF DestructionInv
<1> QED  BY <1>1, <1>10, <1>11, <1>12, <1>13

LEMMA FinalizeStoreKeeps ==
  ASSUME ObjectsAssumption, DestructionInv, FinalizeStore PROVE DestructionInv'
<1>1. /\ work.phase = "done" /\ work.final = TRUE
      /\ work' = [work EXCEPT !.phase = "closed"] /\ destroyed' = Objects /\ pending' = {}
      /\ UNCHANGED <<owner, ran, edges>>
  BY DEF FinalizeStore, DestructionInv, DestructionTypes, Works
<1>2. work \in Works /\ ran \in Seq(Objects) /\ owner \in [Objects -> Nodes]
  BY DEF DestructionInv, DestructionTypes
<1>3. work' \in Works /\ work'.phase = "closed" /\ work'.order = work.order /\ work'.final = TRUE
  BY <1>1, <1>2 DEF Works
<1>4. \A o \in Objects : subscribed[o] = <<>> => subscribed'[o] = <<>>
  <2>1. SUFFICES ASSUME NEW o \in Objects, subscribed[o] = <<>> PROVE subscribed'[o] = <<>>
    OBVIOUS
  <2> DEFINE kept == {n \in DOMAIN subscribed[o] : ~IsDoomed(subscribed[o][n].subscriber)}
             rank(n) == Cardinality({m \in kept : m <= n})
  <2>2. subscribed'[o] = [r \in 1..Cardinality(kept) |-> subscribed[o][CHOOSE n \in kept : rank(n) = r]]
    BY DEF FinalizeStore
  <2>3. kept = {}
    BY <2>1
  <2>4. Cardinality(kept) = 0
    BY <2>3, FS_EmptySet
  <2>5. PICK c \in Nat : c = Cardinality(kept) /\ 1..c = {}
    BY <2>4
  <2> HIDE DEF kept
  <2>6. subscribed'[o] = [r \in 1..c |-> subscribed[o][CHOOSE n \in kept : rank(n) = r]]
    BY <2>2, <2>5
  <2>7. PICK f : f = [r \in 1..c |-> subscribed[o][CHOOSE n \in kept : rank(n) = r]]
    OBVIOUS
  <2>8. f \in Seq({}) /\ Len(f) = 0
    <3>1. f \in [1..c -> {}]
      BY <2>5, <2>7
    <3> QED  BY <2>4, <2>5, <3>1
  <2> QED  BY <2>6, <2>7, <2>8, EmptySeq
<1>5. DestructionTypes'
  BY <1>1, <1>2, <1>3 DEF DestructionTypes
<1>6. Acyclic' <=> Acyclic
  BY <1>1 DEF Acyclic
<1>7. Ordered(work.order)'
  BY <1>1, <1>3, <1>6 DEF DestructionInv, Ordered
<1>8. Telling' /\ Destroying' /\ Marked'
  BY <1>3 DEF Telling, Destroying, Marked
<1>9. AllTold'
  <2>1. \A m \in DOMAIN work.order : work.order[m] \subseteq Objects
    BY <1>2 DEF Works
  <2> QED  BY <1>1, <1>3, <2>1 DEF AllTold, IsTold
<1>10. OwnedFirst'
  <2>1. \A i \in DOMAIN ran : ran[i] \in Objects
    BY <1>2
  <2> QED  BY <1>1, <1>4, <1>6, <2>1 DEF DestructionInv, OwnedFirst
<1> QED  BY <1>3, <1>5, <1>7, <1>8, <1>9, <1>10 DEF DestructionInv

\* Objects are destroyed in order: .destroy of an object runs before that of
\* its owner and, unless they wait for each other, before that of those that
\* subscribed to its destruction, who were told before; whatever cycles the
\* subscriptions form (ObjectStore._destroy_garbage).
THEOREM OwnedAreFirst == ObjectsSpec => []OwnedFirst
<1>1. ObjectsInit => DestructionInv
  <2>1. SUFFICES ASSUME ObjectsInit PROVE DestructionInv
    OBVIOUS
  <2>2. /\ owner = [o \in Objects |-> Root] /\ subscribed = [o \in Objects |-> <<>>]
        /\ destroyed = {} /\ pending = {} /\ work = NoWork /\ ran = <<>> /\ edges = {}
    BY <2>1 DEF ObjectsInit
  <2>3. work \in Works /\ work.phase = "run" /\ work.order = <<>> /\ work.final = FALSE
    BY <2>2 DEF NoWork, Works
  <2>4. owner \in [Objects -> Nodes] /\ subscribed \in [Objects -> Seq(Subscriptions)]
    <3>1. <<>> \in Seq(Subscriptions)
      OBVIOUS
    <3> QED  BY <2>2, <3>1 DEF Nodes
  <2>5. DestructionTypes
    BY <2>2, <2>3, <2>4 DEF DestructionTypes
  <2>6. Ordered(work.order) /\ Telling /\ Destroying /\ AllTold
    BY <2>3 DEF Ordered, Telling, Destroying, AllTold
  <2>7. Marked /\ OwnedFirst
    BY <2>2, <2>3 DEF Marked, OwnedFirst
  <2> QED  BY <2>2, <2>5, <2>6, <2>7 DEF DestructionInv
<1>2. DestructionInv /\ [ObjectsNext]_objects => DestructionInv'
  <2>1. SUFFICES ASSUME DestructionInv, [ObjectsNext]_objects PROVE DestructionInv'
    OBVIOUS
  <2>2. ObjectsAssumption
    BY ObjectsAssumption
  <2>3. CASE LoadOwners
    BY <2>1, <2>2, <2>3, LoadOwnersKeeps
  <2>4. CASE Subscribe
    BY <2>1, <2>2, <2>4, SubscribeKeeps
  <2>5. CASE Unsubscribe
    BY <2>1, <2>2, <2>5, UnsubscribeKeeps
  <2>6. CASE Collect
    BY <2>1, <2>2, <2>6, CollectKeeps
  <2>7. CASE Repeat
    BY <2>1, <2>2, <2>7, RepeatKeeps
  <2>8. ASSUME NEW o \in Objects, Signal(o) PROVE DestructionInv'
    BY <2>1, <2>2, <2>8, SignalKeeps
  <2>9. ASSUME NEW o \in Objects, Destroy(o) PROVE DestructionInv'
    BY <2>1, <2>2, <2>9, DestroyKeeps
  <2>10. CASE NextGroup
    BY <2>1, <2>2, <2>10, NextGroupKeeps
  <2>11. CASE PrepareFinalize
    BY <2>1, <2>2, <2>11, PrepareFinalizeKeeps
  <2>12. CASE FinalizeStore
    BY <2>1, <2>2, <2>12, FinalizeStoreKeeps
  <2>13. CASE UNCHANGED objects
    <3>1. UNCHANGED <<owner, subscribed, destroyed, pending, work, ran, edges>>
      BY <2>13 DEF objects
    <3>2. DestructionTypes'
      BY <2>1, <3>1 DEF DestructionInv, DestructionTypes
    <3>3. Acyclic' <=> Acyclic
      BY <3>1 DEF Acyclic
    <3>4. Ordered(work.order)'
      BY <2>1, <3>1, <3>3 DEF DestructionInv, Ordered
    <3>5. Telling'
      BY <2>1, <3>1 DEF DestructionInv, Telling, InGroup, NoGroups, IsTold
    <3>6. Destroying'
      BY <2>1, <3>1 DEF DestructionInv, Destroying, InGroup, NoGroups
    <3>7. AllTold' /\ Marked'
      BY <2>1, <3>1 DEF DestructionInv, AllTold, Marked, IsTold
    <3>8. OwnedFirst'
      BY <2>1, <3>1, <3>3 DEF DestructionInv, OwnedFirst
    <3> QED  BY <2>1, <3>1, <3>2, <3>4, <3>5, <3>6, <3>7, <3>8 DEF DestructionInv
  <2> QED  BY <2>1, <2>3, <2>4, <2>5, <2>6, <2>7, <2>8, <2>9, <2>10, <2>11, <2>12, <2>13 DEF ObjectsNext
<1>3. DestructionInv => OwnedFirst
  BY DEF DestructionInv
<1> QED  BY <1>1, <1>2, <1>3, PTL DEF ObjectsSpec
=============================================================================
