----------------------------- MODULE Assignments -----------------------------
(***************************************************************************)
(* Assignments of MuranoPL whose target is a path: $x.key[0].name: value.  *)
(* Dictionaries and lists are immutable values, so a step into one of them *)
(* writes a changed copy into what it is a part of; a step into an object  *)
(* writes its property, which everybody who refers to the object sees.     *)
(* Where a property is kept depends on the class whose method runs.        *)
(***************************************************************************)
EXTENDS Integers, Sequences, SequencesExt

CONSTANTS
    Variables, ObjectIds, Keys, Indices,
    DeclaredBy,       \* of every class: names of the properties it declares ...
    Inherited,      \* ... and those that come from its ancestors
    ReadOnly,       \* properties of a usage that nobody may write
    Static,         \* properties of usage Static, kept once for all objects
    Base, Derived,  \* the objects are of the class Derived, which extends Base
    Stranger,       \* another class
    MaxAssignments, MaxSteps  \* bounds; a path has at most so many steps

ClassNames == {Base, Derived, Stranger}
Names == UNION {DeclaredBy[c] \cup Inherited[c] : c \in ClassNames} \cup Keys

ASSUME AssignmentAssumption ==
    /\ DeclaredBy \in [ClassNames -> SUBSET Names] /\ Inherited \in [ClassNames -> SUBSET Names]
    /\ DeclaredBy[Base] \subseteq Inherited[Derived] /\ MaxAssignments \in Nat /\ MaxSteps \in Nat
    /\ Indices \subseteq Int

Nil == [is |-> "null"]
Word(w) == [is |-> "word", word |-> w]
Ref(o) == [is |-> "object", object |-> o]
Dict(f) == [is |-> "dict", at |-> f]
List(s) == [is |-> "list", items |-> s]
EmptyDict == Dict([k \in {} |-> Nil])
Error == [is |-> "error"]
Words == List(<<Word("b"), Word("c")>>)
Literals == {Word("a"), EmptyDict, Words} \cup {Ref(o) : o \in ObjectIds}
\* What earlier statements may have left.
Values == Literals \cup {Nil, List(<<Words, EmptyDict>>)}
          \cup {Dict([k \in {n} |-> Words]) : n \in Names}

\* Where values are kept: variables, properties of an object (common to its
\* classes, or private to one of them), static properties.
Cells == [of : {"variable"}, name : Variables]
         \cup [of : ObjectIds, part : {"this", Base, Derived}, name : Names]
         \cup [of : {"static"}, name : Static]
NoCell == [of |-> "none"]
VariableCell(v) == [of |-> "variable", name |-> v]

VARIABLES memory, assigned, last
assigning == <<memory, assigned, last>>

Nothing == [path |-> <<>>, caller |-> Base, value |-> Error]
AssignmentsInit ==
    /\ \E x \in Values, p \in Values :  \* all variables were given the same
          memory = [c \in Cells |-> IF c.of = "variable" THEN x
                                   ELSE IF c.of = "static" THEN Nil
                                   ELSE IF c.part = "this" THEN p ELSE Error]
    /\ assigned = 0 /\ last = Nothing

-----------------------------------------------------------------------------
(* MuranoObject.get_property, set_property: the method that runs belongs to  *)
(* the class `caller'.                                                       *)

Related(caller) == caller \in {Base, Derived}
StartType(caller) == IF Related(caller) THEN caller ELSE Derived
IsDeclared(name, caller) == name \in DeclaredBy[StartType(caller)] \cup Inherited[StartType(caller)]

PropertyCell(o, name, caller) ==
    IF IsDeclared(name, caller)
    THEN IF name \in Static THEN [of |-> "static", name |-> name]
         ELSE [of |-> o, part |-> "this", name |-> name]
    ELSE IF Related(caller) THEN [of |-> o, part |-> caller, name |-> name] ELSE NoCell
MayWrite(name, caller) ==
    IsDeclared(name, caller) => Related(caller) /\ name \notin ReadOnly

-----------------------------------------------------------------------------
(* lhs_expression: a path is a variable and then keys and indices.           *)

Steps == [key : Names] \cup [index : Indices]
IsKey(step) == "key" \in DOMAIN step
Paths == {<<v>> \o s : v \in Variables, s \in UNION {[1..n -> Steps] : n \in 0..MaxSteps}}

\* The getters.  A negative index counts from the end.
Position(i, n) == IF i < 0 THEN n + i + 1 ELSE i + 1
Got(src, step, caller) ==
    CASE IsKey(step) /\ src.is = "dict" ->
            IF step.key \in DOMAIN src.at THEN src.at[step.key] ELSE EmptyDict
      [] IsKey(step) /\ src.is = "object" ->
            LET cell == PropertyCell(src.object, step.key, caller) IN
            IF cell = NoCell THEN Error
            ELSE IF memory[cell] = Error THEN EmptyDict ELSE memory[cell]
      [] ~IsKey(step) /\ src.is = "list" ->
            LET p == Position(step.index, Len(src.items)) IN
            IF p \in 1..Len(src.items) THEN src.items[p] ELSE Error
      [] OTHER -> Error
\* What each prefix of the path stands for.
Reads(path, caller) ==
    LET value[n \in 1..Len(path)] ==
            IF n = 1 THEN memory[VariableCell(path[1])] ELSE Got(value[n - 1], path[n], caller)
    IN  value
Get(path, caller) == Reads(path, caller)[Len(path)]

\* Python: src[:index] + (value,) + src[index + 1:]
Slice(s, a, b) ==
    LET at(i) == IF i < 0 THEN IF Len(s) + i < 0 THEN 0 ELSE Len(s) + i
                 ELSE IF i > Len(s) THEN Len(s) ELSE i
    IN  SubSeq(s, at(a) + 1, at(b))
Spliced_mutant(s, i, value) == Slice(s, 0, i) \o <<value>> \o Slice(s, i, Len(s))
Spliced(s, i, value) == Slice(s, 0, i) \o <<value>> \o Slice(s, i + 1, Len(s))

\* The setter of one step: what is to be written where, [cell, value].  A copy is
\* made of a dictionary or a list; once a cell is reached, the rest stays.
Fails == [cell |-> NoCell, value |-> Error]
SetIn(src, step, written, caller) ==
    IF written.cell # NoCell \/ written.value = Error THEN written
    ELSE CASE IsKey(step) /\ src.is = "dict" ->
                 [written EXCEPT !.value = Dict([k \in DOMAIN src.at \cup {step.key} |->
                     IF k = step.key THEN written.value ELSE src.at[k]])]
           [] IsKey(step) /\ src.is = "object" ->
                 IF MayWrite(step.key, caller) /\ PropertyCell(src.object, step.key, caller) # NoCell
                 THEN [written EXCEPT !.cell = PropertyCell(src.object, step.key, caller)]
                 ELSE Fails
           [] ~IsKey(step) /\ src.is = "list" ->
                 [written EXCEPT !.value = List(Spliced(src.items, step.index, written.value))]
           [] OTHER -> Fails
\* From the last step backwards: what is to be written after the last n - 1.
Setters(path, value, caller) ==
    LET src == Reads(path, caller)
        after[n \in 1..Len(path)] ==
            IF n = 1 THEN [cell |-> NoCell, value |-> value]
            ELSE SetIn(src[Len(path) - n + 1], path[Len(path) - n + 2], after[n - 1], caller)
    IN  after
Written(path, value, caller) ==
    LET outcome == Setters(path, value, caller)[Len(path)]
    IN  IF outcome.cell = NoCell /\ outcome.value # Error
        THEN [outcome EXCEPT !.cell = VariableCell(path[1])] ELSE outcome

\* LhsExpression.__call__; a target that cannot be written is an exception.
AssignTo(path, value, caller) ==
    /\ assigned < MaxAssignments /\ assigned' = assigned + 1
    /\ value # Error
    /\ LET w == Written(path, value, caller) IN
       IF w.cell = NoCell
       THEN last' = Nothing /\ UNCHANGED memory
       ELSE /\ memory' = [memory EXCEPT ![w.cell] = w.value]
            /\ last' = [path |-> path, caller |-> caller, value |-> value]

AssignmentsNext ==
    \E path \in Paths, caller \in ClassNames :
        \/ \E value \in Literals : AssignTo(path, value, caller)
        \/ \E from \in Variables : AssignTo(path, memory[VariableCell(from)], caller)

AssignmentsSpec == AssignmentsInit /\ [][AssignmentsNext]_assigning
-----------------------------------------------------------------------------
\* The places a path goes through, one for each prefix: a cell, and the keys
\* and positions within the value it holds.
Place(cell, within) == [cell |-> cell, within |-> within]
PartAt(src, step) ==
    IF ~IsKey(step) /\ src.is = "list" THEN [index |-> Position(step.index, Len(src.items))] ELSE step
NextPlace(here, src, step, caller) ==
    IF IsKey(step) /\ src.is = "object"
    THEN Place(PropertyCell(src.object, step.key, caller), <<>>)
    ELSE Place(here.cell, Append(here.within, PartAt(src, step)))
Route(path, caller) ==
    LET src == Reads(path, caller)
        place[n \in 1..Len(path)] ==
            IF n = 1 THEN Place(VariableCell(path[1]), <<>>)
            ELSE NextPlace(place[n - 1], src[n - 1], path[n], caller)
    IN  place
InRange(path, caller) ==
    LET src == Reads(path, caller) IN
    \A n \in 1..(Len(path) - 1) :
        ~IsKey(path[n + 1]) /\ src[n].is = "list" => path[n + 1].index \in 0..(Len(src[n].items) - 1)

\* A prefix of a path goes through a place.
PassesBy(at, place) == at.cell = place.cell /\ IsPrefix(place.within, at.within)
\* A path sees what is written at the end of another: it goes through that
\* place, or ends where that place is a part.
Sees(path, caller, place) ==
    LET route == Route(path, caller) IN
    \/ \E n \in 1..Len(path) : PassesBy(route[n], place)
    \/ PassesBy(place, route[Len(path)])

\* An object that refers to itself: the place is a part of the way to it.
Crosses(path, caller) ==
    LET route == Route(path, caller) IN
    \E n \in 1..(Len(path) - 1) : PassesBy(route[n], route[Len(path)])

\* What was assigned to a path is what the same method then reads there; and
\* an assignment is seen nowhere else: not through another variable that was
\* given the same dictionary, not in the other elements of the list, not in a
\* property of the same name that is private to another class.  (Indices that
\* are negative or beyond the end do something else: see the README.)
AssignedIsRead ==
    [][LET path == last'.path
           caller == last'.caller
       IN  (last = Nothing /\ last' # Nothing /\ InRange(path, caller)) =>
           /\ Crosses(path, caller) \/ Get(last.path, last.caller)' = last'.value
           /\ LET place == Route(path, caller)[Len(path)] IN
              \A q \in Paths, c \in {Base, Derived} :
                  Get(q, c)' # Get(q, c) => Sees(q, c, place)]_assigning
=============================================================================
