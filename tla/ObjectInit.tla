------------------------------- MODULE ObjectInit -------------------------------
(***************************************************************************)
(* How an object of MuranoPL is initialised: for its class and then for    *)
(* each of the parents the properties are set, in any order and again and  *)
(* again until nothing fails any more; all of it happens twice, and the    *)
(* second time notes the constructors, which run at the end.               *)
(***************************************************************************)
EXTENDS Naturals, Sequences, SequencesExt, FiniteSets, FiniteSetsExt

CONSTANTS
    Classes,      \* of the object and its ancestors
    Bottom,       \* the class of the object
    Extends,      \* the parents of each class, in order
    PropertyNames,
    Layouts       \* what the classes may look like

\* Of a layout: `declared' maps pairs of a class and a name to the property
\* declared there, [usage, default, given, reads, fits]: whether it has a
\* default and the model gives a value, what its contract and default read of
\* the object, and whether the value fits.  `init' are the classes with a
\* method .init, with the names of its arguments; `native' have a class in
\* Python.
ASSUME InitAssumption ==
    /\ Extends \in [Classes -> Seq(Classes)] /\ Bottom \in Classes
    /\ IsFiniteSet(Classes) /\ IsFiniteSet(PropertyNames)
    /\ \A l \in Layouts : \A c \in DOMAIN l.init : l.init[c] \subseteq PropertyNames

VARIABLES
    layout,
    phase,      \* "off", the pass 1 or 2, "run" constructors, how it ended
    frames,     \* the calls of initialize: the innermost one last
    usedNames,  \* the sets used_names; calls share them
    values,     \* _properties: the names that have a value
    constructors, \* _initializers, those still to run
    constructed   \* history: those that have run

initialising == <<layout, phase, frames, usedNames, values, constructors, constructed>>

InitInit ==
    /\ layout = [declared |-> <<>>, init |-> <<>>, native |-> {}]
    /\ phase = "off" /\ frames = <<>> /\ usedNames = <<>> /\ values = {}
    /\ constructors = <<>> /\ constructed = <<>>

-----------------------------------------------------------------------------
(* find_single_property, _list_properties *)

\* BFS over the parents: the queue after k classes have been taken from it.
\* One that was there before adds nothing, and decides nothing below.
Links == Cardinality(UNION {{c} \X DOMAIN Extends[c] : c \in Classes})
Queue[k \in 0..(Links + 1)] ==
    IF k = 0 THEN <<Bottom>>
    ELSE LET queue == Queue[k - 1] IN
         IF k > Len(queue) \/ (\E m \in 1..(k - 1) : queue[m] = queue[k]) THEN queue
         ELSE queue \o Extends[queue[k]]
Lineage == Queue[Links + 1]
Derives(c, d) == \E path \in SeqOf(Classes, Cardinality(Classes)) :
                    /\ path # <<>> /\ path[1] = c /\ Last(path) = d
                    /\ \A n \in 1..(Len(path) - 1) : Contains(Extends[path[n]], path[n + 1])
Specs(n) == {c \in ToSet(Lineage) : <<c, n>> \in DOMAIN layout.declared}
Declared(c, n) == layout.declared[<<c, n>>]
OwnNames(c) == {n \in PropertyNames : <<c, n>> \in DOMAIN layout.declared}
InitArguments(c) == IF c \in DOMAIN layout.init THEN layout.init[c] ELSE {}

\* Those declarations that no class overrides: more than one is an error.
Ultimate(n) ==
    {c \in Specs(n) : ~ \E d \in Specs(n) : d # c /\ Derives(d, c)}

\* set_property: all declarations of the property look at the value, and the
\* first one that is not content decides; one that reads a property without a
\* value fails.
Verdict(c, n) ==
    IF ~ Declared(c, n).reads \subseteq values THEN "unset"
    ELSE IF Declared(c, n).fits THEN "fine" ELSE "violation"
SetProperty(n) ==
    LET bad == {k \in DOMAIN Lineage : Lineage[k] \in Specs(n) /\ Verdict(Lineage[k], n) # "fine"}
    IN  IF Cardinality(Ultimate(n)) # 1 THEN "ambiguous"
        ELSE IF bad = {} THEN "fine" ELSE Verdict(Lineage[Min(bad)], n)

-----------------------------------------------------------------------------
(* initialize *)

\* An argument that is an empty set is replaced by a new one, as None is.
UsedNames(shared) == IF shared > 0 /\ usedNames[shared] # {} THEN shared
                ELSE Len(usedNames) + 1
Frame(c, shared) ==
    LET names == OwnNames(c) \cup InitArguments(c) IN
    [cls |-> c, left |-> names, errors |-> 0, last |-> Cardinality(names),
     used |-> UsedNames(shared), next |-> 1,
     config |-> {n \in OwnNames(c) : Declared(c, n).usage = "Config"}]
Call(c, shared, before) ==
    /\ frames' = Append(before, Frame(c, shared))
    /\ usedNames' = IF UsedNames(shared) > Len(usedNames) THEN Append(usedNames, {}) ELSE usedNames

\* The object of a model: it is created with its class and then initialised
\* while its store is `initializing', and once more when this is over.
LoadObject ==
    /\ phase = "off"
    /\ layout' \in Layouts /\ phase' = "first"
    /\ UNCHANGED <<frames, usedNames, values, constructors, constructed>>

Initialize ==
    /\ phase \in {"first", "second"} /\ frames = <<>>
    /\ Call(Bottom, 0, <<>>)
    /\ UNCHANGED <<layout, phase, values, constructors, constructed>>

Working == Last(frames)
WithTop(f) == Append(Front(frames), f)
Fail(how) ==
    /\ phase' = how
    /\ UNCHANGED <<layout, frames, usedNames, values, constructors, constructed>>

\* Properties from the configuration of the class: nothing is caught.
SetConfig(n) ==
    /\ frames # <<>> /\ phase \in {"first", "second"} /\ n \in Working.config
    /\ IF SetProperty(n) # "fine" THEN Fail(SetProperty(n))
       ELSE /\ values' = values \cup {n}
            /\ frames' = WithTop([Working EXCEPT !.config = @ \ {n}])
            /\ UNCHANGED <<layout, phase, usedNames, constructors, constructed>>

\* One name of a sweep.  A name that a class below has dealt with is skipped,
\* as well as one of configuration, of a class, or of the run time that has
\* no default; arguments of .init are put aside.
Skipped(c, n) ==
    LET usage == Declared(c, n).usage IN
    \/ usage \in {"Config", "Static"}
    \/ usage = "Runtime" /\ ~ Declared(c, n).default
SetName(n) ==
    /\ frames # <<>> /\ phase \in {"first", "second"}
    /\ Working.config = {} /\ n \in Working.left
    /\ LET c == Working.cls
           argument == n \in InitArguments(c)
           known == n \in usedNames[Working.used]
           result == IF known \/ argument \/ Skipped(c, n) THEN "nothing" ELSE SetProperty(n)
           through == result \in {"nothing", "fine"}
       IN
       IF result = "ambiguous" \/ (result = "violation" /\ Declared(c, n).usage # "Runtime")
       THEN Fail(result)
       ELSE /\ values' = IF result = "fine" THEN values \cup {n} ELSE values
            /\ usedNames' = IF through THEN [usedNames EXCEPT ![Working.used] = @ \cup {n}]
                            ELSE usedNames
            /\ frames' = WithTop([Working EXCEPT !.left = @ \ {n},
                                     !.errors = IF result = "unset" THEN @ + 1 ELSE @])
            /\ UNCHANGED <<layout, phase, constructors, constructed>>

\* After a sweep: again, if fewer names failed than the time before.
GivesUp_mutant(f) == f.errors > 0
GivesUp(f) == f.errors >= f.last
EndSweep ==
    /\ frames # <<>> /\ phase \in {"first", "second"}
    /\ Working.config = {} /\ Working.left = {} /\ Working.errors > 0
    /\ IF GivesUp(Working) THEN Fail("circular")
       ELSE /\ frames' = WithTop([Working EXCEPT !.left = OwnNames(Working.cls) \cup InitArguments(Working.cls),
                                             !.last = Working.errors, !.errors = 0])
            /\ UNCHANGED <<layout, phase, usedNames, values, constructors, constructed>>

Settled == /\ frames # <<>> /\ phase \in {"first", "second"}
           /\ Working.config = {} /\ Working.left = {} /\ Working.errors = 0

\* The class in Python, before the parents, and only the second time.
NoteExtension(c) ==
    IF phase = "second" /\ c \in layout.native
    THEN Append(constructors, <<"__init__", c>>) ELSE constructors
NextParent ==
    /\ Settled /\ Working.next <= Len(Extends[Working.cls])
    /\ Call(Extends[Working.cls][Working.next], Working.used, WithTop([Working EXCEPT !.next = @ + 1]))
    /\ constructors' = IF Working.next = 1 THEN NoteExtension(Working.cls) ELSE constructors
    /\ UNCHANGED <<layout, phase, values, constructed>>

\* After the parents.  What was noted before is still to run, so that a class
\* that is a parent twice is noted twice.
NotesInit(c) ==
    Append(IF Extends[c] = <<>> THEN NoteExtension(c) ELSE constructors, <<".init", c>>)
Return ==
    /\ Settled /\ Working.next > Len(Extends[Working.cls])
    /\ constructors' = IF phase = "second" THEN NotesInit(Working.cls) ELSE constructors
    /\ frames' = Front(frames)
    /\ phase' = IF Len(frames) > 1 THEN phase
                ELSE IF phase = "first" THEN "second" ELSE "run"
    /\ UNCHANGED <<layout, usedNames, values, constructed>>

\* The initialisers of all objects of the model, once it is loaded.
RunConstructor ==
    /\ phase = "run"
    /\ IF constructors = <<>> THEN phase' = "done" /\ UNCHANGED <<constructors, constructed>>
       ELSE /\ LET fn == Head(constructors) IN
               constructed' = IF fn[1] = "__init__" \/ fn[2] \in DOMAIN layout.init
                              THEN Append(constructed, fn) ELSE constructed
            /\ constructors' = Tail(constructors) /\ UNCHANGED phase
    /\ UNCHANGED <<layout, frames, usedNames, values>>

InitNext ==
    \/ LoadObject \/ Initialize \/ EndSweep \/ NextParent \/ Return \/ RunConstructor
    \/ \E n \in PropertyNames : SetConfig(n) \/ SetName(n)

InitSpec == InitInit /\ [][InitNext]_initialising

-----------------------------------------------------------------------------
\* The names that some order could give values to, starting from those that
\* have one: they are in every set that no further name can join.
CanJoin(n, set) == \A c \in Specs(n) : Declared(c, n).reads \subseteq set /\ Declared(c, n).fits
Settable(names) ==
    {n \in PropertyNames : \A set \in SUBSET PropertyNames :
        values \subseteq set /\ (\A m \in names : CanJoin(m, set) => m \in set) => n \in set}

\* Initialisation gives up because of a circle only if there is one: however
\* the names were ordered, one that is left cannot be set before another one
\* that is left.  (A name that only a parent sets counts as such.)
CircularMeansCircular ==
    phase = "circular" =>
        LET pending == {n \in OwnNames(Working.cls) \ usedNames[Working.used] : ~Skipped(Working.cls, n)} IN
        ~ (pending \subseteq Settable(pending))

\* Constructors run from the ancestors down, each after the class in Python.
ParentsFirst ==
    \A k \in DOMAIN constructed : constructed[k][1] = ".init" =>
        LET before == {constructed[m] : m \in 1..(k - 1)}
            c == constructed[k][2]
        IN  /\ c \in layout.native => <<"__init__", c>> \in before
            /\ \A d \in Classes : d # c /\ Derives(c, d) /\ d \in DOMAIN layout.init
                                    => <<".init", d>> \in before

\* The two passes over the properties of an object and its constructors
\* (MuranoObject.initialize): none is given up without need, none runs early.
InitialisedInOrder == CircularMeansCircular /\ ParentsFirst
=============================================================================
