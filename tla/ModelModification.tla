---------------------------- MODULE ModelModification ----------------------------
(***************************************************************************)
(* Congress may also answer with actions that change the object model      *)
(* before a deployment: these are looked up, made and applied in order.    *)
(***************************************************************************)
EXTENDS Naturals

CONSTANTS
    Members,       \* objects: the environment and others; some are not made yet
    Environment,
    Fields,        \* names of properties
    Firsts,        \* the references that the model may have at first
    MaxActions     \* bound: actions of one answer

\* A reference: [of, field, as, to].  `as' is "value", "item" of a tuple,
\* "key" or "entry" of a dictionary, or "nested" deeper inside of these.
ReferencesOf == [of : Members, field : Fields, as : {"value", "item", "key", "entry", "nested"}, to : Members]

ASSUME ModificationAssumption ==
    /\ Environment \in Members /\ MaxActions \in Nat /\ Firsts \subseteq SUBSET ReferencesOf

VARIABLES
    references,    \* between the objects of the model
    carriedOut,       \* how many actions of the answer were
    cache,         \* names whose classes were loaded
    modifying,     \* "applying", "failed", "modified"
    removed        \* history: objects that remove-object took out

modification == <<references, carriedOut, cache, modifying, removed>>

ModificationInit ==
    /\ references \in Firsts
    /\ carriedOut = 0 /\ cache = {} /\ modifying = "applying" /\ removed = {}

-----------------------------------------------------------------------------
(* ActionUtils._get_objects_by_id, without a memory of where it has been   *)

ClosedUnderReferences(objects) == \A r \in references : r.of \in objects => r.to \in objects
FoundFrom(start) ==
    {o \in Members : \A known \in SUBSET Members :
                        start \subseteq known /\ ClosedUnderReferences(known) => o \in known}
ObjectsById == FoundFrom({Environment})

\* A model in which an object can be reached from itself exhausts the stack.
RunsForEver == \E o \in ObjectsById : o \in FoundFrom({r.to : r \in {s \in references : s.of = o}})
CheckPresent(ids) == ~RunsForEver /\ ids \subseteq ObjectsById

-----------------------------------------------------------------------------
(* The actions; parameters are those of their constructors                 *)

ActionNames == {"remove-object", "set-property", "remove-relation", "add-object", "add-relation"}
ActionSpecs == [name : ActionNames \cup {"unknown"}, object : Members, field : Fields, to : Members]

ReferencesAt(o, f) == {r \in references : r.of = o /\ r.field = f}

\* remove-object looks at values and one level into tuples and dictionaries.
MatchesObjectId_mutant(r, o) == r.to = o /\ r.as \in {"value", "item", "entry"}
MatchesObjectId(r, o) == r.to = o /\ r.as \in {"value", "item", "key", "entry"}
RemoveObject(a) ==
    references \ {r \in references : r.of \in ObjectsById /\ MatchesObjectId(r, a.object)}

\* set-property with a value that is no object, remove-relation with null
SetProperty(a) == references \ ReferencesAt(a.object, a.field)

\* add-relation: both are in the model; lists and dictionaries are replaced.
AddRelation(a) ==
    (references \ ReferencesAt(a.object, a.field))
       \cup {[of |-> a.object, field |-> a.field, as |-> "value", to |-> a.to]}

\* add-object: a new object, of the class that the contract of the property
\* names: the action puts a Python class where the name of the type should be.
AddObject(a) == AddRelation(a)

Needs(a) == IF a.name = "add-relation" THEN {a.object, a.to} ELSE {a.object}
Applied(a) ==
    CASE a.name = "remove-object" -> RemoveObject(a)
      [] a.name \in {"set-property", "remove-relation"} -> SetProperty(a)
      [] a.name = "add-relation" -> AddRelation(a)
      [] a.name = "add-object" -> AddObject(a)

-----------------------------------------------------------------------------
(* ModelPolicyEnforcer.modify, ModifyActionManager                         *)

\* load_action, the constructor, modify; what fails ends the task of the
\* engine, and what was applied before stays in the model.
LoadAction(name) == name \in cache \cup ActionNames
NewObject(o) == o # Environment /\ ~ \E r \in references : o \in {r.of, r.to}
Fails == modifying' = "failed" /\ UNCHANGED <<carriedOut, removed>>
ApplyAction(a) ==
    /\ modifying = "applying" /\ carriedOut < MaxActions
    /\ a.name = "add-object" => NewObject(a.to) /\ a.to \notin removed
    /\ \/ /\ LoadAction(a.name) /\ CheckPresent(Needs(a))
          /\ references' = Applied(a)
          /\ removed' = IF a.name = "remove-object"
                           /\ ~ \E r \in references' : r.to = a.object /\ r.as = "nested"
                        THEN removed \cup {a.object} ELSE removed
          /\ cache' = cache \cup {a.name} /\ carriedOut' = carriedOut + 1 /\ UNCHANGED modifying
       \/ /\ LoadAction(a.name) => ~CheckPresent(Needs(a))
          /\ Fails /\ cache' = IF a.name \in ActionNames THEN cache \cup {a.name} ELSE cache
          /\ UNCHANGED references
       \/ \* a contract refuses what is assigned, by remove-object after others
          /\ LoadAction(a.name) /\ CheckPresent(Needs(a))
          /\ references' \in IF a.name = "remove-object"
                             THEN {references \ gone : gone \in SUBSET (references \ Applied(a))}
                             ELSE {references}
          /\ Fails /\ cache' = cache \cup {a.name}

Modified ==
    /\ modifying = "applying"
    /\ modifying' = "modified" /\ UNCHANGED <<references, carriedOut, cache, removed>>

ModificationNext == (\E a \in ActionSpecs : ApplyAction(a)) \/ Modified
ModificationSpec == ModificationInit /\ [][ModificationNext]_modification

-----------------------------------------------------------------------------
\* What a policy removed from the model, with nothing left that refers to it
\* from deep inside of a value, is out of it whatever the later actions of the
\* answer relate (RemoveObjectAction.modify, AddRelationAction.modify).
RemovedStaysOut == removed \cap ObjectsById \subseteq {Environment}
===================================================================================
