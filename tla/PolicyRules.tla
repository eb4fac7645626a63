------------------------------- MODULE PolicyRules -------------------------------
(***************************************************************************)
(* Before a deployment the object model is turned into rules of Congress,  *)
(* which says what is wrong with it.  What it is asked about are the       *)
(* objects that are connected to the environment.                          *)
(***************************************************************************)
EXTENDS Naturals

CONSTANTS
    Parts,          \* ids of objects that the environment may hold
    EnvironmentId,
    Bad,            \* objects that the policies of Congress reject
    ClassesOf,      \* of an object, and their ancestors; all of them are found
    MaxChanges        \* bound: changes of the model

Outside == "outside"            \* the holder of what is not in the model
Tenant == "tenant"              \* the owner of the environment

\* Where an object is, below a property of its holder, or where its id is
\* written: the value itself, a key of a dictionary there (of one in it, ...),
\* an element of a list, a dictionary in a list, a list in a dictionary; and
\* an element of the list `applications' of the environment.
Shapes == {"value", "dict", "list", "dictInList", "listInDict", "applications"}

ASSUME PolicyAssumption ==
    /\ EnvironmentId \notin Parts /\ Outside \notin Parts \cup {EnvironmentId}
    /\ Bad \subseteq Parts /\ MaxChanges \in Nat

VARIABLES
    heldBy, shape,  \* of every object
    mentions,       \* ids in properties: [of, as, id]
    changes,
    converting,     \* "no", "walked", "joining", "converted", "invalid", "valid"
    objectRules,    \* murano:objects+: [id, owner]
    propertyRules,  \* murano:properties+ with a value that may be an id
    relationshipRules,  \* murano:relationships+: pairs
    connectedRules, \* murano:connected+: pairs
    typeRules       \* murano:parent_types+: pairs

policy == <<heldBy, shape, mentions, changes, converting, objectRules, propertyRules,
            relationshipRules, connectedRules, typeRules>>
converted == <<objectRules, propertyRules, relationshipRules, connectedRules, typeRules>>

PolicyInit ==
    /\ heldBy = [o \in Parts |-> Outside] /\ shape = [o \in Parts |-> "value"]
    /\ mentions = {} /\ changes = 0 /\ converting = "no"
    /\ objectRules = {} /\ propertyRules = {} /\ relationshipRules = {}
    /\ connectedRules = {} /\ typeRules = {}

InModel == {o \in Parts : heldBy[o] # Outside}

-----------------------------------------------------------------------------
(* The users                                                               *)

ModelChanged == converting = "no" /\ changes < MaxChanges /\ changes' = changes + 1
Put(o, h, s) ==
    /\ ModelChanged /\ o \notin InModel /\ h \in InModel \cup {EnvironmentId}
    /\ s = "applications" => h = EnvironmentId
    /\ heldBy' = [heldBy EXCEPT ![o] = h] /\ shape' = [shape EXCEPT ![o] = s]
    /\ UNCHANGED <<mentions, converting, converted>>
Write(o, s, t) ==
    /\ ModelChanged /\ o \in InModel /\ s # "applications"
    /\ mentions' = mentions \cup {[of |-> o, as |-> s, id |-> t]}
    /\ UNCHANGED <<heldBy, shape, converting, converted>>

-----------------------------------------------------------------------------
(* CongressRulesManager.convert                                            *)

\* _create_property_rules: of a list it takes the elements that are no
\* dictionaries; it stops at an object, which it relates to this one.
Relates(s) == s \in {"value", "dict"}
Mentions(s) == s \in {"value", "dict", "list", "listInDict"}

\* _process_item: the environment offers the elements of `applications', by
\* the path that led to them.
Services == {<<EnvironmentId, o>> : o \in {p \in InModel : shape[p] = "applications"}}

\* _get_parent_types
ParentTypes == UNION {{<<o, c>> : c \in ClassesOf[o]} : o \in InModel}

Walk ==
    /\ converting = "no" /\ converting' = "walked"
    /\ objectRules' = {[id |-> o, owner |-> heldBy[o]] : o \in InModel}
                          \cup {[id |-> EnvironmentId, owner |-> Tenant]}
    /\ relationshipRules' = Services \cup {<<heldBy[o], o>> : o \in {p \in InModel : Relates(shape[p])}}
    /\ propertyRules' = {<<m.of, m.id>> : m \in {n \in mentions : Mentions(n.as)}}
    /\ typeRules' = ParentTypes
    /\ UNCHANGED <<heldBy, shape, mentions, changes, connectedRules>>

\* A property whose value is the id of an object is a relationship.
IsRelationship(r) == \E rule \in objectRules : rule.id = r[2]
CreateRelationships ==
    /\ converting = "walked" /\ converting' = "joining"
    /\ LET found == {r \in propertyRules : IsRelationship(r)}
       IN  /\ relationshipRules' = relationshipRules \cup found
           /\ propertyRules' = propertyRules \ found
           /\ connectedRules' = relationshipRules'
    /\ UNCHANGED <<heldBy, shape, mentions, changes, objectRules, typeRules>>

Joined(pairs) == pairs \cup UNION {{<<p[1], q[2]>> : q \in {r \in pairs : p[2] = r[1]}} : p \in pairs}
\* What a loop that joins once would do.
Again_mutant(pairs) == FALSE
Again(pairs) == Joined(pairs) # pairs
TransitiveClosure ==
    /\ converting = "joining"
    /\ connectedRules' = Joined(connectedRules)
    /\ converting' = IF Again(connectedRules) THEN "joining" ELSE "converted"
    /\ UNCHANGED <<heldBy, shape, mentions, changes, objectRules, propertyRules,
                   relationshipRules, typeRules>>

-----------------------------------------------------------------------------
(* ModelPolicyEnforcer.validate                                            *)

\* Congress: rules such as those of the administrator's guide, which report
\* objects by what they are connected to; the messages for others are dropped.
Reported == {r \in connectedRules : r[2] \in Bad}
Messages == {r \in Reported : r[1] = EnvironmentId}
Validate ==
    /\ converting = "converted"
    /\ converting' = IF Messages # {} THEN "invalid" ELSE "valid"
    /\ UNCHANGED <<heldBy, shape, mentions, changes, converted>>

\* The next deployment has another model to convert.
EditAgain ==
    /\ converting \in {"invalid", "valid"} /\ changes < MaxChanges
    /\ converting' = "no" /\ objectRules' = {} /\ propertyRules' = {} /\ relationshipRules' = {}
    /\ connectedRules' = {} /\ typeRules' = {}
    /\ UNCHANGED <<heldBy, shape, mentions, changes>>

PolicyNext ==
    \/ \E o \in Parts, h \in Parts \cup {EnvironmentId}, s \in Shapes : Put(o, h, s)
    \/ \E o \in Parts, s \in Shapes, t \in Parts \cup {EnvironmentId} : Write(o, s, t)
    \/ Walk \/ CreateRelationships \/ TransitiveClosure \/ Validate \/ EditAgain

PolicySpec == PolicyInit /\ [][PolicyNext]_policy

-----------------------------------------------------------------------------
\* The objects below the environment that are met without going through a
\* list, other than the one of the applications, or by an id.
MetFrom(known) ==
    {o \in InModel : \/ heldBy[o] \in known /\ shape[o] \in {"applications", "value", "dict"}
                     \/ \E m \in mentions : m.of \in known /\ Mentions(m.as) /\ m.id = o}
InSight == {o \in Parts : \A known \in SUBSET (Parts \cup {EnvironmentId}) :
                EnvironmentId \in known /\ MetFrom(known) \subseteq known => o \in known}

\* Congress rejects every model with an object that its policies reject in
\* sight of the environment, over however many references, and no model
\* without one (CongressRulesManager.convert, ModelPolicyEnforcer.validate).
PolicySeesTheModel ==
    /\ converting = "valid" => InSight \cap Bad = {}
    /\ converting = "invalid" => InSight \cap Bad # {}
===================================================================================
