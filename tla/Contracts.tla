------------------------------- MODULE Contracts -------------------------------
(***************************************************************************)
(* Contracts of properties and arguments in MuranoPL: a value is           *)
(* transformed into one that the contract describes, or violates it.       *)
(* Objects are loaded in two rounds: in the first one, references to       *)
(* objects that were not met yet stay references and are not looked at.    *)
(*                                                                         *)
(* A value is a record with its type `t' and its content `v'; a contract   *)
(* has the methods applied to $, in order, or is a list, a dictionary or a *)
(* value.                                                                  *)
(***************************************************************************)
EXTENDS Integers, Sequences, SequencesExt, FiniteSets

CONSTANTS
    ModelObjects,  \* ids of the objects of the model
    KindOf,        \* their classes
    OwnerOf,       \* their owners: another object, or Nobody
    Compatible,    \* pairs of classes: the first one is or extends the second
    This,          \* the object that has the property
    ContractSpecs, Data

ASSUME ContractAssumption ==
    /\ This \in ModelObjects /\ DOMAIN KindOf = ModelObjects

VARIABLES
    contract, data,   \* what is being checked
    met,              \* objects that the first round has created so far
    round, result     \* rounds done; what came out

contracting == <<contract, data, met, round, result>>

Null == [t |-> "null", v |-> ""]
NoValue == [t |-> "none", v |-> ""]
Str(s) == [t |-> "str", v |-> s]
Num(n) == [t |-> "int", v |-> n]
Obj(o) == [t |-> "obj", v |-> o]
Violation == [t |-> "violation", v |-> ""]
NotFound == [t |-> "not found", v |-> ""]
IsError(value) == value.t \in {"violation", "not found"}

ContractsInit ==
    /\ contract = Null /\ data = Null /\ met = {} /\ round = 0 /\ result = NoValue

-----------------------------------------------------------------------------
(* Contract methods: transform and validate of each *)

TextOf(n) == IF n < 0 THEN "-1" ELSE <<"0", "1", "2">>[n + 1]
NumberOf == [s \in {"0", "1", "2"} |-> CHOOSE n \in 0..2 : TextOf(n) = s]

ValidString(x) == x.t \in {"null", "str"}
AsString(x) ==
    CASE x.t \in {"null", "str"} -> x
      [] x.t = "int" -> Str(TextOf(x.v))
      [] x.t = "bool" -> Str(IF x.v THEN "True" ELSE "False")
      [] x.t = "obj" -> Str(x.v)
      [] OTHER -> Violation

ValidInt(x) == x.t \in {"null", "int"}
AsInt(x) ==
    CASE x.t \in {"null", "int"} -> x
      [] x.t = "bool" -> Num(IF x.v THEN 1 ELSE 0)
      [] x.t = "str" /\ x.v \in DOMAIN NumberOf -> Num(NumberOf[x.v])
      [] OTHER -> Violation

ValidBool(x) == x.t \in {"null", "bool"}
Truth(x) ==
    CASE x.t = "bool" -> x.v
      [] x.t = "int" -> x.v # 0
      [] x.t = "str" -> x.v # ""
      [] x.t = "list" -> x.v # <<>>
      [] x.t = "dict" -> DOMAIN x.v # {}
      [] OTHER -> TRUE
AsBool(x) == IF x.t = "null" THEN x ELSE [t |-> "bool", v |-> Truth(x)]

\* check: references are let through.  The predicate is $ > 0.
Positive(x) == x.t = "ref" \/ (x.t = "int" /\ x.v > 0)

\* class, template: objects, those that a model describes, which are loaded,
\* and the ids of objects.  A template loads into a store that it forgets.
IsInstance(x, class) == x.t = "obj" /\ <<KindOf[x.v], class>> \in Compatible
ValidClass(x, class) == x.t = "null" \/ IsInstance(x, class)
AsClass_mutant(x, class, store, initializing) ==
    CASE x.t \in {"null", "obj"} -> x
      [] x.t = "model" -> Obj(x.v)
      [] x.t \in {"str", "ref"} /\ x.v \in store -> Obj(x.v)
      [] x.t \in {"str", "ref"} /\ x.v \notin store ->
           IF initializing THEN [t |-> "ref", v |-> x.v] ELSE NotFound
      [] OTHER -> Violation
AsClass(x, class, store, initializing) ==
    LET checked(y) == IF ValidClass(y, class) THEN y ELSE Violation IN
    CASE x.t = "null" -> x
      [] x.t = "obj" -> checked(x)
      [] x.t = "model" -> checked(Obj(x.v))
      [] x.t \in {"str", "ref"} /\ x.v \in store -> checked(Obj(x.v))
      [] x.t \in {"str", "ref"} /\ x.v \notin store ->
           IF initializing THEN [t |-> "ref", v |-> x.v] ELSE NotFound
      [] OTHER -> Violation
AsTemplate(x, class) ==
    CASE x.t = "null" -> x
      [] x.t \in {"obj", "model"} ->
           IF IsInstance(Obj(x.v), class) THEN [t |-> "model", v |-> x.v] ELSE Violation
      [] OTHER -> Violation

\* owned, notOwned: find_object_owner.  When a value is validated or its type
\* is checked, nothing tells the method what `this' is.
Owned(o, this) ==
    LET up[n \in 0..Cardinality(ModelObjects)] ==
            IF n = 0 THEN OwnerOf[o]
            ELSE IF up[n - 1] \in ModelObjects THEN OwnerOf[up[n - 1]] ELSE up[n - 1]
    IN  this \in {up[n] : n \in DOMAIN up} /\ this \in ModelObjects
ValidOwned(x, this, owned) ==
    x.t \in {"null", "ref"} \/ (x.t = "obj" /\ (Owned(x.v, this) <=> owned))

Checked(x, holds) == IF holds THEN x ELSE Violation
Transformed(m, x, store, initializing) ==
    CASE m.name = "string" -> AsString(x)
      [] m.name = "int" -> AsInt(x)
      [] m.name = "bool" -> AsBool(x)
      [] m.name = "notNull" -> Checked(x, x.t # "null")
      [] m.name = "check" -> Checked(x, Positive(x))
      [] m.name = "class" -> AsClass(x, m.type, store, initializing)
      [] m.name = "template" -> AsTemplate(x, m.type)
      [] m.name \in {"owned", "notOwned"} ->
           Checked(x, ValidOwned(x, This, m.name = "owned"))
\* check_type: for a template a description will do.
TypeChecked(m, x) ==
    CASE m.name = "string" -> ValidString(x)
      [] m.name = "int" -> ValidInt(x)
      [] m.name = "bool" -> ValidBool(x)
      [] m.name = "notNull" -> x.t # "null"
      [] m.name = "check" -> Positive(x)
      [] m.name = "class" -> ValidClass(x, m.type)
      [] m.name = "template" -> x.t \in {"dict", "model"} \/ ValidClass(x, m.type)
      [] m.name \in {"owned", "notOwned"} -> ValidOwned(x, "nobody", m.name = "owned")

-----------------------------------------------------------------------------
(* Contract._map: what is done is given by Apply(method, value) *)

Collected(values, t, make) ==
    IF \E n \in DOMAIN values : IsError(values[n])
    THEN values[CHOOSE n \in DOMAIN values : IsError(values[n])]
    ELSE [t |-> t, v |-> make]

\* _map_list: nothing is an empty list and anything else a list of one; the
\* last item of the contract goes for the rest; numbers at its end bound the
\* length.
AsList(x) == IF x.t = "list" THEN x.v ELSE IF x.t \in {"null", "none"} THEN <<>> ELSE <<x>>
ItemSpec(spec, n) == IF n > Len(spec.items) THEN Last(spec.items) ELSE spec.items[n]
LengthFits(spec, n) == n >= spec.min /\ (spec.max >= 0 => n <= spec.max)

\* _map_dict: the keys of the contract, and by its expression the other ones.
AsDict(x) == IF x.t = "dict" THEN x.v ELSE <<>>
At(dict, k) == IF k \in DOMAIN dict THEN dict[k] ELSE Null

\* what `mode' is: [check, store, initializing].
ApplyMethod(mode, m, x) ==
    IF IsError(x) THEN x
    ELSE IF mode.check THEN Checked(x, TypeChecked(m, x))
    ELSE Transformed(m, x, mode.store, mode.initializing)
RECURSIVE MapValue(_, _, _)
MapList(mode, x, spec) ==
    LET items == AsList(x)
        mapped == [n \in DOMAIN items |-> MapValue(mode, items[n], ItemSpec(spec, n))]
    IN  IF spec.items = <<>> THEN [t |-> "list", v |-> items]
        ELSE IF ~LengthFits(spec, Len(items)) THEN Violation
        ELSE Collected(mapped, "list", mapped)
MapDict(mode, x, spec) ==
    LET dict == AsDict(x)
        others == DOMAIN dict \ DOMAIN spec.keys
        newKey == [k \in others |-> MapValue(mode, k, spec.anyKey)]
        named == [k \in DOMAIN spec.keys |-> MapValue(mode, At(dict, k), spec.keys[k])]
        rest == [k \in others |-> MapValue(mode, dict[k], spec.anyValue)]
        \* keys that become the same: one of them wins
        Wins(nk) == CHOOSE k \in others : newKey[k] = nk
        whole == [k \in DOMAIN named \cup {newKey[j] : j \in others} |->
                     IF \E j \in others : newKey[j] = k THEN rest[Wins(k)] ELSE named[k]]
    IN  IF x.t \notin {"dict", "null", "none"} THEN Violation
        ELSE IF DOMAIN spec.keys = {} /\ ~spec.open THEN [t |-> "dict", v |-> dict]
        ELSE IF spec.open /\ \E k \in others : IsError(newKey[k])
        THEN newKey[CHOOSE k \in others : IsError(newKey[k])]
        ELSE IF spec.open THEN Collected(whole, "dict", whole)
        ELSE Collected(named, "dict", named)
MapValue(mode, x, spec) ==
    CASE spec.t = "expression" ->
           FoldLeft(LAMBDA y, m : ApplyMethod(mode, m, y), x, spec.methods)
      [] spec.t = "list" -> MapList(mode, x, spec)
      [] spec.t = "dict" -> MapDict(mode, x, spec)
      [] spec.t = "scalar" -> Checked(x, x = spec.value)

\* _execute: the default stands in for a value that is not given.
Given(x) == IF x = NoValue THEN contract.default ELSE x
Transform(store, initializing) ==
    MapValue([check |-> FALSE, store |-> store, initializing |-> initializing],
        Given(data), contract.spec)
CheckType(x) ==
    ~IsError(MapValue([check |-> TRUE, store |-> {}, initializing |-> FALSE], x, contract.spec))

-----------------------------------------------------------------------------
(* The two rounds of loading *)

FirstRound ==
    /\ round = 0 /\ round' = 1
    /\ contract' \in ContractSpecs /\ data' \in Data
    /\ met' \in SUBSET ModelObjects
    /\ UNCHANGED result

\* In between, other objects are met.
TransformFirst ==
    /\ round = 1 /\ round' = 2
    /\ result' = Transform(met, TRUE)
    /\ UNCHANGED <<contract, data, met>>

SecondRound ==
    /\ round = 2 /\ ~IsError(result) /\ round' = 3
    /\ result' = Transform(ModelObjects, FALSE)
    /\ UNCHANGED <<contract, data, met>>

ContractsNext == FirstRound \/ TransformFirst \/ SecondRound

ContractsSpec == ContractsInit /\ [][ContractsNext]_contracting

-----------------------------------------------------------------------------
\* Whatever the first round had to let through as references, what a property
\* has in the end is a value that its contract accepts as it is, without
\* references, and objects that are owned as the contract says.
RECURSIVE PartsOf(_)
PartsOf(x) ==
    CASE x.t = "list" -> {x} \cup UNION {PartsOf(x.v[n]) : n \in DOMAIN x.v}
      [] x.t = "dict" -> {x} \cup UNION {PartsOf(x.v[k]) : k \in DOMAIN x.v}
      [] OTHER -> {x}
Says(name) == contract.spec.t = "expression"
              /\ \E n \in DOMAIN contract.spec.methods : contract.spec.methods[n].name = name
AcceptedAsItIs ==
    round = 3 /\ ~IsError(result) =>
        /\ \A x \in PartsOf(result) : x.t # "ref"
        /\ Says("owned") \/ Says("notOwned") \/ CheckType(result)
        /\ Says("owned") /\ result.t = "obj" => Owned(result.v, This)
        /\ Says("notOwned") /\ result.t = "obj" => ~Owned(result.v, This)
=============================================================================
