------------------------------- MODULE HotPackages -------------------------------
(***************************************************************************)
(* Packages that are Heat templates.  From one template two things are     *)
(* generated apart from each other: the form that asks the user for the    *)
(* parameters, and the class whose contracts check them and whose methods  *)
(* deploy and destroy the stack.                                           *)
(*                                                                         *)
(* The value of a parameter is a number; for a string it is the length,    *)
(* which is all that length constraints look at.  Bounds of constraints    *)
(* are in halves, as a template may bound a number by a fraction.          *)
(***************************************************************************)
EXTENDS Integers, Sequences, FiniteSetsExt

CONSTANTS
    ParameterSpecs,  \* [type, default, constraints] of a parameter
    ParameterNames,
    GroupLists,      \* sequences of sets of names: parameter_groups
    Entries,         \* values that users enter ...
    Empty,           \* ... and no value
    MaxNames         \* bound

Constraints == UNION {spec.constraints : spec \in ParameterSpecs}
ASSUME HotAssumption ==
    /\ Entries \subseteq Int /\ Empty \notin Entries /\ MaxNames \in Nat
    /\ \A spec \in ParameterSpecs : IsFiniteSet(spec.constraints)
    /\ \A c \in Constraints :
          \/ c.on = "values"
          \/ /\ c.on \in {"range", "length"} /\ DOMAIN c.at \subseteq {"min", "max"}
             /\ \A e \in DOMAIN c.at : c.at[e] \in Int
    \* Heat wants a parameter to be in one group only.
    /\ \A g \in GroupLists :
          /\ g \in Seq({g[i] : i \in DOMAIN g})
          /\ \A i, j \in DOMAIN g : i # j => g[i] \cap g[j] = {}

VARIABLES
    hot,      \* the template: parameters, groups, whether there are environments
    phase,    \* of the application
    answers,  \* what was entered into the fields, by group and name
    app,      \* the application: templateParameters, generatedHeatStackName
    stacks,   \* in Heat: the parameters of each stack, by name
    names     \* names generated so far

packaging == <<hot, phase, answers, app, stacks, names>>

NoName == 0
HotPackagesInit ==
    /\ \E given \in SUBSET ParameterNames, g \in GroupLists, e \in BOOLEAN :
          \E specs \in [given -> ParameterSpecs] :
              hot = [parameters |-> specs, groups |-> g, environments |-> e]
    /\ phase = "new" /\ answers = <<>>
    /\ app = [parameters |-> <<>>, stack |-> NoName] /\ stacks = <<>> /\ names = 0

\* Python's int() of a fraction.
Truncated(halves) == IF halves < 0 THEN -((-halves) \div 2) ELSE halves \div 2

-----------------------------------------------------------------------------
(* The class: _build_properties, _translate_param_to_contract *)

Supported == {"string", "comma_delimited_list", "json", "number", "boolean"}
Check(c) == [on |-> c.on,
             at |-> IF c.on = "values" THEN c.at ELSE [e \in DOMAIN c.at |-> Truncated(c.at[e])]]
ParameterContract(spec) == {Check(c) : c \in spec.constraints}

Passes(v, check) ==
    /\ v # Empty  \* null is below every number and has no length
    /\ IF check.on = "values" THEN v \in check.at
       ELSE /\ "min" \in DOMAIN check.at => v >= check.at["min"]
            /\ "max" \in DOMAIN check.at => v <= check.at["max"]

\* Environment files give parameters too: then nothing is checked.
ClassAccepts(parameters) ==
    /\ \A p \in DOMAIN hot.parameters : hot.parameters[p].type \in Supported
    /\ \/ hot.environments
       \/ \A p \in DOMAIN hot.parameters :
             \A check \in ParameterContract(hot.parameters[p]) :
                 Passes(IF p \in DOMAIN parameters THEN parameters[p] ELSE Empty, check)

-----------------------------------------------------------------------------
(* The form: _translate_ui_parameter, _translate_ui_parameters and          *)
(* _generate_application_ui                                                 *)

\* The bounds of all length constraints become one pair of bounds; the other
\* constraints become validators.
FormField_mutant(spec) ==
    LET bounds(e) == {Truncated(c.at[e]) : c \in {d \in spec.constraints :
                                                    d.on = "length" /\ e \in DOMAIN d.at}}
    IN  [required |-> ~spec.default,
         length |-> [e \in {f \in {"min", "max"} : bounds(f) # {}} |->
                        IF e = "max" THEN Max(bounds(e)) ELSE Min(bounds(e))],
         validators |-> {c \in spec.constraints : c.on # "length"}]
FormField(spec) ==
    LET bounds(e) == {Truncated(c.at[e]) : c \in {d \in spec.constraints :
                                                    d.on = "length" /\ e \in DOMAIN d.at}}
    IN  [required |-> ~spec.default,
         length |-> [e \in {f \in {"min", "max"} : bounds(f) # {}} |->
                        IF e = "min" THEN Max(bounds(e)) ELSE Min(bounds(e))],
         validators |-> {c \in spec.constraints : c.on # "length"}]

\* What the dashboard does with a field.
FieldAccepts(field, v) ==
    IF v = Empty THEN ~field.required
    ELSE /\ "min" \in DOMAIN field.length => v >= field.length["min"]
         /\ "max" \in DOMAIN field.length => v <= field.length["max"]
         /\ \A c \in field.validators :
               IF c.on = "values" THEN v \in c.at
               ELSE /\ "min" \in DOMAIN c.at => 2 * v >= c.at["min"]
                    /\ "max" \in DOMAIN c.at => 2 * v <= c.at["max"]

\* The parameters of each form: one for each group, and one for the rest.
FormGroups ==
    LET all == DOMAIN hot.parameters
        grouped == [i \in DOMAIN hot.groups |-> hot.groups[i] \cap all]
        rest == all \ UNION {grouped[i] : i \in DOMAIN grouped}
    IN  IF rest = {} THEN grouped ELSE Append(grouped, rest)
FormFields == {f \in (1..Len(FormGroups)) \X ParameterNames : f[2] \in FormGroups[f[1]]}
\* The application takes a parameter from the last form that has the field.
ApplicationParameters(entered) ==
    [p \in UNION {FormGroups[i] : i \in DOMAIN FormGroups} |->
        entered[<<Max({i \in DOMAIN FormGroups : p \in FormGroups[i]}), p>>]]

FillIn(entered) ==
    /\ phase \in {"new", "deployed", "failed"}
    /\ \A f \in FormFields : FieldAccepts(FormField(hot.parameters[f[2]]), entered[f])
    /\ answers' = entered
    /\ app' = [app EXCEPT !.parameters = ApplicationParameters(entered)]
    /\ phase' = IF ClassAccepts(app'.parameters) THEN "loaded" ELSE "rejected"
    /\ UNCHANGED <<hot, stacks, names>>

-----------------------------------------------------------------------------
(* The methods of the class: _generate_workflow *)

\* The contract makes null of the parameters that are missing.
SentParameters ==
    IF hot.environments THEN app.parameters
    ELSE [p \in DOMAIN hot.parameters |->
             IF p \in DOMAIN app.parameters THEN app.parameters[p] ELSE Empty]

\* The name is generated once; push may fail before or after Heat has taken
\* the stack, which is reported and raised again.
DeployStack(outcome) ==
    /\ phase \in {"loaded", "deployed", "failed"}
    /\ app.stack = NoName => names < MaxNames
    /\ app' = [app EXCEPT !.stack = IF @ = NoName THEN names + 1 ELSE @]
    /\ names' = IF app.stack = NoName THEN names + 1 ELSE names
    /\ stacks' = IF outcome = "refused" THEN stacks
                 ELSE [n \in DOMAIN stacks \cup {app'.stack} |->
                          IF n = app'.stack THEN SentParameters ELSE stacks[n]]
    /\ phase' = IF outcome = "done" THEN "deployed" ELSE "failed"
    /\ UNCHANGED <<hot, answers>>

DestroyStack ==
    /\ phase \in {"loaded", "deployed", "failed"}
    /\ stacks' = [n \in DOMAIN stacks \ {app.stack} |-> stacks[n]]
    /\ phase' = "destroyed"
    /\ UNCHANGED <<hot, answers, app, names>>

HotPackagesNext ==
    \/ \E entered \in [FormFields -> Entries \cup {Empty}] : FillIn(entered)
    \/ \E outcome \in {"done", "refused", "failed"} : DeployStack(outcome)
    \/ DestroyStack
HotPackagesSpec == HotPackagesInit /\ [][HotPackagesNext]_packaging
-----------------------------------------------------------------------------
\* The class takes what the form lets through (of a form that is filled in
\* completely: see the README), though bounds are rounded in one and not in
\* the other, and merged in the other and not in the one; every parameter is
\* asked for once and Heat gets that answer; and an application has one stack
\* whatever deployments failed, and none after it was destroyed.
FormsDeploy ==
    /\ phase = "rejected" =>
          \/ \E f \in FormFields : answers[f] = Empty
          \/ \E p \in DOMAIN hot.parameters : hot.parameters[p].type \notin Supported
    /\ phase = "deployed" =>
          \A p \in DOMAIN hot.parameters :
             \E f \in FormFields : f[2] = p /\ stacks[app.stack][p] = answers[f]
    /\ Cardinality(DOMAIN stacks) <= (IF phase = "destroyed" THEN 0 ELSE 1)
=============================================================================
