------------------------------ MODULE MethodCalls ------------------------------
(***************************************************************************)
(* Calls of methods in MuranoPL and what their contexts carry along: the   *)
(* class whose names and private properties a body sees, the context of    *)
(* the caller, and the permission to write properties that only            *)
(* constructors may write.  Methods are called from outside (an action, a  *)
(* handler of a subscription, .destroy), by other methods in MuranoPL, by  *)
(* methods in Python, and as constructors of new objects.                  *)
(*                                                                         *)
(* Classes have one parent here; MuranoTypes shows how symbols are found   *)
(* among several.  Extension methods are left out.                         *)
(***************************************************************************)
EXTENDS Naturals, Sequences, SequencesExt, FiniteSets

CONSTANTS
    CallClasses, NoParent,
    ParentOf,     \* ParentOf[c] is a class or NoParent
    Methods,      \* [name, cls, static, action, native, scheme]
    ClassProperties,   \* [name, cls, usage]
    Instances,    \* objects; InstanceOf[o] is the class of o
    InstanceOf,
    Passed,       \* what calls may pass: [args, kwargs]
    Settings,     \* values of properties
    MaxFrames, MaxInvocations   \* bounds

\* An argument in a scheme is [name, usage], with this order of usages.
UsageRank == [u \in {"Standard", "VarArgs", "KwArgs"} |->
                 CASE u = "Standard" -> 1 [] u = "VarArgs" -> 2 [] u = "KwArgs" -> 3]
InOrder(scheme) ==
    \A i, j \in DOMAIN scheme : i < j =>
        /\ UsageRank[scheme[i].usage] <= UsageRank[scheme[j].usage]
        /\ scheme[i].usage # "Standard" => scheme[i].usage # scheme[j].usage
Default == "default"
\* A value stands for where it was passed, so that it can be told where it
\* arrives.
IsLabelled(passed) ==
    /\ \A i, j \in DOMAIN passed.args : passed.args[i] = passed.args[j] => i = j
    /\ \A k, n \in DOMAIN passed.kwargs : passed.kwargs[k] = passed.kwargs[n] => k = n
    /\ \A i \in DOMAIN passed.args, k \in DOMAIN passed.kwargs : passed.args[i] # passed.kwargs[k]
    /\ \A i \in DOMAIN passed.args : passed.args[i] # Default
    /\ \A k \in DOMAIN passed.kwargs : passed.kwargs[k] # Default
ASSUME CallsAssumption ==
    /\ \A m \in Methods :
          /\ m.cls \in CallClasses /\ InOrder(m.scheme)
          /\ \A i, j \in DOMAIN m.scheme : m.scheme[i].name = m.scheme[j].name => i = j
    /\ \A m, n \in Methods : m.cls = n.cls /\ m.name = n.name => m = n
    /\ NoParent \notin CallClasses /\ "this" \notin CallClasses
    /\ ParentOf \in [CallClasses -> CallClasses \cup {NoParent}]
    /\ \A passed \in Passed : IsLabelled(passed)
    /\ InstanceOf \in [Instances -> CallClasses] /\ MaxFrames \in Nat /\ MaxInvocations \in Nat

VARIABLES
    calls,       \* calls being executed, the innermost one last
    properties,   \* _properties: of each object and, privately, of its parents
    alive,        \* objects that were made
    invocations,  \* calls of methods so far
    refusedAt,    \* history: the depth at which a method was not exposed
    given,        \* history: the value an object was made with, or NotSet ...
    touched       \* ... objects that were assigned to, or whose making failed
calling == <<calls, properties, alive, invocations, refusedAt, given, touched>>

NotSet == "unset"
PropertyNamesOf == {p.name : p \in ClassProperties}
Slots == Instances \X (CallClasses \cup {"this"}) \X PropertyNamesOf

CallsInit ==
    /\ calls = <<>> /\ alive = {} /\ invocations = 0 /\ refusedAt = 0
    /\ properties = [s \in Slots |-> NotSet]
    /\ given = [o \in Instances |-> NotSet] /\ touched = {}

-----------------------------------------------------------------------------
(* Types *)
\* The class and its ancestors: the least set with the parent of each.
Lineages == [c \in CallClasses |->
    {b \in CallClasses : \A S \in SUBSET CallClasses :
        c \in S /\ (\A d \in S : ParentOf[d] # NoParent => ParentOf[d] \in S) => b \in S}]
IsKindOf(base, c) == base \in Lineages[c]
\* Of some ancestors of a class the one that inherits from the others.
Nearest(classes) == {c \in classes : classes \subseteq Lineages[c]}
Named(c, name) == {m \in Methods : m.cls = c /\ m.name = name}
IsAncestor(base, c) == base # c /\ IsKindOf(base, c)
\* find_single_method: the nearest class that has it.
FindSingle(c, name) ==
    {m \in Methods : m.name = name /\ m.cls \in Nearest({d \in Lineages[c] : Named(d, name) # {}})}
MethodNames == {m.name : m \in Methods}
Special == {".init", ".destroy", "__init__"}

-----------------------------------------------------------------------------
(* Contexts.  `at' is the frame a context belongs to.                      *)
NoContext == [type |-> NoParent, this |-> "", names |-> NoParent, writes |-> FALSE,
              caller |-> 0, skip |-> FALSE, actionsOnly |-> FALSE, at |-> 0]

\* create_object_context of an object seen as one of class c, or of the class.
ObjectContext_mutant(c, this, from) ==
    [NoContext EXCEPT !.type = c, !.this = this,
                      !.names = IF from = NoContext THEN c ELSE from.names,
                      !.writes = from.writes, !.actionsOnly = from.actionsOnly,
                      !.caller = IF from.skip THEN from.caller ELSE from.at]
ObjectContext(c, this, from) ==
    [NoContext EXCEPT !.type = c, !.this = this,
                      !.names = IF from = NoContext THEN c ELSE from.names,
                      !.writes = from.writes,
                      !.caller = IF from.skip THEN from.caller ELSE from.at]

\* The context of a stub, which stands between the caller and the method.
StubContext(m, this, from, invokeAction) ==
    [ObjectContext(m.cls, this, from) EXCEPT
        !.skip = TRUE,
        !.actionsOnly = from = NoContext /\ m.name \notin Special /\ invokeAction]

BodyContext(m, this, from) ==
    [ObjectContext(m.cls, IF m.static THEN m.cls ELSE this, from) EXCEPT
        !.names = m.cls, !.at = Len(calls) + 1]

-----------------------------------------------------------------------------
(* Arguments *)
\* The positions of those that are neither VarArgs nor KwArgs: they come first.
StandardOf(scheme) == {i \in DOMAIN scheme : scheme[i].usage = "Standard"}
NamesOf(scheme) == {scheme[i].name : i \in StandardOf(scheme)}
Has(scheme, usage) == \E i \in DOMAIN scheme : scheme[i].usage = usage
Without(f, keys) == [k \in DOMAIN f \ keys |-> f[k]]

\* The stub of a method in MuranoPL: YAQL gives each parameter its argument
\* by place or by name, or its default; a stub takes anything else as well.
\* An argument given in both ways makes the call match no method.
StubArguments(scheme, passed) ==
    LET standard == StandardOf(scheme)
        twice == \E i \in standard \cap DOMAIN passed.args :
                    scheme[i].name \in DOMAIN passed.kwargs
        valueOf(i) == IF i \in DOMAIN passed.args THEN passed.args[i]
                      ELSE IF scheme[i].name \in DOMAIN passed.kwargs
                           THEN passed.kwargs[scheme[i].name] ELSE Default
    IN  IF twice THEN {}
        ELSE {[args |-> [i \in standard \cup DOMAIN passed.args |-> valueOf(i)],
               kwargs |-> Without(passed.kwargs, NamesOf(scheme))]}

\* _canonize_parameters: the values of the parameters by name; those of VarArgs
\* keep their positions here.
Canonized(scheme, passed) ==
    LET standard == StandardOf(scheme)
        extra == Without(passed.args, standard)
        others == Without(passed.kwargs, NamesOf(scheme))
        valueOf(i) == IF scheme[i].name \in DOMAIN passed.kwargs
                      THEN passed.kwargs[scheme[i].name] ELSE passed.args[i]
    IN  IF \/ DOMAIN extra # {} /\ ~Has(scheme, "VarArgs")
           \/ DOMAIN others # {} /\ ~Has(scheme, "KwArgs")
        THEN {}
        ELSE {[named |-> [n \in NamesOf(scheme) |->
                             valueOf(CHOOSE i \in standard : scheme[i].name = n)],
               varargs |-> extra, kwargs |-> others]}

\* What the body gets, if the call matches; YAQL binds for bodies in Python.
Unbound == [named |-> <<>>, varargs |-> <<>>, kwargs |-> <<>>]
Bound(m, passed) ==
    IF m.native THEN {Unbound}
    ELSE UNION {Canonized(m.scheme, mapped) : mapped \in StubArguments(m.scheme, passed)}

-----------------------------------------------------------------------------
(* Calls *)
Enter(m, this, from, stubbed, invokeAction, callers, passed) ==
    LET context == IF stubbed THEN StubContext(m, this, from, invokeAction) ELSE from
        hidden == context.actionsOnly /\ ~m.action
    IN  /\ Len(calls) < MaxFrames /\ invocations < MaxInvocations
        /\ invocations' = invocations + 1
        /\ refusedAt' = IF hidden THEN Len(calls) + 1 ELSE refusedAt
        /\ \E bound \in Bound(m, passed) :
              calls' = IF hidden THEN calls
                        ELSE Append(callers, [kind |-> "body", method |-> m, pending |-> {},
                                              passed |-> passed, bound |-> bound,
                                              ctx |-> BodyContext(m, this, context)])
        /\ UNCHANGED <<properties, alive, given, touched>>

Plain == [args |-> <<>>, kwargs |-> <<>>]

\* Of an action; of a static action, without an object; and of the handler of
\* a subscription, whatever its scope.
CallFromOutside ==
    /\ calls = <<>>
    /\ \E name \in MethodNames \ Special, passed \in Passed :
          \/ \E o \in alive, action \in BOOLEAN : \E m \in FindSingle(InstanceOf[o], name) :
                Enter(m, o, NoContext, TRUE, action, calls, passed)
          \/ \E c \in CallClasses : \E m \in FindSingle(c, name) :
                m.static /\ Enter(m, c, NoContext, TRUE, TRUE, calls, passed)

\* destroy_objects: of each class.
CallDestroy ==
    /\ calls = <<>>
    /\ \E o \in alive : \E c \in Lineages[InstanceOf[o]] : \E m \in Named(c, ".destroy") :
          Enter(m, o, NoContext, TRUE, TRUE, calls, Plain)

\* A body in MuranoPL finds the stub itself; one in Python goes through
\* MuranoObjectInterface.  The object may be seen as one of its ancestors.
CallFromBody ==
    /\ calls # <<>> /\ Last(calls).kind = "body"
    /\ \E name \in MethodNames \ Special, passed \in Passed, o \in alive :
       \E c \in Lineages[InstanceOf[o]] : \E m \in FindSingle(c, name) :
          Enter(m, o, Last(calls).ctx, Last(calls).method.native, TRUE, calls, passed)

Leave ==
    /\ calls # <<>> /\ Last(calls).pending = {}
    /\ calls' = Front(calls)
    /\ UNCHANGED <<properties, alive, invocations, refusedAt, given, touched>>

-----------------------------------------------------------------------------
(* Properties *)
Writable == {"Out", "InOut", "Runtime", "Static", "Config"}
Declarations(c, name) == {p \in ClassProperties : p.name = name /\ IsKindOf(p.cls, c)}

\* set_property, of an object seen as one of class `level': the slot that is
\* written, if there is one.
SlotFor(o, level, name, ctx) ==
    LET derived == ctx.type # NoParent /\ IsKindOf(ctx.type, level)
        declared == Declarations(IF derived THEN ctx.type ELSE InstanceOf[o], name) # {}
        refuses(p) == ~ctx.writes /\ (p.usage \notin Writable \/ ~derived)
    IN  IF declared
        THEN IF \E p \in Declarations(InstanceOf[o], name) : refuses(p) THEN {}
             ELSE {<<o, "this", name>>}
        ELSE IF derived THEN {<<o, ctx.type, name>>} ELSE {}

AssignProperty ==
    /\ calls # <<>> /\ Last(calls).kind = "body"
    /\ \E o \in alive, name \in PropertyNamesOf, v \in Settings :
       \E s \in SlotFor(o, InstanceOf[o], name, Last(calls).ctx) :
          /\ properties[s] # v
          /\ properties' = [properties EXCEPT ![s] = v]
          /\ touched' = touched \cup {o}
    /\ UNCHANGED <<calls, alive, invocations, refusedAt, given>>

-----------------------------------------------------------------------------
(* New objects *)
\* Each name is set for the nearest class that declares it.
LevelsOf(o, name) ==
    Nearest({c \in Lineages[InstanceOf[o]] : \E p \in ClassProperties : p.cls = c /\ p.name = name})
SetAtFirst(o, ctx) ==
    {s \in Slots : \E name \in PropertyNamesOf : \E level \in LevelsOf(o, name) :
        s \in SlotFor(o, level, name, ctx)}

\* Objects of the model are initialised in their own context, others in that
\* of the method that makes them; constructors of parents run first.
Make ==
    /\ calls # <<>> => Last(calls).kind = "body"
    /\ Len(calls) < MaxFrames
    /\ \E o \in Instances \ alive, v \in Settings :
          LET outer == IF calls = <<>> THEN ObjectContext(InstanceOf[o], o, NoContext) ELSE Last(calls).ctx
              context == [outer EXCEPT !.writes = TRUE, !.at = Len(calls) + 1]
          IN  /\ calls' = Append(calls,
                     [kind |-> "new", ctx |-> context,
                      pending |-> {c \in Lineages[InstanceOf[o]] : Named(c, ".init") # {}},
                      method |-> o])
              /\ properties' = [s \in Slots |-> IF s \in SetAtFirst(o, context) THEN v ELSE properties[s]]
              /\ given' = [given EXCEPT ![o] = IF IsAncestor(outer.type, InstanceOf[o]) THEN NotSet ELSE v]
              /\ alive' = alive \cup {o}
    /\ UNCHANGED <<invocations, refusedAt, touched>>

\* The next constructor, of the ancestor of all others; and giving up after one
\* has failed.
Construct ==
    /\ calls # <<>> /\ Last(calls).pending # {}
    /\ LET new == Last(calls)
       IN  \E c \in new.pending : \E m \in Named(c, ".init") :
              /\ \A d \in new.pending : IsKindOf(c, d)
              /\ Enter(m, new.method, new.ctx, TRUE, TRUE,
                       [calls EXCEPT ![Len(calls)].pending = @ \ {c}], Plain)

GiveUp ==
    /\ calls # <<>> /\ Last(calls).pending # {}
    /\ calls' = Front(calls)
    /\ touched' = touched \cup {Last(calls).method}
    /\ UNCHANGED <<properties, alive, invocations, refusedAt, given>>

CallsNext ==
    \/ CallFromOutside \/ CallDestroy \/ CallFromBody \/ Leave
    \/ AssignProperty \/ Make \/ Construct \/ GiveUp

CallsSpec == CallsInit /\ [][CallsNext]_calling

-----------------------------------------------------------------------------
\* Only what comes from outside may be refused as no action, never what a
\* method calls.
ExposedOnly == refusedAt \in {0, 1}

\* A body has the names, and the private properties, of the class of its
\* method, which the object belongs to; the context before it is that of its
\* caller, never that of a stub between them; and it may write what
\* constructors may write exactly if it was called, directly or not, by one.
BodiesAreWhereTheyBelong ==
    \A n \in DOMAIN calls : calls[n].kind = "body" =>
        LET ctx == calls[n].ctx
            m == calls[n].method
        IN  /\ ctx.type = m.cls /\ ctx.names = m.cls /\ ctx.caller = n - 1
            /\ ~m.static => IsKindOf(m.cls, InstanceOf[ctx.this])
            /\ ctx.writes <=> \E k \in 1..(n - 1) : calls[k].kind = "new"

\* Every value that is passed to a method in MuranoPL arrives at one place.
PassedArrives ==
    \A n \in DOMAIN calls : calls[n].kind = "body" /\ ~calls[n].method.native =>
        LET bound == calls[n].bound
            passed == calls[n].passed
            standard == NamesOf(calls[n].method.scheme)
            places(v) == Cardinality({k \in DOMAIN bound.named : bound.named[k] = v})
                         + Cardinality({k \in DOMAIN bound.varargs : bound.varargs[k] = v})
                         + Cardinality({k \in DOMAIN bound.kwargs : bound.kwargs[k] = v})
        IN  /\ DOMAIN bound.named = standard
            /\ \A i \in DOMAIN passed.args : places(passed.args[i]) = 1
            /\ \A k \in DOMAIN passed.kwargs :
                  /\ places(passed.kwargs[k]) = 1
                  /\ k \in standard => bound.named[k] = passed.kwargs[k]

\* An object has what it was made with until it is assigned to.  (Unless it was
\* made by a method of an ancestor of its class.)
MadeAsGiven ==
    \A o \in alive \ touched : given[o] # NotSet =>
        \A p \in ClassProperties :
            IsKindOf(p.cls, InstanceOf[o]) => properties[<<o, "this", p.name>>] = given[o]

CallsFit == ExposedOnly /\ BodiesAreWhereTheyBelong /\ PassedArrives /\ MadeAsGiven

\* Only constructors, and what they call, change properties that nobody may
\* write, or those of an object that their class has nothing to do with.
WritesAreGuarded ==
    \A o \in alive, name \in PropertyNamesOf :
        properties'[<<o, "this", name>>] # properties[<<o, "this", name>>] =>
            \/ \E n \in DOMAIN calls : calls[n].kind = "new"
            \/ /\ IsKindOf(Last(calls).method.cls, InstanceOf[o])
               /\ \A p \in Declarations(InstanceOf[o], name) : p.usage \in Writable

\* What calls carry from method to method (MuranoDslExecutor.invoke_method,
\* create_object_context, MuranoMethod.invoke, MuranoObject.set_property): a
\* method runs in its own class and with its own rights however it was called,
\* with the arguments it was given, and objects keep what they were made with
\* from all but those that may change it.
CallsKeepToTheirRights == [][CallsFit' /\ WritesAreGuarded]_calling
=============================================================================
