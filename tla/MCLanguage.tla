------------------------------- MODULE MCLanguage -------------------------------
(* Parts of the interpreter of MuranoPL, on small instances.  As in           *)
(* MCServices, each behaviour is one of the part that `part' names.           *)
EXTENDS ObjectDestruction, ObjectModel, MuranoTypes, ObjectInit, Statements,
        Contracts, Assignments, MethodCalls, TLC

CONSTANT LanguageParts
VARIABLE part

LanguageInit ==
    /\ part \in LanguageParts
    /\ ObjectsInit /\ ModelInit /\ TypesInit /\ InitInit /\ StatementsInit /\ ContractsInit
    /\ AssignmentsInit /\ CallsInit
    /\ part # "assignments" => \A c \in Cells : memory[c] \in {Nil, Error}

\* The variables of each half of the parts.
objectParts == <<objects, objectModel, initialising>>
valueParts == <<typing, interpreting, contracting, assigning, calling>>

LanguageNext ==
    /\ part' = part
    /\ \/ part = "destruction" /\ ObjectsNext /\ UNCHANGED <<objectModel, initialising, valueParts>>
       \/ part = "model" /\ ModelNext /\ UNCHANGED <<objects, initialising, valueParts>>
       \/ part = "initialisation" /\ InitNext /\ UNCHANGED <<objects, objectModel, valueParts>>
       \/ part = "types" /\ TypesNext
          /\ UNCHANGED <<objectParts, interpreting, contracting, assigning, calling>>
       \/ part = "statements" /\ StatementsNext
          /\ UNCHANGED <<objectParts, typing, contracting, assigning, calling>>
       \/ part = "contracts" /\ ContractsNext
          /\ UNCHANGED <<objectParts, typing, interpreting, assigning, calling>>
       \/ part = "assignments" /\ AssignmentsNext
          /\ UNCHANGED <<objectParts, typing, interpreting, contracting, calling>>
       \/ part = "calls" /\ CallsNext
          /\ UNCHANGED <<objectParts, typing, interpreting, contracting, assigning>>

LanguageSpec == LanguageInit /\ [][LanguageNext]_<<part, objectParts, valueParts>>

\* Identifiers of objects are interchangeable.
Symmetric == Permutations(Objects) \cup Permutations(Things)

-----------------------------------------------------------------------------
(* A diamond of classes, and what they may declare *)
MCExtends == [c \in {"A", "B", "C", "D"} |->
    CASE c = "D" -> <<"B", "C">> [] c \in {"B", "C"} -> <<"A">> [] OTHER -> <<>>]
Property(u, d, r, f) == [usage |-> u, default |-> d, reads |-> r, fits |-> f]
PropertySpecs ==
    {Property("In", FALSE, {}, TRUE), Property("In", TRUE, {"p"}, TRUE), Property("In", FALSE, {"q"}, TRUE),
     Property("In", FALSE, {"q"}, FALSE), Property("Runtime", TRUE, {}, FALSE),
     Property("Runtime", TRUE, {"p"}, TRUE), Property("Runtime", FALSE, {}, FALSE),
     Property("Config", TRUE, {}, TRUE), Property("Config", TRUE, {"p"}, TRUE),
     Property("Static", TRUE, {}, TRUE)}
DeclaredAt ==
    {{<<"D", "p">>}, {<<"D", "p">>, <<"D", "q">>}, {<<"D", "p">>, <<"A", "p">>},
     {<<"B", "p">>, <<"C", "p">>}, {<<"B", "p">>, <<"A", "q">>}, {<<"A", "p">>, <<"A", "q">>}}
MCLayouts ==
    UNION {[declared : [at -> PropertySpecs],
            init : {<<>>, [c \in {"A", "D"} |-> IF c = "D" THEN {"p"} ELSE {}]},
            native : {{}, {"A", "B"}}] : at \in DeclaredAt}

(* Bodies of methods *)
NodeOf(o) == [op |-> o]
ThrowA == [op |-> "throw", names |-> {"a"}]
Simple == {NodeOf("evaluate"), NodeOf("return"), NodeOf("break"), NodeOf("continue"), NodeOf("rethrow"), ThrowA}
TryOf(b, c, f, e) == [op |-> "try", body |-> b, catch |-> c, finally |-> f, else |-> e]
Catches ==
    {<<>>} \cup {<<[with |-> {"a"}, do |-> <<x>>]>> : x \in {NodeOf("rethrow"), NodeOf("break"), NodeOf("evaluate")}}
    \cup {<<[with |-> {"b"}, do |-> NoBlock], [with |-> {}, do |-> NoBlock]>>}
Tries == {TryOf(<<s>>, c, f, e) : s \in Simple, c \in Catches,
             f \in {NoBlock, <<NodeOf("evaluate")>>, <<NodeOf("return")>>}, e \in {NoBlock, <<NodeOf("break")>>}}
InnerTry == TryOf(<<ThrowA>>, <<[with |-> {}, do |-> <<NodeOf("evaluate")>>]>>, <<NodeOf("evaluate")>>, NoBlock)
NestedTries == {TryOf(<<ThrowA>>, <<[with |-> {"a"}, do |-> <<InnerTry, x>>]>>, <<y>>, NoBlock) :
                   x \in Simple, y \in Simple}
LoopOf(b) == [op |-> "loop", blocks |-> <<b>>]
MCPrograms ==
    {<<LoopOf(<<t, NodeOf("evaluate")>>), NodeOf("evaluate")>> : t \in Tries \cup NestedTries}
    \cup {<<[op |-> "call", blocks |-> <<<<x>>>>], NodeOf("evaluate")>> : x \in Simple \cup NestedTries}
    \cup {<<LoopOf(<<[op |-> "parallel", blocks |-> <<<<x>>, <<y>>>>]>>)>> :
             x \in Simple, y \in Simple \cup {InnerTry}}
    \cup {<<[op |-> "pick", blocks |-> <<<<x>>, <<NodeOf("return")>>>>, several |-> s, default |-> d]>> :
             x \in Simple, s \in BOOLEAN, d \in {NoBlock, <<NodeOf("evaluate")>>}}
    \cup {<<[op |-> "parallel", blocks |-> <<>>]>>}

(* Contracts, and what is given for them *)
Method(n) == [name |-> n, type |-> ""]
OfClass(n, c) == [name |-> n, type |-> c]
Chain(ms) == [t |-> "expression", methods |-> ms]
ListOf(items, min, max) == [t |-> "list", items |-> items, min |-> min, max |-> max]
DictOf(keys, open, k, v) == [t |-> "dict", keys |-> keys, open |-> open, anyKey |-> k, anyValue |-> v]
AnInt == Chain(<<Method("int")>>)
SomeInt == Chain(<<Method("int"), Method("notNull")>>)
AText == Chain(<<Method("string")>>)
AnApp == Chain(<<OfClass("class", "App")>>)
WithDefault(s, d) == [spec |-> s, default |-> d]
MCContractSpecs ==
    {WithDefault(s, Null) : s \in
        {AText, AnInt, SomeInt, Chain(<<Method("bool")>>), Chain(<<Method("int"), Method("check")>>), AnApp,
         Chain(<<OfClass("class", "App"), Method("notNull"), Method("owned")>>),
         Chain(<<OfClass("class", "App"), Method("notOwned")>>),
         Chain(<<OfClass("template", "App"), Method("notNull")>>),
         ListOf(<<AnApp>>, 1, -1), ListOf(<<AnInt, AText>>, 0, -1), ListOf(<<SomeInt>>, 0, 1), ListOf(<<>>, 0, -1),
         DictOf([k \in {Str("a")} |-> SomeInt], FALSE, Null, Null),
         DictOf([k \in {Str("a")} |-> AnApp], TRUE, AText, AnInt),
         [t |-> "scalar", value |-> Num(1)]}}
    \cup {WithDefault(SomeInt, Num(1)), WithDefault(AText, Str("x"))}
Atoms == {Null, NoValue, Str("1"), Str("x"), Str("o1"), Str("o2"), Num(0), Num(1), [t |-> "bool", v |-> TRUE],
          Obj("o1"), [t |-> "model", v |-> "o2"], [t |-> "model", v |-> "o3"]}
GivenList(s) == [t |-> "list", v |-> s]
GivenDict(f) == [t |-> "dict", v |-> f]
MCData ==
    Atoms \cup {GivenList(<<>>), GivenList(<<Num(1), Str("x")>>), GivenList(<<Str("o2")>>)}
    \cup {GivenList(<<x>>) : x \in Atoms \ {NoValue}}
    \cup {GivenDict([k \in {Str("a")} |-> x]) : x \in Atoms \ {NoValue}}
    \cup {GivenDict([k \in {Str("a"), Num(1)} |-> Str("1")])}
MCKindOf == [o \in {"this", "o1", "o2", "o3"} |->
    CASE o = "o3" -> "Other" [] o = "o2" -> "Sub" [] OTHER -> "App"]
MCOwnerOf == [o \in {"this", "o1", "o2", "o3"} |->
    CASE o = "o1" -> "this" [] o = "o3" -> "o1" [] OTHER -> "nobody"]
MCCompatible == {<<"App", "App">>, <<"Sub", "App">>, <<"Sub", "Sub">>, <<"Other", "Other">>}

(* Properties of a class and of one that extends it *)
MCDeclaredBy == [c \in {"B", "D", "S"} |-> CASE c = "B" -> {"p"} [] c = "D" -> {"q"} [] OTHER -> {}]
MCInherited == [c \in {"B", "D", "S"} |-> IF c = "D" THEN {"p"} ELSE {}]

(* Methods of a class A, of B that extends it, and of a class of its own *)
Standard(n) == [name |-> n, usage |-> "Standard"]
MethodOf(c, n, static, action, native, scheme) ==
    [name |-> n, cls |-> c, static |-> static, action |-> action, native |-> native, scheme |-> scheme]
MCMethods ==
    {MethodOf("A", "f", FALSE, TRUE, FALSE, <<Standard("a"), [name |-> "rest", usage |-> "VarArgs"]>>),
     MethodOf("B", "f", FALSE, FALSE, TRUE, <<>>),
     MethodOf("S", "g", TRUE, TRUE, FALSE, <<Standard("a"), [name |-> "more", usage |-> "KwArgs"]>>),
     MethodOf("A", ".init", FALSE, FALSE, FALSE, <<>>),
     MethodOf("S", ".destroy", FALSE, FALSE, FALSE, <<>>)}
MCClassProperties == {[name |-> "p", cls |-> "B", usage |-> "In"], [name |-> "q", cls |-> "A", usage |-> "Out"]}
MCParentOf == [c \in {"A", "B", "S"} |-> IF c = "B" THEN "A" ELSE "none"]
MCInstanceOf == [o \in {"o1", "o2"} |-> IF o = "o1" THEN "B" ELSE "S"]
MCPassed ==
    {[args |-> <<"1", "2">>, kwargs |-> <<>>], [args |-> <<"1">>, kwargs |-> [k \in {"b"} |-> "3"]],
     [args |-> <<>>, kwargs |-> [k \in {"a"} |-> "3"]], [args |-> <<"1">>, kwargs |-> [k \in {"a"} |-> "3"]]}
=============================================================================
