------------------------------- MODULE MuranoTypes -------------------------------
(***************************************************************************)
(* Types of MuranoPL: the classes of a package are created when they are   *)
(* first asked for, from files that may hold several of them, out of other *)
(* packages if the package requires these; names of methods and properties *)
(* are looked up through all parents; metadata is inherited; and versions  *)
(* of a package that meet in one class are replaced by each other.         *)
(*                                                                         *)
(* Names are numbers; names that resolve to the same full name are one.    *)
(***************************************************************************)
EXTENDS Naturals, Integers, Sequences, SequencesExt, FiniteSets, FiniteSetsExt

CONSTANTS
    OwnClasses,   \* full names of the classes of the package, with declarations
    CoreObject,   \* io.murano.Object, of the core library that it requires
    NoSuchClass,      \* a name that no package has a class for
    Natives,      \* classes that a plugin extends by methods in Python
    Versions,     \* numbers of the versions of another package
    MaxInherited, \* bound: versions and requirements that meet in one class
    MaxLookups    \* bound: calls of find_class

KnownNames == OwnClasses \cup {CoreObject, NoSuchClass}
NoClass == 0   \* no name

ASSUME TypesAssumption == KnownNames \subseteq Nat \ {NoClass} /\ Versions \subseteq Nat /\ MaxInherited \in Nat

VARIABLES
    extends,    \* what the declaration of each class says under Extends
    queued,     \* _load_queue: classes whose declaration was not used yet
    nativeQueue,\* _native_load_queue
    registered, \* _classes, in the order of their creation
    extended,   \* classes that got their extension
    answers,    \* history: what find_class answered for each name
    lookups, failed,  \* calls; history: whether a class was not found, or a parent
    remap       \* versions that meet in a class, and what is to replace them

typing == <<extends, queued, nativeQueue, registered, extended,
            answers, lookups, failed, remap>>

NothingInherited == [versions |-> <<>>, left |-> {}, to |-> <<>>, created |-> FALSE]

\* Files that hold several classes queue the others, which are queued anyway.
\* Classes extend each other in no circle.
Extensions(c) ==
    LET lower == {p \in OwnClasses : p < c} IN
    {<<>>} \cup {<<p>> : p \in lower}
           \cup {pair \in lower \X lower : pair[1] # pair[2]}
           \cup (IF lower = {} THEN {<<NoSuchClass>>} ELSE {})
TypesInit ==
    /\ extends = [c \in OwnClasses |-> <<>>]
    /\ queued = {} /\ nativeQueue = {}
    /\ registered = <<>> /\ extended = {}
    /\ answers = [n \in KnownNames |-> {}]
    /\ lookups = 0 /\ failed = FALSE
    /\ remap = NothingInherited

\* register_class, for each class that the manifest of the package names and
\* for those of plugins.
RegisterClasses ==
    /\ queued = {} /\ lookups = 0 /\ remap = NothingInherited
    /\ extends' \in {e \in [OwnClasses -> UNION {Extensions(c) : c \in OwnClasses}] :
                       \A c \in OwnClasses : e[c] \in Extensions(c)}
    /\ queued' = OwnClasses /\ nativeQueue' = Natives
    /\ UNCHANGED <<registered, extended, answers, lookups, failed, remap>>

-----------------------------------------------------------------------------
(* MuranoClass *)

\* The parents of a class: io.murano.Object if it names none.
Parents(c) ==
    IF c \notin OwnClasses THEN <<>>
    ELSE IF extends[c] = <<>> THEN <<CoreObject>> ELSE extends[c]

\* ancestors: breadth first, each once, as `traverse' meets them.
Traverse(seed) ==
    LET Widened(queue) ==
            FoldLeft(LAMBDA met, p : IF Contains(met, p) THEN met ELSE Append(met, p),
                     queue, FlattenSeq([n \in DOMAIN queue |-> Parents(queue[n])]))
    IN  FoldLeft(LAMBDA queue, n : Widened(queue), seed, [n \in 1..Cardinality(KnownNames) |-> n])
Ancestors(c) == ToSet(Traverse(<<c>>)) \ {c}
IsCompatible(cls, c) == c = cls \/ cls \in Ancestors(c)

\* weigh_type_hierarchy: how far the ancestors are, along the shortest path.
RECURSIVE Weight(_, _)
Weight(cls, c) ==
    IF cls = c THEN 0
    ELSE 1 + Min({Weight(cls, p) : p \in {p \in ToSet(Parents(c)) : IsCompatible(cls, p)}})

\* _find_symbol_chains: along each path to a class without parents, the
\* classes that declare the symbol.
RECURSIVE Chains(_, _, _)
Chains(c, declares, path) ==
    LET along == IF c \in declares THEN Append(path, c) ELSE path IN
    IF Parents(c) = <<>> THEN IF along = <<>> THEN <<>> ELSE <<along>>
    ELSE FlattenSeq([n \in DOMAIN Parents(c) |-> Chains(Parents(c)[n], declares, along)])

\* _choose_symbol: of the chains, shortest first, those that no later one ends
\* with; what they begin with.
EndsWith(longer, chain) == IsSuffix(chain, longer)
ChooseSymbol(c, declares) ==
    LET chains == SortSeq(Chains(c, declares, <<>>), LAMBDA a, b : Len(a) < Len(b)) IN
    {chains[n][1] : n \in
        {n \in DOMAIN chains :
            \A m \in (n + 1)..Len(chains) : ~ EndsWith(chains[m], chains[n])}}

\* find_methods, find_properties: all of them.
FindAll(c, declares) == declares \cap ({c} \cup Ancestors(c))

\* merge_providers, for a meta class that is inherited and of which an entity
\* has one instance: one that is attached below hides those along the path;
\* two that remain are an error.
RECURSIVE Merged(_, _, _)
Merged(c, attached, hidden) ==
    LET here == {c} \cap attached
        below == hidden \/ here # {}
    IN  (IF hidden THEN {} ELSE here)
        \cup UNION {Merged(p, attached, below) : p \in ToSet(Parents(c))}
Ambiguous(metas) == Cardinality(metas) > 1

-----------------------------------------------------------------------------
(* MuranoPackage.find_class *)

\* What a call makes of the package; `found' is NoClass if it raises, `raised'
\* tells whether a call that it made did.
PackageState(raised) ==
    [queued |-> queued, native |-> nativeQueue, made |-> registered, ext |-> extended,
     found |-> NoClass, raised |-> raised]

\* _create_class: the parents, one after the other, and then the class; a
\* class that is already there is used.
RECURSIVE FindClass(_, _, _)
Register_mutant(st, c) ==
    LET Parent(s, p) == IF s.found = NoClass THEN s ELSE FindClass(s, p, TRUE) IN
    IF Contains(st.made, c) THEN [st EXCEPT !.found = c]
    ELSE FoldLeft(Parent, [st EXCEPT !.made = Append(@, c), !.found = c],
                  IF extends[c] = <<>> THEN <<CoreObject>> ELSE extends[c])
Register(st, c) ==
    LET Parent(s, p) == IF s.found = NoClass THEN s ELSE FindClass(s, p, TRUE)
        parents == FoldLeft(Parent, [st EXCEPT !.found = c],
                            IF extends[c] = <<>> THEN <<CoreObject>> ELSE extends[c])
    IN  IF Contains(st.made, c) THEN [st EXCEPT !.found = c]
        ELSE IF parents.found = NoClass THEN parents
        ELSE [parents EXCEPT !.made = Append(@, c), !.found = c]

\* First the class that a plugin extends (created without its declaration when
\* this, or a parent of its, cannot be found), then the queue, from which the
\* declaration is taken before the class is created, then what there is, and
\* then the packages required.  The file of a class may declare others: these
\* are in the queue of a package in any case.
FindClass(st, c, required) ==
    IF c \in st.native
    THEN LET plain == FindClass([st EXCEPT !.native = @ \ {c}], c, FALSE)
             made == IF plain.found # NoClass THEN plain
                     ELSE [plain EXCEPT !.made = Append(@, c), !.found = c]
         IN  [made EXCEPT !.ext = @ \cup {c}]
    ELSE IF c \in st.queued THEN Register([st EXCEPT !.queued = @ \ {c}], c)
    ELSE IF Contains(st.made, c) THEN [st EXCEPT !.found = c]
    ELSE IF required /\ c = CoreObject THEN [st EXCEPT !.found = c]
    ELSE [st EXCEPT !.found = NoClass, !.raised = TRUE]

LookUpClass ==
    /\ (queued # {} \/ lookups > 0) /\ lookups < MaxLookups /\ lookups' = lookups + 1
    /\ \E c \in KnownNames :
          LET after == FindClass(PackageState(failed), c, TRUE) IN
          /\ queued' = after.queued /\ nativeQueue' = after.native
          /\ registered' = after.made /\ extended' = after.ext
          /\ answers' = [answers EXCEPT ![c] = @ \cup {after.found}]
          /\ failed' = after.raised
    /\ UNCHANGED <<extends, remap>>

-----------------------------------------------------------------------------
(* _build_parent_remappings, _remap_package *)

\* A version and what the class that inherits from it requires: a range.
RequiredVersions == {vr \in Versions \X {a..b : a, b \in Versions} : vr[1] \in vr[2]}

\* From the lowest on, a version is replaced by the highest of the others that
\* its requirement admits (of the same version, if that is there for another
\* requirement), and so is what it has itself replaced before (`behind').
RemapPackage(versions) ==
    LET Step(st, n) ==
            LET v == versions[n][1]
                fit == {versions[m][1] : m \in {m \in st.left \ {n} : versions[m][1] \in versions[n][2]}}
                dst == Max(fit)
                behind == st.behind \cup {<<dst, v>>}
            IN  IF fit = {} THEN st
                ELSE [left |-> st.left \ {n}, behind |-> behind,
                      to |-> [u \in DOMAIN st.to \cup {v} |->
                                 IF u = v \/ <<v, u>> \in behind THEN dst ELSE st.to[u]]]
    IN  FoldLeft(Step, [left |-> DOMAIN versions, behind |-> {}, to |-> <<>>],
                 [n \in DOMAIN versions |-> n])

\* A class that inherits several versions.  It is not created if one of them is
\* to be replaced: `classes' of a package is a set, which has no items.
Inherit ==
    /\ remap = NothingInherited /\ lookups = 0 /\ queued = {}
    /\ \E n \in 1..MaxInherited : \E set \in kSubset(n, RequiredVersions) :
       \E versions \in {s \in SetToSeqs(set) : \A i, j \in 1..n : i < j => s[i][1] <= s[j][1]} :
          LET remapped == RemapPackage(versions) IN
          remap' = [versions |-> versions, left |-> remapped.left, to |-> remapped.to,
                    created |-> DOMAIN remapped.to = {}]
    /\ UNCHANGED <<extends, queued, nativeQueue, registered, extended, answers,
                   lookups, failed>>

TypesNext == RegisterClasses \/ LookUpClass \/ Inherit

TypesSpec == TypesInit /\ [][TypesNext]_typing

-----------------------------------------------------------------------------
\* Whichever class is looked up first and however the parents form diamonds,
\* the symbols found are those of the most derived classes that declare one:
\* exactly those that no other ancestor overrides; and metadata attached to
\* the class itself is never ambiguous.
MostDerived ==
    registered # <<>> => LET c == Last(registered) IN
        \A some \in SUBSET ({c} \cup Ancestors(c)) :
        /\ LET all == FindAll(c, some) IN
           ChooseSymbol(c, some) =
              {s \in all : ~ \E t \in all : t # s /\ IsCompatible(s, t)}
        /\ c \in some => ~Ambiguous(Merged(c, some, FALSE))
        /\ \A s \in Ancestors(c) : Weight(s, c) > 0

\* As long as no class was missing, find_class always answers the class of that
\* name, whatever was loaded before; parents are there before their classes,
\* and no class is created twice.
ClassesAreFound ==
    ~failed =>
        /\ IsInjective(registered)
        /\ \A n \in DOMAIN registered : \A p \in ToSet(Parents(registered[n])) :
              p \in OwnClasses => \E m \in 1..(n - 1) : registered[m] = p
        /\ \A c \in KnownNames : answers[c] \subseteq {c}

\* Of the versions that meet in a class those are left of which none can be
\* replaced by another, and from every version the replacements lead to one
\* that is left.  A class that is created inherits all of them as they are, and
\* none could stand for another.
VersionsAreMerged ==
    LET Version(n) == remap.versions[n][1]
        Admits(n, m) == n # m /\ Version(m) \in remap.versions[n][2]
    IN  /\ \A n, m \in remap.left : ~Admits(n, m)
        /\ \A n \in DOMAIN remap.versions, S \in SUBSET Versions :
              Version(n) \in S /\ (\A u \in S \cap DOMAIN remap.to : remap.to[u] \in S)
                  => \E m \in remap.left : Version(m) \in S
        /\ remap.created => \A n, m \in DOMAIN remap.versions : ~Admits(n, m)

\* Types, from their lookup (MuranoPackage.find_class) and the versions of
\* their parents (_remap_package) to the symbols found in them (dsl_types and
\* murano_type), are the same whatever is used first.
TypesAreRight == MostDerived /\ ClassesAreFound /\ VersionsAreMerged
=============================================================================
