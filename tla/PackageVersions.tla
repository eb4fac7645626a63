--------------------------- MODULE PackageVersions ---------------------------
(***************************************************************************)
(* Which version of one package the tasks of an environment work with.     *)
(* Every loader (one for the catalog, one for a directory of the engine)   *)
(* keeps a table of versions it has fixed.  The tables are filled from     *)
(* the saved model when a task begins; when it ends without an exception   *)
(* they are reduced to what that task loaded, and saved.                   *)
(***************************************************************************)
EXTENDS Integers, FiniteSets, FiniteSetsExt

CONSTANTS
    Majors, Minors,  \* of the versions of the package (all patches are 0)
    Installed,       \* versions in the directory of the engine
    Catalogs,        \* the packages that may be in the catalog: [version, owner]
    Specs,           \* version specifications written by users and in manifests
    MaxLoads         \* bound: loads in one task

Versions == Majors \X Minors
\* Those of the tenant, public ones, and those of other tenants.
OwnerKinds == {"own", "public", "other"}
\* `partial': only the major version was written.
Comparisons == [kind : {">", ">=", "<", "<=", "!=", "=="}, major : Majors, minor : Minors,
                partial : BOOLEAN]

ASSUME VersionAssumption ==
    /\ Majors \subseteq Nat /\ Minors \subseteq Nat /\ Installed \subseteq Versions
    /\ Specs \subseteq Comparisons
    /\ \A s \in Specs : s.partial => s.minor = 0
    /\ Catalogs \subseteq [version : Versions, owner : OwnerKinds]
    /\ MaxLoads \in Nat

Loaders == {"api", "directory"}

VARIABLES
    published,   \* the packages in the catalog
    saved,     \* Packages in SystemData
    fixed,     \* _fixations, _new_fixations of each loader
    recent,
    cached,    \* versions in the _package_cache of the API loader
    loaded,    \* history: what the task loaded by name, [spec, version]
    running

versions == <<published, saved, fixed, recent, cached, loaded, running>>

VersionsInit ==
    /\ published \in SUBSET Catalogs
    /\ saved = {} /\ cached = {} /\ loaded = {} /\ running = FALSE
    /\ fixed = [l \in Loaders |-> {}] /\ recent = [l \in Loaders |-> {}]

-----------------------------------------------------------------------------
(* helpers.normalize_version_spec: a comparison with a partial version       *)
(* becomes comparisons with full ones.                                       *)

Less(v, w) == v[1] < w[1] \/ (v[1] = w[1] /\ v[2] < w[2])
Compares(v, kind, w) ==
    CASE kind = ">" -> Less(w, v)
      [] kind = ">=" -> ~Less(v, w)
      [] kind = "<" -> Less(v, w)
      [] kind = "<=" -> ~Less(w, v)
      [] kind = "!=" -> v # w
      [] kind = "==" -> v = w

Coerce(s) == <<s.major, 0>>
Increment(s) == <<s.major + 1, 0>>
Normalized(s) ==
    IF ~s.partial THEN {[kind |-> s.kind, than |-> <<s.major, s.minor>>]}
    ELSE CASE s.kind \in {">", "!="} -> {[kind |-> ">=", than |-> Increment(s)]}
           [] s.kind = ">=" -> {[kind |-> ">=", than |-> Coerce(s)]}
           [] s.kind = "<" -> {[kind |-> "<", than |-> Coerce(s)]}
           [] s.kind = "<=" -> {[kind |-> "<", than |-> Increment(s)]}
           [] s.kind = "==" -> {[kind |-> ">=", than |-> Coerce(s)],
                                [kind |-> "<", than |-> Increment(s)]}

\* breakdown_spec_to_query asks the catalog for the same comparisons.
Admits(parts, v) == \A p \in parts : Compares(v, p.kind, p.than)
Admitted(parts, among) == {v \in among : Admits(parts, v)}
\* Spec.select: the highest, if any.
Select(parts, among) ==
    {v \in Admitted(parts, among) : \A w \in Admitted(parts, among) : ~Less(v, w)}

Exactly(v) == {[kind |-> "==", than |-> v]}
\* A version that is fixed and admitted takes the place of the specification.
Narrowed(parts, l) ==
    IF Select(parts, fixed[l]) = {} THEN parts
    ELSE UNION {Exactly(v) : v \in Select(parts, fixed[l])}

-----------------------------------------------------------------------------
(* Tasks *)

\* import_fixation_table of the combined loader.
Imported_mutant(l) == IF l = "api" THEN saved ELSE {}
Imported(l) == saved
BeginTask ==
    /\ ~running /\ running' = TRUE
    /\ fixed' = [l \in Loaders |-> Imported(l)]
    /\ recent' = [l \in Loaders |-> {}]
    /\ cached' = {} /\ loaded' = {}
    /\ UNCHANGED <<published, saved>>

Fix(l, v) ==
    /\ fixed' = [fixed EXCEPT ![l] = @ \cup {v}]
    /\ recent' = [recent EXCEPT ![l] = @ \cup {v}]
Gives(s, v) == loaded' = loaded \cup {[spec |-> s, version |-> v]}
MayLoad == running /\ Cardinality(loaded) < MaxLoads

\* DirectoryPackageLoader.load_package
InDirectory(s) == Select(Narrowed(Normalized(s), "directory"), Installed)
LoadFromDirectory(s) ==
    /\ MayLoad
    /\ \E v \in InDirectory(s) : Fix("directory", v) /\ Gives(s, v)
    /\ UNCHANGED <<published, saved, cached, running>>

\* _get_best_package_match: of the packages that the query finds the first
\* of the tenant, else the last public one, whatever their versions.
Found(parts) == {p \in published : Admits(parts, p.version)}
BestMatches(parts) ==
    LET of(o) == {p.version : p \in {q \in Found(parts) : q.owner = o}}
    IN  IF of("own") # {} THEN of("own") ELSE IF of("public") # {} THEN of("public") ELSE of("other")

\* ApiPackageLoader.load_package: what is cached is not fixed again.
LoadFromCatalog(s) ==
    LET parts == Narrowed(Normalized(s), "api") IN
    /\ MayLoad /\ InDirectory(s) = {}
    /\ IF Select(parts, cached) # {}
       THEN \E v \in Select(parts, cached) : Gives(s, v) /\ UNCHANGED <<fixed, recent, cached>>
       ELSE \E v \in BestMatches(parts) :
                Fix("api", v) /\ Gives(s, v) /\ cached' = cached \cup {v}
    /\ UNCHANGED <<published, saved, running>>

\* load_class_package: no table is looked at or written.
LoadClassPackage(s) ==
    /\ running /\ Select(Normalized(s), Installed) = {} /\ Select(Normalized(s), cached) = {}
    /\ \E v \in BestMatches(Normalized(s)) : cached' = cached \cup {v}
    /\ UNCHANGED <<published, saved, fixed, recent, loaded, running>>

\* compact_fixation_table when there was no exception; export_fixation_table
\* and the model is saved.  The result of a task may be lost.
End ==
    /\ running /\ running' = FALSE
    /\ \E table \in {fixed, recent} : saved' = UNION {table[l] : l \in Loaders}
    /\ fixed' = [l \in Loaders |-> {}] /\ recent' = [l \in Loaders |-> {}]
    /\ cached' = {} /\ loaded' = {}
    /\ UNCHANGED published
Vanish ==
    /\ running /\ running' = FALSE
    /\ fixed' = [l \in Loaders |-> {}] /\ recent' = [l \in Loaders |-> {}]
    /\ cached' = {} /\ loaded' = {}
    /\ UNCHANGED <<published, saved>>

\* Packages are uploaded and deleted at any time.
Publish ==
    /\ \E p \in Catalogs : published' = (published \cup {p}) \ (published \cap {p})
    /\ UNCHANGED <<saved, fixed, recent, cached, loaded, running>>

VersionsNext ==
    \/ BeginTask \/ End \/ Vanish \/ Publish
    \/ \E s \in Specs : LoadFromDirectory(s) \/ LoadFromCatalog(s) \/ LoadClassPackage(s)

VersionsSpec == VersionsInit /\ [][VersionsNext]_versions

-----------------------------------------------------------------------------
\* What is asked for, as it is written.
AsksFor(s, v) ==
    IF ~s.partial THEN Compares(v, s.kind, <<s.major, s.minor>>)
    ELSE CASE s.kind = "!=" -> v[1] # s.major
           [] s.kind = "==" -> v[1] = s.major
           [] s.kind = "<" -> v[1] < s.major
           [] s.kind = "<=" -> v[1] <= s.major
           [] s.kind = ">" -> v[1] > s.major
           [] s.kind = ">=" -> v[1] >= s.major

\* No saved version will do ("!=" with a partial version is taken for
\* "above all of these", and finds nothing below).
Needed(s) == \A v \in saved : ~AsksFor(s, v) \/ (s.kind = "!=" /\ s.partial)

\* "the engine already loaded version 0.3 it can still use it": packages that
\* are published later never make a deployed environment change its version
\* by themselves.  What a task loads is what was asked for; and it is a
\* version saved with the environment, unless that version was needed for
\* something that no saved version fits.
VersionsAreKept ==
    \A l \in loaded :
        /\ AsksFor(l.spec, l.version)
        /\ \/ l.version \in saved
           \/ \E k \in loaded : k.version = l.version /\ Needed(k.spec)
=============================================================================
