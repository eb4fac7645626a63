---------------------------- MODULE PackageCatalog ----------------------------
(***************************************************************************)
(* The application catalog: packages are uploaded, updated, made public    *)
(* and deleted by several API workers.  Uploads and publications are       *)
(* serialised by rows of the table `locks', taken by updating them or, the *)
(* first time, by inserting them; tags are inserted when they are first    *)
(* used.  Such a row belongs to its transaction until that ends, and       *)
(* whoever wants it waits.                                                 *)
(*                                                                         *)
(* Statements see what is committed (READ COMMITTED), and the database     *)
(* breaks a deadlock by failing one of its transactions.                   *)
(***************************************************************************)
EXTENDS Naturals, Sequences, FiniteSets

CONSTANTS
    Tenants,
    Archives,     \* what can be uploaded ...
    Content,      \* ... and what is in it: fqn, classes, tags, category
    PackageIds,   \* bound: packages that can be stored
    Workers,      \* requests served at the same time
    MaxRequests,  \* bound: requests that are served
    MaxRetries,   \* of wrap_db_retry: how often a transaction is repeated
    Nobody,
    Gone          \* in place of a package that is deleted

Fqns == {Content[a].fqn : a \in Archives}
Categories == {Content[a].category : a \in Archives}
Tags == UNION {{Content[a].tags[i] : i \in DOMAIN Content[a].tags} : a \in Archives}
ClassNames == UNION {Content[a].classes : a \in Archives}
Public == "public_packages"
UniqueRows == {Public} \cup Tenants \cup Tags

VARIABLES
    packages,    \* the committed rows of the table `package'
    categories,  \* the categories that exist
    rows,        \* the committed rows of `locks' and `tag'
    holder,      \* the request whose open transaction wrote such a row
    worker,      \* the request each worker serves
    served       \* how many requests there have been

catalog == <<packages, categories, rows, holder, worker, served>>

\* `from' is the archive the package was made of.
PackageRows == [from : Archives, owner : Tenants, public : BOOLEAN,
                classes : SUBSET ClassNames, category : SUBSET Categories]
Stored == {i \in PackageIds : packages[i] \notin {Nobody, Gone}}

ASSUME CatalogAssumption ==
    /\ MaxRequests \in Nat /\ MaxRetries \in Nat
    /\ Nobody \notin Workers \cup Tenants \cup PackageIds
    /\ Nobody \notin PackageRows /\ Gone # Nobody
    /\ ({Public} \cup Tenants) \cap Tags = {}
    /\ \A a \in Archives :
          /\ DOMAIN Content[a] = {"fqn", "classes", "tags", "category"}
          /\ Content[a].tags \in Seq(Tags)

\* `needs' are the unique rows still to get hold of; `values' the attributes
\* left in the dictionary of an upload, `taken' those moved to its package;
\* `row' the package an update has read, and `change' what it does to it.
Attributes == {"categories", "tags", "class_definitions"}
Changes == {"publicize", "privatize", "recategorize"}
Idle == [pc |-> "idle", op |-> "none", tenant |-> Nobody, archive |-> Nobody,
         public |-> FALSE, values |-> {}, taken |-> {}, retries |-> 0,
         needs |-> <<>>, found |-> FALSE,
         id |-> Nobody, row |-> Nobody, change |-> "none"]

CatalogInit ==
    /\ packages = [i \in PackageIds |-> Nobody]
    /\ categories = Categories
    /\ rows = {} /\ holder = [n \in UniqueRows |-> Nobody]
    /\ worker = [w \in Workers |-> Idle]
    /\ served = 0

-----------------------------------------------------------------------------
(* Transactions and unique rows *)

Held(w) == {n \in UniqueRows : holder[n] = w}

Release(w) == holder' = [n \in UniqueRows |->
                            IF holder[n] = w THEN Nobody ELSE holder[n]]
\* The transaction of w ends with the request.
Rollback(w) ==
    /\ Release(w)
    /\ worker' = [worker EXCEPT ![w] = Idle]
    /\ UNCHANGED <<packages, categories, rows, served>>

\* Whom w waits for: a row written by another open transaction cannot be
\* written, whether it is being inserted or updated.
Waiting(w) ==
    /\ worker[w].pc = "writing"
    /\ holder[Head(worker[w].needs)] \notin {Nobody, w}
WaitsFor(w) == holder[Head(worker[w].needs)]
Deadlocked(w) ==
    \E S \in SUBSET Workers :
        w \in S /\ (\A v \in S : Waiting(v)) /\ S = {WaitsFor(v) : v \in S}

\* _get_or_create_lock and _get_tags: look for the row first.  A tag that
\* exists is used as it is; a lock is taken in any case.
LookUp(w) ==
    LET n == Head(worker[w].needs)
        left == Tail(worker[w].needs)
    IN
    /\ worker[w].pc = "looking"
    /\ worker' = [worker EXCEPT ![w] =
           IF n \in Tags /\ n \in rows \cup Held(w)
           THEN [@ EXCEPT !.needs = left, !.pc = IF left = <<>> THEN "saving" ELSE "looking"]
           ELSE [@ EXCEPT !.pc = "writing", !.found = n \in rows \cup Held(w)]]
    /\ UNCHANGED <<packages, categories, rows, holder, served>>

\* Where the request goes on once it has all the rows it needs.
AfterRow(w) ==
    IF Len(worker[w].needs) > 1 THEN "looking"
    ELSE IF Head(worker[w].needs) \in Tags THEN "saving" ELSE "checking"

\* A row that was not there is inserted, one that was is updated; a row that
\* another has inserted since is a duplicate: the savepoint is rolled back
\* and the row looked up again.
WriteRow(w) ==
    LET n == Head(worker[w].needs) IN
    /\ worker[w].pc = "writing" /\ ~Waiting(w)
    /\ IF n \in rows /\ ~worker[w].found
       THEN /\ worker' = [worker EXCEPT ![w].pc = "looking"]
            /\ UNCHANGED holder
       ELSE /\ holder' = [holder EXCEPT ![n] = w]
            /\ worker' = [worker EXCEPT ![w].pc = AfterRow(w),
                                        ![w].needs = Tail(@)]
    /\ UNCHANGED <<packages, categories, rows, served>>

\* A worker takes a request (bound: MaxRequests).
Begin(w, request) ==
    /\ worker[w].pc = "idle" /\ served < MaxRequests
    /\ served' = served + 1
    /\ worker' = [worker EXCEPT ![w] = request]
    /\ UNCHANGED <<packages, categories, rows, holder>>

-----------------------------------------------------------------------------
(* What the checks look for *)

OfTenant(t) == {i \in Stored : packages[i].owner = t}
PublicOnes == {i \in Stored : packages[i].public}

\* _check_for_existing_classes: the scope is what the tenant owns, and what
\* is public if the package shall be.
ClassTaken(classes, scope) == \E i \in scope : packages[i].classes \cap classes # {}
\* _check_for_public_packages_with_fqn
FqnTaken(fqn, scope) == \E i \in scope : Content[packages[i].from].fqn = fqn

-----------------------------------------------------------------------------
(* package_upload *)

\* The locks it takes: of the public packages first, then of the tenant's.
Locks(public, tenant) == (IF public THEN <<Public>> ELSE <<>>) \o <<tenant>>

\* Controller.upload has loaded the archive and checked the policy.
Upload(w) ==
    \E t \in Tenants, a \in Archives, public \in BOOLEAN :
        Begin(w, [Idle EXCEPT !.pc = "looking", !.op = "upload", !.tenant = t,
                              !.archive = a, !.public = public,
                              !.values = Attributes, !.retries = MaxRetries,
                              !.needs = Locks(public, t)])

\* The classes the upload knows of: those left in its dictionary.
Classes(w) ==
    IF "class_definitions" \in worker[w].values \cup worker[w].taken
    THEN Content[worker[w].archive].classes ELSE {}

Scope(w) == OfTenant(worker[w].tenant)
            \cup IF worker[w].public THEN PublicOnes ELSE {}
CheckUpload(w) ==
    LET conflict ==
            \/ ClassTaken(Classes(w), Scope(w))
            \/ worker[w].public /\ FqnTaken(Content[worker[w].archive].fqn, PublicOnes)
    IN  /\ worker[w].pc = "checking" /\ worker[w].op = "upload"
        /\ IF conflict
           THEN Rollback(w)
           ELSE /\ worker' = [worker EXCEPT ![w].pc = "describing"]
                /\ UNCHANGED <<packages, categories, rows, holder, served>>

\* The attributes move from the dictionary to the package in no particular
\* order: any of the others before the tags, whose rows may have to be waited
\* for.
Describe(w) ==
    LET tags == Content[worker[w].archive].tags IN
    /\ worker[w].pc = "describing"
    /\ \E before \in SUBSET (worker[w].values \ {"tags"}) :
          worker' = [worker EXCEPT
              ![w].taken = before, ![w].values = @ \ before,
              ![w].needs = IF "tags" \in worker[w].values THEN tags ELSE <<>>,
              ![w].pc = IF "tags" \in worker[w].values /\ tags # <<>>
                        THEN "looking" ELSE "saving"]
    /\ UNCHANGED <<packages, categories, rows, holder, served>>

\* Any error rolls back: a category that does not exist, a package of that
\* name that the tenant has.  Else both transactions are committed.
\* (Bound: there is an identifier left; one of a deleted package is not used
\* again.)
Unused == {i \in PackageIds : packages[i] = Nobody}
SaveUpload(w) ==
    LET content == Content[worker[w].archive]
        category == IF "categories" \in worker[w].values \cup worker[w].taken
                    THEN {content.category} ELSE {}
    IN  /\ worker[w].pc = "saving" /\ worker[w].op = "upload"
        /\ \/ /\ \/ ~ category \subseteq categories
                 \/ FqnTaken(content.fqn, OfTenant(worker[w].tenant))
              /\ Rollback(w)
           \/ /\ category \subseteq categories
              /\ ~FqnTaken(content.fqn, OfTenant(worker[w].tenant))
              /\ Unused # {}
              /\ LET i == CHOOSE i \in Unused : TRUE IN
                    packages' = [packages EXCEPT ![i] =
                        [from |-> worker[w].archive, owner |-> worker[w].tenant,
                         public |-> worker[w].public,
                         classes |-> Classes(w), category |-> category]]
              /\ rows' = rows \cup Held(w)
              /\ Release(w)
              /\ worker' = [worker EXCEPT ![w] = Idle]
              /\ UNCHANGED <<categories, served>>

\* The database fails one of the transactions that wait for each other.
\* wrap_db_retry calls package_upload again with the same dictionary.
Retried(w) == worker[w].values
BreakDeadlock(w) ==
    /\ Deadlocked(w)
    /\ Release(w)
    /\ worker' = [worker EXCEPT ![w] =
           IF worker[w].retries = 0 THEN Idle
           ELSE [@ EXCEPT !.pc = "looking", !.retries = worker[w].retries - 1,
                          !.values = Retried(w), !.taken = {},
                          !.needs = Locks(worker[w].public, worker[w].tenant)]]
    /\ UNCHANGED <<packages, categories, rows, served>>

-----------------------------------------------------------------------------
(* package_update and package_delete *)

\* The package whose row the open transaction of v has updated.
RowFree(w, i) ==
    \A v \in Workers \ {w} :
        ~ (worker[v].op = "update" /\ worker[v].id = i
           /\ worker[v].pc \in {"looking", "writing", "checking", "saving"})

\* Controller.update and delete read the package in a first transaction and
\* refuse what the policy does not allow or who does not own it.
BeginUpdate(w) ==
    \E i \in Stored, change \in Changes :
        Begin(w, [Idle EXCEPT !.pc = "reading", !.op = "update", !.id = i,
                              !.change = change])

ReadPackage(w) ==
    LET i == worker[w].id IN
    /\ worker[w].pc = "reading"
    /\ worker' = [worker EXCEPT ![w] =
           IF i \in Stored
           THEN [@ EXCEPT !.pc = "flushing", !.row = packages[i]] ELSE Idle]
    /\ UNCHANGED <<packages, categories, rows, holder, served>>

\* The package becomes public.
Publishes(w) == worker[w].change = "publicize" /\ ~worker[w].row.public
\* Taking the lock writes the row first, for which the update may wait.
Flush(w) ==
    /\ worker[w].pc = "flushing" /\ Publishes(w)
    /\ RowFree(w, worker[w].id)
    /\ worker' = [worker EXCEPT ![w] =
           IF worker[w].id \in Stored
           THEN [@ EXCEPT !.pc = "looking", !.needs = <<Public>>] ELSE Idle]
    /\ UNCHANGED <<packages, categories, rows, holder, served>>

Others_mutant(i) == {j \in PublicOnes \ {i} : packages[j].owner = packages[i].owner}
Others(i) == PublicOnes \ {i}
CheckUpdate(w) ==
    LET row == worker[w].row
        others == Others(worker[w].id)
    IN  /\ worker[w].pc = "checking" /\ worker[w].op = "update"
        /\ IF FqnTaken(Content[row.from].fqn, others) \/ ClassTaken(row.classes, others)
           THEN Rollback(w)
           ELSE /\ worker' = [worker EXCEPT ![w].pc = "saving"]
                /\ UNCHANGED <<packages, categories, rows, holder, served>>

\* What the update makes of the row: columns it does not change keep the
\* value they have by now.
Changed(w, row) ==
    CASE worker[w].change = "publicize" ->
           {IF Publishes(w) THEN [row EXCEPT !.public = TRUE] ELSE row}
      [] worker[w].change = "privatize" ->
           {IF worker[w].row.public THEN [row EXCEPT !.public = FALSE] ELSE row}
      [] worker[w].change = "recategorize" ->
           {[row EXCEPT !.category = c] : c \in SUBSET categories}

\* A category that has gone since it was looked up violates the foreign key.
Commit(w) ==
    LET i == worker[w].id IN
    /\ \/ worker[w].pc = "saving" /\ worker[w].op = "update"
       \/ worker[w].pc = "flushing" /\ ~Publishes(w) /\ RowFree(w, i)
    /\ IF i \in Stored
       THEN /\ \E row \in Changed(w, packages[i]) :
                  packages' = [packages EXCEPT ![i] = row]
            /\ rows' = rows \cup Held(w)
       ELSE UNCHANGED <<packages, rows>>
    /\ Release(w)
    /\ worker' = [worker EXCEPT ![w] = Idle]
    /\ UNCHANGED <<categories, served>>

BeginDelete(w) ==
    \E i \in Stored :
        Begin(w, [Idle EXCEPT !.pc = "deleting", !.op = "delete", !.id = i])

Delete(w) ==
    /\ worker[w].pc = "deleting" /\ RowFree(w, worker[w].id)
    /\ packages' = [packages EXCEPT ![worker[w].id] = Gone]
    /\ worker' = [worker EXCEPT ![w] = Idle]
    /\ UNCHANGED <<categories, rows, holder, served>>

-----------------------------------------------------------------------------
(* Categories *)

AddCategory ==
    /\ served < MaxRequests /\ served' = served + 1
    /\ \E c \in Categories \ categories : categories' = categories \cup {c}
    /\ UNCHANGED <<packages, rows, holder, worker>>

\* delete_category looks for packages that have it ...
BeginDeleteCategory(w) ==
    \E c \in categories :
        /\ \A i \in Stored : c \notin packages[i].category
        /\ Begin(w, [Idle EXCEPT !.pc = "dropping", !.op = "category", !.row = c])

\* ... and deletes it in another transaction, unless a package has got it
\* meanwhile: the reference is ON DELETE RESTRICT.
Restricts(c) == \E i \in Stored : c \in packages[i].category
DeleteCategory(w) ==
    /\ worker[w].pc = "dropping"
    /\ categories' = IF Restricts(worker[w].row) THEN categories
                     ELSE categories \ {worker[w].row}
    /\ worker' = [worker EXCEPT ![w] = Idle]
    /\ UNCHANGED <<packages, rows, holder, served>>

-----------------------------------------------------------------------------
WorkerStep(w) ==
    \/ LookUp(w) \/ WriteRow(w) \/ BreakDeadlock(w)
    \/ CheckUpload(w) \/ Describe(w) \/ SaveUpload(w)
    \/ ReadPackage(w) \/ Flush(w) \/ CheckUpdate(w) \/ Commit(w)
    \/ Delete(w) \/ DeleteCategory(w)

CatalogNext ==
    \/ \E w \in Workers :
          \/ WorkerStep(w)
          \/ Upload(w) \/ BeginUpdate(w) \/ BeginDelete(w) \/ BeginDeleteCategory(w)
    \/ AddCategory

CatalogSpec == CatalogInit /\ [][CatalogNext]_catalog

-----------------------------------------------------------------------------
(* Properties *)

CatalogTypeOK ==
    /\ packages \in [PackageIds -> PackageRows \cup {Nobody, Gone}]
    /\ categories \subseteq Categories
    /\ rows \subseteq UniqueRows
    /\ holder \in [UniqueRows -> Workers \cup {Nobody}]
    /\ DOMAIN worker = Workers
    /\ served \in 0..MaxRequests

\* "Class with the same full name is already registered in the visibility
\* scope": no two packages of a tenant, and no two public ones, define the
\* same class, and no two public ones have the same name, however uploads,
\* publications and deletions overlap.
ScopesAreUnambiguous ==
    \A i, j \in Stored : i # j =>
        /\ packages[i].owner = packages[j].owner \/ {i, j} \subseteq PublicOnes
           => packages[i].classes \cap packages[j].classes = {}
        /\ {i, j} \subseteq PublicOnes
           => Content[packages[i].from].fqn # Content[packages[j].from].fqn

\* A package has categories that exist, although they are looked up, and
\* looked for in packages, before the transactions that write them.
CategoriesExist == \A i \in Stored : packages[i].category \subseteq categories

\* The catalog as a whole (db/catalog/api.py, package_upload, package_update,
\* package_delete, category_delete): however requests of two workers overlap,
\* fail and are tried again, names stay unambiguous in every scope and no
\* package is left with a category that is gone.
CatalogIsConsistent == CatalogTypeOK /\ ScopesAreUnambiguous /\ CategoriesExist
=============================================================================
