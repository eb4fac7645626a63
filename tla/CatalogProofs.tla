----------------------------- MODULE CatalogProofs -----------------------------
(***************************************************************************)
(* Proofs about the application catalog and the environment templates: the *)
(* packages stay consistent, a search lists each of them once, and a       *)
(* template holds the services that requests put into it.                  *)
(***************************************************************************)
EXTENDS PackageCatalog, CatalogSearch, EnvironmentTemplates, SequenceTheorems,
        FiniteSetTheorems, WellFoundedInduction, TLAPS

-----------------------------------------------------------------------------
(* Uploads, publications and deletions of packages *)

\* A request that a worker serves.
Requests ==
    [pc : {"idle", "looking", "writing", "checking", "describing", "saving", "reading",
           "flushing", "deleting", "dropping"},
     op : {"none", "upload", "update", "delete", "category"},
     tenant : Tenants \cup {Nobody}, archive : Archives \cup {Nobody}, public : BOOLEAN,
     values : SUBSET Attributes, taken : SUBSET Attributes, retries : 0..MaxRetries,
     needs : Seq(UniqueRows), found : BOOLEAN, id : PackageIds \cup {Nobody},
     row : PackageRows \cup Categories \cup {Nobody}, change : Changes \cup {"none"}]

\* Only uploads and updates take rows, and only uploads are tried again.
InPlace(k) ==
    /\ k.pc \in {"looking", "writing", "checking", "saving"} => k.op \in {"upload", "update"}
    /\ k.pc = "describing" => k.op = "upload"
    /\ k.pc \in {"reading", "flushing"} => k.op = "update"
    /\ k.retries # 0 => k.op = "upload"
    /\ k.op = "upload" => k.tenant \in Tenants /\ k.archive \in Archives
    /\ k.op = "update" => k.change \in Changes

\* An upload is taking its locks, or has them and takes tags.
Locked(w) ==
    /\ holder[worker[w].tenant] = w
    /\ worker[w].public => holder[Public] = w
Checked(w) ==
    /\ ~ClassTaken(Classes(w), Scope(w))
    /\ worker[w].public => ~FqnTaken(Content[worker[w].archive].fqn, PublicOnes)
Locking(w) ==
    /\ worker[w].taken = {}
    /\ \/ worker[w].needs = Locks(worker[w].public, worker[w].tenant)
       \/ worker[w].public /\ holder[Public] = w /\ worker[w].needs = <<worker[w].tenant>>
Tagging(w) ==
    /\ worker[w].needs \in Seq(Tags) /\ worker[w].needs # <<>>
    /\ Locked(w) /\ Checked(w)

UploadKnows(w) ==
    worker[w].op = "upload" =>
        /\ worker[w].pc \in {"looking", "writing"} => Locking(w) \/ Tagging(w)
        /\ worker[w].pc \in {"checking", "describing", "saving"} => Locked(w)
        /\ worker[w].pc \in {"checking", "describing"} => worker[w].taken = {}
        /\ worker[w].pc \in {"describing", "saving"} => Checked(w)

\* What an update has read of its package stays true of it.
Same(r, s) == r.from = s.from /\ r.owner = s.owner /\ r.classes = s.classes
Clear(w) ==
    /\ ~FqnTaken(Content[worker[w].row.from].fqn, Others(worker[w].id))
    /\ ~ClassTaken(worker[w].row.classes, Others(worker[w].id))
UpdateKnows(w) ==
    worker[w].op = "update" =>
        /\ worker[w].id \in PackageIds /\ packages[worker[w].id] # Nobody
        /\ worker[w].pc \in {"flushing", "looking", "writing", "checking", "saving"} =>
              /\ worker[w].row \in PackageRows
              /\ worker[w].id \in Stored => Same(packages[worker[w].id], worker[w].row)
        /\ worker[w].pc \in {"looking", "writing", "checking", "saving"} => Publishes(w)
        /\ worker[w].pc \in {"looking", "writing"} => worker[w].needs = <<Public>>
        /\ worker[w].pc \in {"checking", "saving"} => holder[Public] = w
        /\ worker[w].pc = "saving" => Clear(w)

Knows(w) == InPlace(worker[w]) /\ UploadKnows(w) /\ UpdateKnows(w)

CatalogInv ==
    /\ CatalogTypeOK /\ ScopesAreUnambiguous /\ CategoriesExist
    /\ worker \in [Workers -> Requests]
    /\ \A w \in Workers : Knows(w)

\* What another step does to the packages, as far as v has to know: those that
\* stay are the same, and what gets into a scope does so under its lock.
Unseen(v) ==
    /\ \A i \in PackageIds : packages[i] # Nobody => packages'[i] # Nobody
    /\ \A i \in Stored' :
          \/ /\ i \in Stored /\ Same(packages'[i], packages[i])
             /\ packages'[i].public => packages[i].public \/ holder[Public] # v
          \/ /\ packages[i] = Nobody /\ holder[packages'[i].owner] # v
             /\ packages'[i].public => holder[Public] # v

LEMMA RowsApart ==
  ASSUME CatalogAssumption
  PROVE  /\ Public \in UniqueRows /\ Tenants \subseteq UniqueRows /\ Tags \subseteq UniqueRows
         /\ Public \notin Tags /\ \A t \in Tenants : t \notin Tags
BY DEF CatalogAssumption, UniqueRows

\* Types.
LEMMA Types ==
  ASSUME CatalogInv, NEW w \in Workers
  PROVE  /\ worker[w] \in Requests
         /\ worker[w].pc \in {"idle", "looking", "writing", "checking", "describing", "saving",
                              "reading", "flushing", "deleting", "dropping"}
         /\ worker[w].op \in {"none", "upload", "update", "delete", "category"}
         /\ worker[w].public \in BOOLEAN /\ worker[w].values \in SUBSET Attributes
         /\ worker[w].taken \in SUBSET Attributes /\ worker[w].retries \in 0..MaxRetries
         /\ worker[w].needs \in Seq(UniqueRows)
         /\ InPlace(worker[w]) /\ UploadKnows(w) /\ UpdateKnows(w)
<1>1. worker[w] \in Requests /\ Knows(w)
  BY DEF CatalogInv
<1> QED  BY <1>1 DEF Requests, Knows

LEMMA RowTypes ==
  ASSUME CatalogInv, NEW i \in Stored
  PROVE  /\ i \in PackageIds /\ packages[i] \in PackageRows
         /\ packages[i].from \in Archives /\ packages[i].owner \in Tenants
         /\ packages[i].public \in BOOLEAN
<1>1. i \in PackageIds /\ packages[i] \in PackageRows
  BY DEF CatalogInv, CatalogTypeOK, Stored
<1> QED  BY <1>1 DEF PackageRows

LEMMA IdleFits ==
  ASSUME CatalogAssumption
  PROVE  Idle \in Requests
<1>1. <<>> \in Seq(UniqueRows)
  BY EmptySeq
<1>2. 0 \in 0..MaxRetries
  BY DEF CatalogAssumption
<1> QED  BY <1>1, <1>2 DEF Idle, Requests

LEMMA IdleKnows ==
  ASSUME NEW w \in Workers, worker'[w] = Idle
  PROVE  Knows(w)'
<1>1. worker'[w].pc = "idle" /\ worker'[w].op = "none" /\ worker'[w].retries = 0
  BY DEF Idle
<1> QED  BY <1>1 DEF Knows, InPlace, UploadKnows, UpdateKnows

\* Whoever does nothing knows what it knew.
LEMMA OthersKnow ==
  ASSUME CatalogAssumption, CatalogInv, NEW v \in Workers, worker'[v] = worker[v],
         \A n \in UniqueRows : holder[n] = v => holder'[n] = v, Unseen(v)
  PROVE  Knows(v)'
<1>1. InPlace(worker[v]) /\ UploadKnows(v) /\ UpdateKnows(v)
  BY Types
<1>2. InPlace(worker[v])'
  BY <1>1 DEF InPlace
<1>3. \A i \in Stored' : i \in PackageIds
  BY DEF Stored
<1>4. ASSUME worker[v].op = "upload"
      PROVE  UploadKnows(v)'
  <2>1. worker[v].tenant \in UniqueRows /\ Public \in UniqueRows
    BY <1>1, <1>4, RowsApart DEF InPlace
  <2>2. Locked(v) => Locked(v)'
    BY <2>1 DEF Locked
  <2>3. Classes(v)' = Classes(v)
    BY DEF Classes
  <2>4. ASSUME Locked(v), Checked(v)
        PROVE  Checked(v)'
    <3>1. \A i \in PublicOnes' : worker[v].public =>
             i \in PublicOnes /\ Same(packages'[i], packages[i])
      BY <2>4 DEF PublicOnes, Unseen, Locked
    <3>2. \A i \in OfTenant(worker[v].tenant)' :
             i \in OfTenant(worker[v].tenant) /\ Same(packages'[i], packages[i])
      BY <2>4 DEF OfTenant, Unseen, Locked, Same
    <3>3. \A i \in Scope(v)' : i \in Scope(v) /\ packages'[i].classes = packages[i].classes
      BY <3>1, <3>2 DEF Scope, Same
    <3>4. ~ClassTaken(Classes(v), Scope(v))'
      BY <2>3, <2>4, <3>3 DEF ClassTaken, Checked
    <3>5. ASSUME worker[v].public
          PROVE  ~FqnTaken(Content[worker[v].archive].fqn, PublicOnes)'
      BY <2>4, <3>1, <3>5 DEF FqnTaken, Same, Checked
    <3> QED  BY <3>4, <3>5 DEF Checked
  <2>5. Locking(v) => Locking(v)'
    BY <2>1 DEF Locking
  <2>6. Tagging(v) => Tagging(v)'
    BY <2>2, <2>4 DEF Tagging
  <2>7. worker[v].pc \in {"describing", "saving"} => Locked(v) /\ Checked(v)
    BY <1>1, <1>4 DEF UploadKnows
  <2> QED  BY <1>1, <1>4, <2>2, <2>4, <2>5, <2>6, <2>7 DEF UploadKnows
<1>5. ASSUME worker[v].op = "update"
      PROVE  UpdateKnows(v)'
  <2> DEFINE i == worker[v].id
  <2>1. i \in PackageIds /\ packages[i] # Nobody /\ packages'[i] # Nobody
    BY <1>1, <1>5 DEF UpdateKnows, Unseen
  <2>2. i \in Stored' => i \in Stored /\ Same(packages'[i], packages[i])
    BY <2>1 DEF Unseen
  <2>3. ASSUME holder[Public] = v, Clear(v)
        PROVE  Clear(v)'
    <3>1. \A j \in Others(i)' : j \in Others(i) /\ Same(packages'[j], packages[j])
      BY <2>3 DEF Others, PublicOnes, Unseen
    <3> QED  BY <2>3, <3>1 DEF Clear, FqnTaken, ClassTaken, Same
  <2>4. Publishes(v) <=> Publishes(v)'
    BY DEF Publishes
  <2>5. worker[v].row \in PackageRows /\ (i \in Stored => Same(packages[i], worker[v].row))
        => worker[v].row \in PackageRows /\ (i \in Stored' => Same(packages'[i], worker[v].row))
    BY <2>2 DEF Same
  <2>6. holder[Public] = v => holder'[Public] = v
    BY RowsApart
  <2> QED  BY <1>1, <1>5, <2>1, <2>3, <2>4, <2>5, <2>6 DEF UpdateKnows
<1> QED  BY <1>2, <1>4, <1>5 DEF Knows, UploadKnows, UpdateKnows

\* A step of w keeps the invariant, if what w knows afterwards is true, and
\* the packages are in order.
LEMMA StepKeeps ==
  ASSUME CatalogAssumption, CatalogInv, NEW w \in Workers, NEW r \in Requests,
         worker' = [worker EXCEPT ![w] = r],
         holder' \in [UniqueRows -> Workers \cup {Nobody}],
         \A n \in UniqueRows : holder[n] \in Workers \ {w} => holder'[n] = holder[n],
         packages' \in [PackageIds -> PackageRows \cup {Nobody, Gone}],
         \A v \in Workers \ {w} : Unseen(v),
         categories' \subseteq Categories, rows' \subseteq UniqueRows, served' \in 0..MaxRequests,
         ScopesAreUnambiguous', CategoriesExist', Knows(w)'
  PROVE  CatalogInv'
<1>1. worker \in [Workers -> Requests]
  BY DEF CatalogInv
<1>2. worker' \in [Workers -> Requests] /\ DOMAIN worker' = Workers
  BY <1>1
<1>3. \A v \in Workers \ {w} : worker'[v] = worker[v]
  BY <1>1
<1>4. \A v \in Workers : Knows(v)'
  <2> TAKE v \in Workers
  <2>1. CASE v # w
    <3>1. worker'[v] = worker[v] /\ Unseen(v)
      BY <1>3, <2>1
    <3>2. \A n \in UniqueRows : holder[n] = v => holder'[n] = v
      BY <2>1
    <3> QED  BY <3>1, <3>2, OthersKnow
  <2> QED  BY <2>1
<1>5. CatalogTypeOK'
  BY <1>2 DEF CatalogTypeOK
<1> QED  BY <1>2, <1>4, <1>5 DEF CatalogInv

\* The same when the packages and categories stay as they are.
LEMMA QuietStep ==
  ASSUME CatalogAssumption, CatalogInv, NEW w \in Workers, NEW r \in Requests,
         worker' = [worker EXCEPT ![w] = r],
         holder' \in [UniqueRows -> Workers \cup {Nobody}],
         \A n \in UniqueRows : holder[n] \in Workers \ {w} => holder'[n] = holder[n],
         UNCHANGED <<packages, categories, rows>>, served' \in 0..MaxRequests, Knows(w)'
  PROVE  CatalogInv'
<1>1. \A v \in Workers \ {w} : Unseen(v)
  BY DEF Unseen, Stored, Same
<1>2. /\ packages' \in [PackageIds -> PackageRows \cup {Nobody, Gone}]
      /\ categories' \subseteq Categories /\ rows' \subseteq UniqueRows
      /\ ScopesAreUnambiguous /\ CategoriesExist
  BY DEF CatalogInv, CatalogTypeOK
<1>3. ScopesAreUnambiguous' /\ CategoriesExist'
  BY <1>2 DEF ScopesAreUnambiguous, CategoriesExist, Stored, PublicOnes
<1> QED  BY <1>1, <1>2, <1>3, StepKeeps

\* Rows that nobody writes stay with whom they are.
LEMMA Standing ==
  ASSUME CatalogInv
  PROVE  holder \in [UniqueRows -> Workers \cup {Nobody}] /\ served \in 0..MaxRequests
BY DEF CatalogInv, CatalogTypeOK

LEMMA Released ==
  ASSUME CatalogInv, NEW w \in Workers, Release(w)
  PROVE  /\ holder' \in [UniqueRows -> Workers \cup {Nobody}]
         /\ \A n \in UniqueRows : holder[n] \in Workers \ {w} => holder'[n] = holder[n]
<1>1. holder \in [UniqueRows -> Workers \cup {Nobody}]
  BY Standing
<1> QED  BY <1>1 DEF Release

LEMMA RollbackKeeps ==
  ASSUME CatalogAssumption, CatalogInv, NEW w \in Workers, Rollback(w)
  PROVE  CatalogInv'
<1>1. /\ Release(w) /\ worker' = [worker EXCEPT ![w] = Idle]
      /\ UNCHANGED <<packages, categories, rows, served>>
  BY DEF Rollback
<1>2. Idle \in Requests
  BY IdleFits
<1>3. worker'[w] = Idle
  BY <1>1 DEF CatalogInv
<1> QED  BY <1>1, <1>2, <1>3, IdleKnows, Released, Standing, QuietStep

\* Looking for the next row, and writing it.
LEMMA NeedsOf ==
  ASSUME CatalogAssumption, CatalogInv, NEW w \in Workers,
         worker[w].pc \in {"looking", "writing"}
  PROVE  /\ worker[w].needs # <<>> /\ Head(worker[w].needs) \in UniqueRows
         /\ Tail(worker[w].needs) \in Seq(UniqueRows)
         /\ \/ worker[w].op = "upload" /\ Tagging(w)
            \/ worker[w].op = "upload" /\ worker[w].needs = <<worker[w].tenant>> /\ Locking(w)
               /\ (worker[w].public => holder[Public] = w)
            \/ worker[w].op = "upload" /\ worker[w].public /\ Locking(w)
               /\ worker[w].needs = <<Public, worker[w].tenant>>
            \/ worker[w].op = "update" /\ worker[w].needs = <<Public>>
<1>1. /\ worker[w].needs \in Seq(UniqueRows) /\ InPlace(worker[w])
      /\ UploadKnows(w) /\ UpdateKnows(w) /\ worker[w].public \in BOOLEAN
  BY Types
<1>2. worker[w].op \in {"upload", "update"}
  BY <1>1 DEF InPlace
<1>3. ASSUME worker[w].op = "upload", Locking(w)
      PROVE  \/ worker[w].needs = <<worker[w].tenant>> /\ (worker[w].public => holder[Public] = w)
             \/ worker[w].public /\ worker[w].needs = <<Public, worker[w].tenant>>
  BY <1>1, <1>3 DEF Locking, Locks
<1>4. \/ worker[w].op = "upload" /\ Tagging(w)
      \/ worker[w].op = "upload" /\ worker[w].needs = <<worker[w].tenant>> /\ Locking(w)
         /\ (worker[w].public => holder[Public] = w)
      \/ worker[w].op = "upload" /\ worker[w].public /\ Locking(w)
         /\ worker[w].needs = <<Public, worker[w].tenant>>
      \/ worker[w].op = "update" /\ worker[w].needs = <<Public>>
  BY <1>1, <1>2, <1>3 DEF UploadKnows, UpdateKnows
<1>5. worker[w].needs # <<>>
  BY <1>4 DEF Tagging
<1>6. Head(worker[w].needs) \in UniqueRows /\ Tail(worker[w].needs) \in Seq(UniqueRows)
  BY <1>1, <1>5, HeadTailProperties
<1> QED  BY <1>4, <1>5, <1>6

\* A request that goes on to its next row, or to the end of its rows.
LEMMA RowSkipped ==
  ASSUME NEW k \in Requests, NEW rest \in Seq(UniqueRows), NEW place \in {"saving", "looking"}
  PROVE  [k EXCEPT !.needs = rest, !.pc = place] \in Requests
BY DEF Requests

LEMMA LookUpKeeps ==
  ASSUME CatalogAssumption, CatalogInv, NEW w \in Workers, LookUp(w)
  PROVE  CatalogInv'
<1> DEFINE k == worker[w]
           n == Head(k.needs)
           skipped == [k EXCEPT !.needs = Tail(k.needs), !.pc = IF Tail(k.needs) = <<>> THEN "saving" ELSE "looking"]
<1>1. /\ k \in Requests /\ InPlace(k) /\ UploadKnows(w) /\ UpdateKnows(w)
      /\ k.pc = "looking" /\ k.op \in {"none", "upload", "update", "delete", "category"}
      /\ worker \in [Workers -> Requests]
  BY Types DEF LookUp, CatalogInv
<1>2. /\ Tail(k.needs) \in Seq(UniqueRows) /\ k.needs # <<>>
      /\ (k.op = "upload" /\ Tagging(w)) \/ n \notin Tags
      /\ k.op \in {"upload", "update"}
  BY <1>1, NeedsOf, RowsApart, Types DEF InPlace
<1>3. UNCHANGED <<packages, categories, rows, holder, served>>
  BY DEF LookUp
<1>4. CASE n \in Tags /\ n \in rows \cup Held(w)
  <2>1. k.op = "upload" /\ Tagging(w)
    BY <1>2, <1>4
  <2>2. worker' = [worker EXCEPT ![w] = skipped]
    BY <1>4 DEF LookUp
  <2>3. skipped \in Requests
    <3>1. PICK rest \in Seq(UniqueRows) : rest = Tail(k.needs)
      BY <1>2
    <3>2. PICK place \in {"saving", "looking"} :
            place = IF Tail(k.needs) = <<>> THEN "saving" ELSE "looking"
      OBVIOUS
    <3>3. skipped = [k EXCEPT !.needs = rest, !.pc = place]
      BY <3>1, <3>2
    <3> HIDE DEF skipped, k
    <3> QED  BY <1>1, <3>3, RowSkipped
  <2>4. worker'[w] = skipped
    BY <1>1, <2>2
  <2>5. /\ skipped.op = k.op /\ skipped.tenant = k.tenant /\ skipped.archive = k.archive
        /\ skipped.public = k.public /\ skipped.values = k.values /\ skipped.taken = k.taken
        /\ skipped.retries = k.retries /\ skipped.needs = Tail(k.needs)
        /\ skipped.pc = IF Tail(k.needs) = <<>> THEN "saving" ELSE "looking"
    BY <1>1 DEF Requests
  <2>6. Tail(k.needs) \in Seq(Tags)
    BY <1>2, <2>1, HeadTailProperties DEF Tagging
  <2> HIDE DEF skipped
  <2>7. Locked(w)' /\ Classes(w)' = Classes(w)
    BY <1>3, <2>1, <2>4, <2>5 DEF Tagging, Locked, Classes
  <2>8. Checked(w)'
    BY <1>3, <2>1, <2>4, <2>5, <2>7
    DEF Tagging, Checked, Scope, OfTenant, PublicOnes, Stored, ClassTaken, FqnTaken
  <2>9. Tail(k.needs) # <<>> => Tagging(w)'
    BY <2>4, <2>5, <2>6, <2>7, <2>8 DEF Tagging
  <2>10. UploadKnows(w)'
    BY <2>4, <2>5, <2>7, <2>8, <2>9 DEF UploadKnows
  <2>11. InPlace(worker[w])' /\ UpdateKnows(w)'
    BY <1>1, <2>1, <2>4, <2>5 DEF InPlace, UpdateKnows
  <2>12. Knows(w)'
    BY <2>10, <2>11 DEF Knows
  <2> QED  BY <1>3, <2>2, <2>3, <2>12, Standing, QuietStep
<1>5. CASE ~(n \in Tags /\ n \in rows \cup Held(w))
  <2> DEFINE b == n \in rows \cup Held(w)
             wanted == [k EXCEPT !.pc = "writing", !.found = b]
  <2>1. b \in BOOLEAN
    BY SMT
  <2>2. worker' = [worker EXCEPT ![w] = wanted]
    BY <1>5 DEF LookUp
  <2> HIDE DEF b
  <2>3. wanted \in Requests
    BY <1>1, <2>1 DEF Requests
  <2>4. worker'[w] = wanted
    BY <1>1, <2>2
  <2>5. /\ wanted.op = k.op /\ wanted.tenant = k.tenant /\ wanted.archive = k.archive
        /\ wanted.public = k.public /\ wanted.values = k.values /\ wanted.taken = k.taken
        /\ wanted.retries = k.retries /\ wanted.needs = k.needs /\ wanted.pc = "writing"
        /\ wanted.id = k.id /\ wanted.row = k.row /\ wanted.change = k.change
    BY <1>1 DEF Requests
  <2> HIDE DEF wanted
  <2>6. Locked(w) => Locked(w)'
    BY <1>3, <2>4, <2>5 DEF Locked
  <2>7. Classes(w)' = Classes(w)
    BY <2>4, <2>5 DEF Classes
  <2>8. Checked(w) => Checked(w)'
    BY <1>3, <2>4, <2>5, <2>7
    DEF Checked, Scope, OfTenant, PublicOnes, Stored, ClassTaken, FqnTaken
  <2>9. (Tagging(w) => Tagging(w)') /\ (Locking(w) => Locking(w)')
    BY <1>3, <2>4, <2>5, <2>6, <2>8 DEF Tagging, Locking
  <2>10. UploadKnows(w)'
    BY <1>1, <2>4, <2>5, <2>9 DEF UploadKnows
  <2>11. Publishes(w) => Publishes(w)'
    BY <2>4, <2>5 DEF Publishes
  <2>12. UpdateKnows(w)'
    BY <1>1, <1>3, <2>4, <2>5, <2>11 DEF UpdateKnows, Stored
  <2>13. InPlace(worker[w])'
    BY <1>1, <1>2, <2>4, <2>5 DEF InPlace
  <2>14. Knows(w)'
    BY <2>10, <2>12, <2>13 DEF Knows
  <2> QED  BY <1>3, <2>2, <2>3, <2>14, Standing, QuietStep
<1> QED  BY <1>4, <1>5

LEMMA WriteRowKeeps ==
  ASSUME CatalogAssumption, CatalogInv, NEW w \in Workers, WriteRow(w)
  PROVE  CatalogInv'
<1> DEFINE k == worker[w]
           n == Head(k.needs)
           again == [k EXCEPT !.pc = "looking"]
<1>1. /\ k \in Requests /\ InPlace(k) /\ UploadKnows(w) /\ UpdateKnows(w)
      /\ k.pc = "writing" /\ worker \in [Workers -> Requests] /\ k.needs \in Seq(UniqueRows)
  BY Types DEF WriteRow, CatalogInv
<1>2. /\ Tail(k.needs) \in Seq(UniqueRows) /\ k.needs # <<>> /\ n \in UniqueRows
  BY <1>1, NeedsOf
<1>3. UNCHANGED <<packages, categories, rows, served>>
  BY DEF WriteRow
<1>4. holder \in [UniqueRows -> Workers \cup {Nobody}] /\ holder[n] \in {Nobody, w}
  BY <1>1, Standing DEF WriteRow, Waiting
<1>5. CASE n \in rows /\ ~k.found
  <2>1. worker' = [worker EXCEPT ![w] = again] /\ holder' = holder
    BY <1>5 DEF WriteRow
  <2>2. again \in Requests
    BY <1>1 DEF Requests
  <2>3. worker'[w] = again
    BY <1>1, <2>1
  <2>4. /\ again.op = k.op /\ again.tenant = k.tenant /\ again.archive = k.archive
        /\ again.public = k.public /\ again.values = k.values /\ again.taken = k.taken
        /\ again.retries = k.retries /\ again.needs = k.needs /\ again.pc = "looking"
        /\ again.id = k.id /\ again.row = k.row /\ again.change = k.change
    BY <1>1 DEF Requests
  <2> HIDE DEF again
  <2>5. Locked(w) => Locked(w)'
    BY <2>1, <2>3, <2>4 DEF Locked
  <2>6. Classes(w)' = Classes(w)
    BY <2>3, <2>4 DEF Classes
  <2>7. Checked(w) => Checked(w)'
    BY <1>3, <2>3, <2>4, <2>6
    DEF Checked, Scope, OfTenant, PublicOnes, Stored, ClassTaken, FqnTaken
  <2>8. (Tagging(w) => Tagging(w)') /\ (Locking(w) => Locking(w)')
    BY <2>1, <2>3, <2>4, <2>5, <2>7 DEF Tagging, Locking
  <2>9. UploadKnows(w)'
    BY <1>1, <2>3, <2>4, <2>8 DEF UploadKnows
  <2>10. Publishes(w) => Publishes(w)'
    BY <2>3, <2>4 DEF Publishes
  <2>11. UpdateKnows(w)'
    BY <1>1, <1>3, <2>3, <2>4, <2>10 DEF UpdateKnows, Stored
  <2>12. InPlace(worker[w])'
    BY <1>1, <2>3, <2>4 DEF InPlace
  <2>13. Knows(w)'
    BY <2>9, <2>11, <2>12 DEF Knows
  <2> QED  BY <1>3, <1>4, <2>1, <2>2, <2>13, Standing, QuietStep
<1>6. CASE ~(n \in rows /\ ~k.found)
  <2> DEFINE after == [k EXCEPT !.pc = AfterRow(w), !.needs = Tail(k.needs)]
  <2>1. holder' = [holder EXCEPT ![n] = w] /\ worker' = [worker EXCEPT ![w] = after]
    BY <1>6 DEF WriteRow
  <2>2. AfterRow(w) \in {"looking", "saving", "checking"}
    BY DEF AfterRow
  <2>3. after \in Requests
    BY <1>1, <1>2, <2>2 DEF Requests
  <2>4. worker'[w] = after
    BY <1>1, <2>1
  <2>5. /\ after.op = k.op /\ after.tenant = k.tenant /\ after.archive = k.archive
        /\ after.public = k.public /\ after.values = k.values /\ after.taken = k.taken
        /\ after.retries = k.retries /\ after.needs = Tail(k.needs) /\ after.pc = AfterRow(w)
        /\ after.id = k.id /\ after.row = k.row /\ after.change = k.change
    BY <1>1 DEF Requests
  <2> HIDE DEF after
  <2>6. /\ holder'[n] = w /\ holder' \in [UniqueRows -> Workers \cup {Nobody}]
        /\ \A m \in UniqueRows : holder[m] = w => holder'[m] = w
        /\ \A m \in UniqueRows : holder[m] \in Workers \ {w} => holder'[m] = holder[m]
    BY <1>2, <1>4, <2>1 DEF CatalogAssumption
  <2>7. Classes(w)' = Classes(w)
    BY <2>4, <2>5 DEF Classes
  <2>8. Checked(w) => Checked(w)'
    BY <1>3, <2>4, <2>5, <2>7
    DEF Checked, Scope, OfTenant, PublicOnes, Stored, ClassTaken, FqnTaken
  <2>9. k.op = "upload" => k.tenant \in Tenants /\ k.tenant \in UniqueRows /\ Public \in UniqueRows
    BY <1>1, RowsApart DEF InPlace
  <2>10. InPlace(worker[w])'
    BY <1>1, <2>2, <2>4, <2>5 DEF InPlace
  <2>11. CASE k.op = "upload" /\ Tagging(w)
    <3>1. Locked(w)'
      BY <2>4, <2>5, <2>6, <2>9, <2>11 DEF Tagging, Locked
    <3>2. n \in Tags /\ Tail(k.needs) \in Seq(Tags)
      BY <2>11, HeadTailProperties DEF Tagging
    <3>3. Len(k.needs) > 1 => Tail(k.needs) # <<>>
      <4>1. Len(Tail(k.needs)) = Len(k.needs) - 1 /\ Len(k.needs) \in Nat
        BY <1>1, <1>2, HeadTailProperties
      <4> DEFINE a == Len(Tail(k.needs))
                 b == Len(k.needs)
      <4>2. a = b - 1 /\ b \in Nat
        BY <4>1
      <4> HIDE DEF a, b
      <4>3. b > 1 => a # 0
        BY <4>2
      <4> QED  BY <4>3 DEF a, b
    <3>4. AfterRow(w) = IF Len(k.needs) > 1 THEN "looking" ELSE "saving"
      BY <3>2 DEF AfterRow
    <3>5. AfterRow(w) = "looking" => Tagging(w)'
      BY <2>4, <2>5, <2>8, <2>11, <3>1, <3>2, <3>3, <3>4 DEF Tagging
    <3>6. UploadKnows(w)' /\ UpdateKnows(w)'
      BY <2>4, <2>5, <2>8, <2>11, <3>1, <3>4, <3>5 DEF UploadKnows, UpdateKnows, Tagging
    <3>7. Knows(w)'
      BY <2>10, <3>6 DEF Knows
    <3> QED  BY <1>3, <2>1, <2>3, <2>6, <3>7, Standing, QuietStep
  <2>12. CASE /\ k.op = "upload" /\ k.needs = <<k.tenant>> /\ Locking(w)
              /\ k.public => holder[Public] = w
    <3>1. n = k.tenant /\ AfterRow(w) = "checking"
      BY <2>9, <2>12, RowsApart DEF AfterRow
    <3>2. Locked(w)'
      BY <2>4, <2>5, <2>6, <2>9, <2>12, <3>1 DEF Locked
    <3>3. UploadKnows(w)' /\ UpdateKnows(w)'
      BY <2>4, <2>5, <2>12, <3>1, <3>2 DEF UploadKnows, UpdateKnows, Locking
    <3>4. Knows(w)'
      BY <2>10, <3>3 DEF Knows
    <3> QED  BY <1>3, <2>1, <2>3, <2>6, <3>4, Standing, QuietStep
  <2>13. CASE /\ k.op = "upload" /\ k.public /\ Locking(w) /\ k.needs = <<Public, k.tenant>>
    <3>1. n = Public /\ Tail(k.needs) = <<k.tenant>> /\ AfterRow(w) = "looking"
      BY <2>13 DEF AfterRow
    <3>2. Locking(w)'
      BY <2>4, <2>5, <2>6, <2>13, <3>1 DEF Locking
    <3>3. UploadKnows(w)' /\ UpdateKnows(w)'
      BY <2>4, <2>5, <2>13, <3>1, <3>2 DEF UploadKnows, UpdateKnows
    <3>4. Knows(w)'
      BY <2>10, <3>3 DEF Knows
    <3> QED  BY <1>3, <2>1, <2>3, <2>6, <3>4, Standing, QuietStep
  <2>14. CASE k.op = "update" /\ k.needs = <<Public>>
    <3>1. n = Public /\ AfterRow(w) = "checking"
      BY <2>14, RowsApart DEF AfterRow
    <3>2. Publishes(w) /\ Publishes(w)'
      BY <1>1, <2>4, <2>5, <2>14 DEF UpdateKnows, Publishes
    <3>3. UpdateKnows(w)' /\ UploadKnows(w)'
      BY <1>1, <1>3, <2>4, <2>5, <2>6, <2>14, <3>1, <3>2 DEF UpdateKnows, UploadKnows, Stored
    <3>4. Knows(w)'
      BY <2>10, <3>3 DEF Knows
    <3> QED  BY <1>3, <2>1, <2>3, <2>6, <3>4, Standing, QuietStep
  <2> QED  BY <1>1, <2>11, <2>12, <2>13, <2>14, NeedsOf
<1> QED  BY <1>5, <1>6

LEMMA BreakDeadlockKeeps ==
  ASSUME CatalogAssumption, CatalogInv, NEW w \in Workers, BreakDeadlock(w)
  PROVE  CatalogInv'
<1> DEFINE k == worker[w]
           needs == Locks(k.public, k.tenant)
           retries == k.retries - 1
           again == [k EXCEPT !.pc = "looking", !.retries = retries, !.values = Retried(w),
                              !.taken = {}, !.needs = needs]
<1>1. /\ k \in Requests /\ InPlace(k) /\ worker \in [Workers -> Requests]
      /\ k.retries \in 0..MaxRetries /\ k.values \in SUBSET Attributes /\ k.public \in BOOLEAN
  BY Types DEF CatalogInv
<1>2. Release(w) /\ UNCHANGED <<packages, categories, rows, served>>
  BY DEF BreakDeadlock
<1>3. CASE k.retries = 0
  <2>1. Rollback(w)
    BY <1>2, <1>3 DEF BreakDeadlock, Rollback
  <2> QED  BY <2>1, RollbackKeeps
<1>4. CASE k.retries # 0
  <2>1. k.op = "upload" /\ k.tenant \in Tenants
    BY <1>1, <1>4 DEF InPlace
  <2>2. needs \in Seq(UniqueRows) /\ Retried(w) \in SUBSET Attributes
    BY <1>1, <2>1, RowsApart DEF Locks, Retried
  <2>3. MaxRetries \in Nat /\ retries \in 0..MaxRetries
    BY <1>1, <1>4 DEF CatalogAssumption
  <2>4. worker' = [worker EXCEPT ![w] = again]
    BY <1>4 DEF BreakDeadlock
  <2> HIDE DEF needs, retries
  <2>5. again \in Requests
    BY <1>1, <2>2, <2>3 DEF Requests
  <2>6. worker'[w] = again
    BY <1>1, <2>4
  <2>7. /\ again.op = k.op /\ again.tenant = k.tenant /\ again.archive = k.archive
        /\ again.public = k.public /\ again.taken = {} /\ again.needs = needs
        /\ again.pc = "looking"
    BY <1>1 DEF Requests
  <2> HIDE DEF again
  <2>8. Locking(w)'
    BY <2>6, <2>7 DEF Locking, needs
  <2>9. InPlace(worker[w])'
    BY <1>1, <2>1, <2>6, <2>7 DEF InPlace
  <2>10. Knows(w)'
    BY <2>1, <2>6, <2>7, <2>8, <2>9 DEF Knows, UploadKnows, UpdateKnows
  <2> QED  BY <1>2, <2>4, <2>5, <2>10, Released, Standing, QuietStep
<1> QED  BY <1>3, <1>4

LEMMA CheckUploadKeeps ==
  ASSUME CatalogAssumption, CatalogInv, NEW w \in Workers, CheckUpload(w)
  PROVE  CatalogInv'
<1> DEFINE k == worker[w]
           next == [k EXCEPT !.pc = "describing"]
<1>1. /\ k \in Requests /\ InPlace(k) /\ UploadKnows(w) /\ worker \in [Workers -> Requests]
      /\ k.pc = "checking" /\ k.op = "upload"
  BY Types DEF CatalogInv, CheckUpload
<1>2. CASE Rollback(w)
  BY <1>2, RollbackKeeps
<1>3. CASE ~Rollback(w)
  <2>1. /\ Checked(w) /\ worker' = [worker EXCEPT ![w] = next]
        /\ UNCHANGED <<packages, categories, rows, holder, served>>
    BY <1>3 DEF CheckUpload, Checked
  <2>2. next \in Requests
    BY <1>1 DEF Requests
  <2>3. worker'[w] = next
    BY <1>1, <2>1
  <2>4. /\ next.op = k.op /\ next.tenant = k.tenant /\ next.archive = k.archive
        /\ next.public = k.public /\ next.values = k.values /\ next.taken = k.taken
        /\ next.retries = k.retries /\ next.pc = "describing"
    BY <1>1 DEF Requests
  <2> HIDE DEF next
  <2>5. Locked(w)' /\ Classes(w)' = Classes(w)
    BY <1>1, <2>1, <2>3, <2>4 DEF UploadKnows, Locked, Classes
  <2>6. Checked(w)'
    BY <2>1, <2>3, <2>4, <2>5
    DEF Checked, Scope, OfTenant, PublicOnes, Stored, ClassTaken, FqnTaken
  <2>7. InPlace(worker[w])' /\ UploadKnows(w)' /\ UpdateKnows(w)'
    BY <1>1, <2>3, <2>4, <2>5, <2>6 DEF InPlace, UploadKnows, UpdateKnows
  <2>8. Knows(w)'
    BY <2>7 DEF Knows
  <2> QED  BY <2>1, <2>2, <2>8, Standing, QuietStep
<1> QED  BY <1>2, <1>3

LEMMA DescribeKeeps ==
  ASSUME CatalogAssumption, CatalogInv, NEW w \in Workers, Describe(w)
  PROVE  CatalogInv'
<1> DEFINE k == worker[w]
           tags == Content[k.archive].tags
           needs == IF "tags" \in k.values THEN tags ELSE <<>>
           pc == IF "tags" \in k.values /\ tags # <<>> THEN "looking" ELSE "saving"
<1>1. /\ k \in Requests /\ InPlace(k) /\ UploadKnows(w) /\ worker \in [Workers -> Requests]
      /\ k.pc = "describing" /\ k.values \in SUBSET Attributes
      /\ UNCHANGED <<packages, categories, rows, holder, served>>
  BY Types DEF CatalogInv, Describe
<1>2. PICK before \in SUBSET (k.values \ {"tags"}) :
        worker' = [worker EXCEPT ![w].taken = before, ![w].values = @ \ before,
                                 ![w].needs = needs, ![w].pc = pc]
  BY DEF Describe
<1>3. k.op = "upload" /\ k.archive \in Archives
  BY <1>1 DEF InPlace
<1>4. tags \in Seq(Tags) /\ tags \in Seq(UniqueRows)
  <2>1. tags \in Seq(Tags)
    BY <1>3 DEF CatalogAssumption
  <2>2. Tags \subseteq UniqueRows
    BY RowsApart
  <2> HIDE DEF tags
  <2> QED  BY <2>1, <2>2
<1>5. /\ needs \in Seq(UniqueRows) /\ pc \in {"looking", "saving"}
      /\ pc = "looking" => needs \in Seq(Tags) /\ needs # <<>>
  BY <1>4, EmptySeq
<1> HIDE DEF tags, needs, pc
<1> DEFINE left == k.values \ before
           next == [k EXCEPT !.taken = before, !.values = left, !.needs = needs, !.pc = pc]
<1>6. worker' = [worker EXCEPT ![w] = next]
  BY <1>1, <1>2
<1>7. /\ left \in SUBSET Attributes /\ before \in SUBSET Attributes
      /\ "class_definitions" \in left \cup before <=> "class_definitions" \in k.values
  BY <1>1
<1> HIDE DEF left
<1>8. next \in Requests
  BY <1>1, <1>5, <1>7 DEF Requests
<1>9. worker'[w] = next
  BY <1>1, <1>6
<1>10. /\ next.op = k.op /\ next.tenant = k.tenant /\ next.archive = k.archive
       /\ next.public = k.public /\ next.values = left /\ next.taken = before
       /\ next.retries = k.retries /\ next.needs = needs /\ next.pc = pc
  BY <1>1 DEF Requests
<1> HIDE DEF next
<1>11. Locked(w) /\ Locked(w)' /\ Checked(w) /\ k.taken = {}
  BY <1>1, <1>3, <1>9, <1>10 DEF UploadKnows, Locked
<1>12. Classes(w)' = Classes(w)
  BY <1>7, <1>9, <1>10, <1>11 DEF Classes
<1>13. Checked(w)'
  BY <1>1, <1>9, <1>10, <1>11, <1>12
  DEF Checked, Scope, OfTenant, PublicOnes, Stored, ClassTaken, FqnTaken
<1>14. pc = "looking" => Tagging(w)'
  BY <1>5, <1>9, <1>10, <1>11, <1>13 DEF Tagging
<1>15. InPlace(worker[w])' /\ UploadKnows(w)' /\ UpdateKnows(w)'
  BY <1>1, <1>3, <1>5, <1>9, <1>10, <1>11, <1>13, <1>14 DEF InPlace, UploadKnows, UpdateKnows
<1>16. Knows(w)'
  BY <1>15 DEF Knows
<1> QED  BY <1>1, <1>6, <1>8, <1>16, Standing, QuietStep

\* A worker takes a request.
LEMMA BeginKeeps ==
  ASSUME CatalogAssumption, CatalogInv, NEW w \in Workers, NEW r \in Requests, Begin(w, r),
         Knows(w)'
  PROVE  CatalogInv'
<1>1. /\ served' = served + 1 /\ served < MaxRequests
      /\ worker' = [worker EXCEPT ![w] = r]
      /\ UNCHANGED <<packages, categories, rows, holder>>
  BY DEF Begin
<1>2. served' \in 0..MaxRequests
  BY <1>1, Standing DEF CatalogAssumption
<1> QED  BY <1>1, <1>2, Standing, QuietStep

\* What a request is when it begins.
LEMMA Begun ==
  ASSUME CatalogInv, NEW w \in Workers, NEW r, Begin(w, r)
  PROVE  worker'[w] = r /\ packages' = packages /\ holder' = holder
BY DEF CatalogInv, Begin

LEMMA UploadKeeps ==
  ASSUME CatalogAssumption, CatalogInv, NEW w \in Workers, Upload(w)
  PROVE  CatalogInv'
<1>1. PICK t \in Tenants, a \in Archives, public \in BOOLEAN :
        Begin(w, [Idle EXCEPT !.pc = "looking", !.op = "upload", !.tenant = t,
                              !.archive = a, !.public = public,
                              !.values = Attributes, !.retries = MaxRetries,
                              !.needs = Locks(public, t)])
  BY DEF Upload
<1> DEFINE needs == Locks(public, t)
           r == [Idle EXCEPT !.pc = "looking", !.op = "upload", !.tenant = t,
                             !.archive = a, !.public = public,
                             !.values = Attributes, !.retries = MaxRetries, !.needs = needs]
<1>2. Begin(w, r) /\ needs \in Seq(UniqueRows) /\ MaxRetries \in 0..MaxRetries
  <2>1. needs \in Seq(UniqueRows)
    BY RowsApart DEF Locks
  <2>2. MaxRetries \in 0..MaxRetries
    BY DEF CatalogAssumption
  <2> QED  BY <1>1, <2>1, <2>2
<1> HIDE DEF needs
<1>3. r \in Requests
  BY <1>2, IdleFits DEF Requests
<1>4. /\ r.pc = "looking" /\ r.op = "upload" /\ r.tenant = t /\ r.archive = a
      /\ r.public = public /\ r.taken = {} /\ r.needs = needs
  BY DEF Idle
<1> HIDE DEF r
<1>5. worker'[w] = r
  BY <1>2, Begun
<1>6. Locking(w)' /\ InPlace(worker[w])'
  BY <1>4, <1>5 DEF Locking, InPlace, needs
<1>7. Knows(w)'
  BY <1>4, <1>5, <1>6 DEF Knows, UploadKnows, UpdateKnows
<1> QED  BY <1>2, <1>3, <1>7, BeginKeeps

LEMMA BeginUpdateKeeps ==
  ASSUME CatalogAssumption, CatalogInv, NEW w \in Workers, BeginUpdate(w)
  PROVE  CatalogInv'
<1>1. PICK i \in Stored, change \in Changes :
        Begin(w, [Idle EXCEPT !.pc = "reading", !.op = "update", !.id = i, !.change = change])
  BY DEF BeginUpdate
<1> DEFINE r == [Idle EXCEPT !.pc = "reading", !.op = "update", !.id = i, !.change = change]
<1>2. i \in PackageIds /\ packages[i] # Nobody
  BY DEF Stored
<1>3. r \in Requests
  BY <1>2, IdleFits DEF Requests
<1>4. r.pc = "reading" /\ r.op = "update" /\ r.id = i /\ r.retries = 0 /\ r.change = change
  BY DEF Idle
<1>5. Begin(w, r)
  BY <1>1
<1> HIDE DEF r
<1>6. worker'[w] = r /\ packages' = packages
  BY <1>5, Begun
<1>7. Knows(w)'
  BY <1>2, <1>4, <1>6 DEF Knows, UploadKnows, UpdateKnows, InPlace
<1> QED  BY <1>3, <1>5, <1>7, BeginKeeps

LEMMA BeginDeleteKeeps ==
  ASSUME CatalogAssumption, CatalogInv, NEW w \in Workers, BeginDelete(w)
  PROVE  CatalogInv'
<1>1. PICK i \in Stored :
        Begin(w, [Idle EXCEPT !.pc = "deleting", !.op = "delete", !.id = i])
  BY DEF BeginDelete
<1> DEFINE r == [Idle EXCEPT !.pc = "deleting", !.op = "delete", !.id = i]
<1>2. i \in PackageIds
  BY DEF Stored
<1>3. r \in Requests
  BY <1>2, IdleFits DEF Requests
<1>4. r.pc = "deleting" /\ r.op = "delete" /\ r.retries = 0
  BY DEF Idle
<1>5. Begin(w, r)
  BY <1>1
<1> HIDE DEF r
<1>6. worker'[w] = r
  BY <1>5, Begun
<1>7. Knows(w)'
  BY <1>4, <1>6 DEF Knows, UploadKnows, UpdateKnows, InPlace
<1> QED  BY <1>3, <1>5, <1>7, BeginKeeps

LEMMA BeginDeleteCategoryKeeps ==
  ASSUME CatalogAssumption, CatalogInv, NEW w \in Workers, BeginDeleteCategory(w)
  PROVE  CatalogInv'
<1>1. PICK c \in categories :
        Begin(w, [Idle EXCEPT !.pc = "dropping", !.op = "category", !.row = c])
  BY DEF BeginDeleteCategory
<1> DEFINE r == [Idle EXCEPT !.pc = "dropping", !.op = "category", !.row = c]
<1>2. c \in Categories
  BY DEF CatalogInv, CatalogTypeOK
<1>3. r \in Requests
  BY <1>2, IdleFits DEF Requests
<1>4. r.pc = "dropping" /\ r.op = "category" /\ r.retries = 0
  BY DEF Idle
<1>5. Begin(w, r)
  BY <1>1
<1> HIDE DEF r
<1>6. worker'[w] = r
  BY <1>5, Begun
<1>7. Knows(w)'
  BY <1>4, <1>6 DEF Knows, UploadKnows, UpdateKnows, InPlace
<1> QED  BY <1>3, <1>5, <1>7, BeginKeeps

\* An update reads its package, has its row to itself and checks what is public.
LEMMA IdleStepKeeps ==
  ASSUME CatalogAssumption, CatalogInv, NEW w \in Workers,
         worker' = [worker EXCEPT ![w] = Idle],
         UNCHANGED <<packages, categories, rows, holder, served>>
  PROVE  CatalogInv'
<1>1. worker'[w] = Idle
  BY DEF CatalogInv
<1> QED  BY <1>1, IdleFits, IdleKnows, Standing, QuietStep

LEMMA ReadPackageKeeps ==
  ASSUME CatalogAssumption, CatalogInv, NEW w \in Workers, ReadPackage(w)
  PROVE  CatalogInv'
<1> DEFINE k == worker[w]
           row == packages[k.id]
           next == [k EXCEPT !.pc = "flushing", !.row = row]
<1>1. /\ k \in Requests /\ InPlace(k) /\ UpdateKnows(w) /\ worker \in [Workers -> Requests]
      /\ k.pc = "reading" /\ UNCHANGED <<packages, categories, rows, holder, served>>
  BY Types DEF CatalogInv, ReadPackage
<1>2. CASE k.id \notin Stored
  BY <1>1, <1>2, IdleStepKeeps DEF ReadPackage
<1>3. CASE k.id \in Stored
  <2>1. worker' = [worker EXCEPT ![w] = next]
    BY <1>3 DEF ReadPackage
  <2>2. row \in PackageRows
    BY <1>3, RowTypes
  <2>3. k.op = "update" /\ k.retries = 0 /\ k.id \in PackageIds /\ packages[k.id] # Nobody
    BY <1>1 DEF InPlace, UpdateKnows
  <2>4. Same(row, row)
    BY DEF Same
  <2> HIDE DEF row
  <2>5. next \in Requests
    BY <1>1, <2>2 DEF Requests
  <2>6. worker'[w] = next
    BY <1>1, <2>1
  <2>7. /\ next.op = k.op /\ next.pc = "flushing" /\ next.id = k.id /\ next.row = row
        /\ next.retries = k.retries /\ next.change = k.change
    BY <1>1 DEF Requests
  <2> HIDE DEF next
  <2>8. UpdateKnows(w)'
    BY <1>1, <2>2, <2>3, <2>4, <2>6, <2>7 DEF UpdateKnows, row
  <2>9. InPlace(worker[w])' /\ UploadKnows(w)'
    BY <1>1, <2>3, <2>6, <2>7 DEF InPlace, UploadKnows
  <2>10. Knows(w)'
    BY <2>8, <2>9 DEF Knows
  <2> QED  BY <1>1, <2>1, <2>5, <2>10, Standing, QuietStep
<1> QED  BY <1>2, <1>3

LEMMA FlushKeeps ==
  ASSUME CatalogAssumption, CatalogInv, NEW w \in Workers, Flush(w)
  PROVE  CatalogInv'
<1> DEFINE k == worker[w]
           next == [k EXCEPT !.pc = "looking", !.needs = <<Public>>]
<1>1. /\ k \in Requests /\ InPlace(k) /\ UpdateKnows(w) /\ worker \in [Workers -> Requests]
      /\ k.pc = "flushing" /\ UNCHANGED <<packages, categories, rows, holder, served>>
      /\ Publishes(w)
  BY Types DEF CatalogInv, Flush
<1>2. CASE k.id \notin Stored
  BY <1>1, <1>2, IdleStepKeeps DEF Flush
<1>3. CASE k.id \in Stored
  <2>1. worker' = [worker EXCEPT ![w] = next]
    BY <1>3 DEF Flush
  <2>2. <<Public>> \in Seq(UniqueRows)
    BY RowsApart
  <2>3. k.op = "update" /\ k.retries = 0
    BY <1>1 DEF InPlace
  <2>4. next \in Requests
    BY <1>1, <2>2 DEF Requests
  <2>5. worker'[w] = next
    BY <1>1, <2>1
  <2>6. /\ next.op = k.op /\ next.pc = "looking" /\ next.id = k.id /\ next.row = k.row
        /\ next.retries = k.retries /\ next.needs = <<Public>> /\ next.change = k.change
    BY <1>1 DEF Requests
  <2> HIDE DEF next
  <2>7. Publishes(w)'
    BY <1>1, <2>5, <2>6 DEF Publishes
  <2>8. UpdateKnows(w)'
    BY <1>1, <2>3, <2>5, <2>6, <2>7 DEF UpdateKnows, Stored
  <2>9. InPlace(worker[w])' /\ UploadKnows(w)'
    BY <1>1, <2>3, <2>5, <2>6 DEF InPlace, UploadKnows
  <2>10. Knows(w)'
    BY <2>8, <2>9 DEF Knows
  <2> QED  BY <1>1, <2>1, <2>4, <2>10, Standing, QuietStep
<1> QED  BY <1>2, <1>3

LEMMA CheckUpdateKeeps ==
  ASSUME CatalogAssumption, CatalogInv, NEW w \in Workers, CheckUpdate(w)
  PROVE  CatalogInv'
<1> DEFINE k == worker[w]
           next == [k EXCEPT !.pc = "saving"]
<1>1. /\ k \in Requests /\ InPlace(k) /\ UpdateKnows(w) /\ worker \in [Workers -> Requests]
      /\ k.pc = "checking" /\ k.op = "update"
  BY Types DEF CatalogInv, CheckUpdate
<1>2. CASE Rollback(w)
  BY <1>2, RollbackKeeps
<1>3. CASE ~Rollback(w)
  <2>1. /\ Clear(w) /\ worker' = [worker EXCEPT ![w] = next]
        /\ UNCHANGED <<packages, categories, rows, holder, served>>
    BY <1>3 DEF CheckUpdate, Clear
  <2>2. next \in Requests
    BY <1>1 DEF Requests
  <2>3. worker'[w] = next
    BY <1>1, <2>1
  <2>4. /\ next.op = k.op /\ next.pc = "saving" /\ next.id = k.id /\ next.row = k.row
        /\ next.retries = k.retries /\ next.change = k.change
    BY <1>1 DEF Requests
  <2> HIDE DEF next
  <2>5. Clear(w)'
    BY <2>1, <2>3, <2>4 DEF Clear, Others, PublicOnes, Stored, FqnTaken, ClassTaken
  <2>6. Publishes(w)'
    BY <1>1, <2>3, <2>4 DEF Publishes, UpdateKnows
  <2>7. UpdateKnows(w)'
    BY <1>1, <2>1, <2>3, <2>4, <2>5, <2>6 DEF UpdateKnows, Stored
  <2>8. InPlace(worker[w])' /\ UploadKnows(w)'
    BY <1>1, <2>3, <2>4 DEF InPlace, UploadKnows
  <2>9. Knows(w)'
    BY <2>7, <2>8 DEF Knows
  <2> QED  BY <2>1, <2>2, <2>9, Standing, QuietStep
<1> QED  BY <1>2, <1>3

\* An upload that is saved holds the locks of the scopes its package gets into.
LEMMA SaveUploadKeeps ==
  ASSUME CatalogAssumption, CatalogInv, NEW w \in Workers, SaveUpload(w)
  PROVE  CatalogInv'
<1> DEFINE k == worker[w]
           content == Content[k.archive]
           category == IF "categories" \in k.values \cup k.taken THEN {content.category} ELSE {}
           i == CHOOSE i \in Unused : TRUE
           row == [from |-> k.archive, owner |-> k.tenant, public |-> k.public,
                   classes |-> Classes(w), category |-> category]
<1>1. /\ k \in Requests /\ InPlace(k) /\ UploadKnows(w) /\ worker \in [Workers -> Requests]
      /\ k.pc = "saving" /\ k.op = "upload" /\ k.public \in BOOLEAN
      /\ packages \in [PackageIds -> PackageRows \cup {Nobody, Gone}]
      /\ categories \subseteq Categories /\ rows \subseteq UniqueRows
      /\ ScopesAreUnambiguous /\ CategoriesExist
  BY Types DEF CatalogInv, CatalogTypeOK, SaveUpload
<1>2. CASE Rollback(w)
  BY <1>2, RollbackKeeps
<1>3. CASE ~Rollback(w)
  <2>1. /\ category \subseteq categories /\ ~FqnTaken(content.fqn, OfTenant(k.tenant))
        /\ Unused # {} /\ packages' = [packages EXCEPT ![i] = row]
        /\ rows' = rows \cup Held(w) /\ Release(w)
        /\ worker' = [worker EXCEPT ![w] = Idle] /\ UNCHANGED <<categories, served>>
    BY <1>3 DEF SaveUpload
  <2>2. i \in Unused
    BY <2>1
  <2>3. i \in PackageIds /\ packages[i] = Nobody /\ i \notin Stored
    BY <2>2 DEF Unused, Stored
  <2>4. k.tenant \in Tenants /\ k.archive \in Archives
    BY <1>1 DEF InPlace
  <2>5. Classes(w) \subseteq ClassNames
    BY <2>4 DEF Classes, ClassNames
  <2> HIDE DEF i, category
  <2>6. row \in PackageRows
    BY <1>1, <2>1, <2>4, <2>5 DEF PackageRows
  <2>7. /\ row.from = k.archive /\ row.owner = k.tenant /\ row.public = k.public
        /\ row.classes = Classes(w) /\ row.category = category
    OBVIOUS
  <2> HIDE DEF row
  <2>8. /\ packages' \in [PackageIds -> PackageRows \cup {Nobody, Gone}]
        /\ packages'[i] = row /\ \A j \in PackageIds \ {i} : packages'[j] = packages[j]
    BY <1>1, <2>1, <2>3, <2>6
  <2>9. /\ \A j \in Stored' : j = i \/ (j \in Stored /\ packages'[j] = packages[j])
        /\ \A j \in PublicOnes' : (j = i /\ k.public) \/ j \in PublicOnes
    <3>1. \A j \in Stored' : j \in PackageIds /\ packages'[j] \notin {Nobody, Gone}
      BY DEF Stored
    <3>2. \A j \in Stored' : j = i \/ (j \in Stored /\ packages'[j] = packages[j])
      <4> TAKE j \in Stored'
      <4>1. CASE j # i
        <5>1. j \in PackageIds /\ packages'[j] = packages[j] /\ packages[j] \notin {Nobody, Gone}
          BY <2>8, <3>1, <4>1
        <5> QED  BY <5>1 DEF Stored
      <4> QED  BY <4>1
    <3>3. \A j \in PublicOnes' : j \in Stored' /\ packages'[j].public
      BY DEF PublicOnes
    <3>4. ASSUME NEW j \in PublicOnes'
          PROVE  (j = i /\ k.public) \/ j \in PublicOnes
      <4>1. CASE j = i
        BY <2>7, <2>8, <3>3, <4>1
      <4>2. CASE j # i
        BY <3>2, <3>3, <4>2 DEF PublicOnes
      <4> QED  BY <4>1, <4>2
    <3> QED  BY <3>2, <3>4
  <2>10. Locked(w) /\ Checked(w)
    BY <1>1 DEF UploadKnows
  <2>11. \A v \in Workers \ {w} : Unseen(v)
    <3> TAKE v \in Workers \ {w}
    <3>1. \A j \in PackageIds : packages[j] # Nobody => packages'[j] # Nobody
      BY <2>3, <2>8
    <3>2. holder[k.tenant] # v /\ (k.public => holder[Public] # v)
      BY <2>10 DEF Locked
    <3> QED  BY <2>3, <2>7, <2>8, <2>9, <3>1, <3>2 DEF Unseen, Same
  <2>12. \A j \in Stored : k.tenant = packages[j].owner \/ (k.public /\ j \in PublicOnes)
                           => packages[j].classes \cap Classes(w) = {}
    BY <2>10 DEF Checked, ClassTaken, Scope, OfTenant
  <2>13. \A j \in PublicOnes : k.public => Content[packages[j].from].fqn # content.fqn
    BY <2>10 DEF Checked, FqnTaken
  <2>14. ScopesAreUnambiguous'
    <3> SUFFICES ASSUME NEW a \in Stored', NEW b \in Stored', a # b
                 PROVE  /\ packages'[a].owner = packages'[b].owner \/ {a, b} \subseteq PublicOnes'
                           => packages'[a].classes \cap packages'[b].classes = {}
                        /\ {a, b} \subseteq PublicOnes'
                           => Content[packages'[a].from].fqn # Content[packages'[b].from].fqn
      BY DEF ScopesAreUnambiguous
    <3>0. /\ a = i \/ (a \in Stored /\ packages'[a] = packages[a])
          /\ b = i \/ (b \in Stored /\ packages'[b] = packages[b])
          /\ a \in PublicOnes' => (a = i /\ k.public) \/ a \in PublicOnes
          /\ b \in PublicOnes' => (b = i /\ k.public) \/ b \in PublicOnes
      BY <2>9
    <3>1. CASE a = i
      <4>1. /\ packages'[a].owner = packages'[b].owner => k.tenant = packages[b].owner
            /\ {a, b} \subseteq PublicOnes' => k.public /\ b \in PublicOnes
            /\ b \in Stored /\ packages'[b] = packages[b] /\ packages'[a] = row
        BY <2>3, <2>7, <2>8, <3>0, <3>1 DEF PublicOnes
      <4>2. packages'[a].classes = Classes(w) /\ packages'[a].from = k.archive
        BY <2>7, <4>1
      <4>3. CASE packages'[a].owner = packages'[b].owner \/ {a, b} \subseteq PublicOnes'
        BY <2>12, <2>13, <4>1, <4>2, <4>3
      <4> QED  BY <4>3
    <3>2. CASE b = i
      <4>1. /\ packages'[a].owner = packages'[b].owner => k.tenant = packages[a].owner
            /\ {a, b} \subseteq PublicOnes' => k.public /\ a \in PublicOnes
            /\ a \in Stored /\ packages'[a] = packages[a] /\ packages'[b] = row
        BY <2>3, <2>7, <2>8, <3>0, <3>2 DEF PublicOnes
      <4>2. packages'[b].classes = Classes(w) /\ packages'[b].from = k.archive
        BY <2>7, <4>1
      <4>3. CASE packages'[a].owner = packages'[b].owner \/ {a, b} \subseteq PublicOnes'
        BY <2>12, <2>13, <4>1, <4>2, <4>3
      <4> QED  BY <4>3
    <3>3. CASE a # i /\ b # i
      <4>1. /\ a \in Stored /\ b \in Stored
            /\ packages'[a] = packages[a] /\ packages'[b] = packages[b]
            /\ {a, b} \subseteq PublicOnes' => {a, b} \subseteq PublicOnes
        BY <2>9, <3>3
      <4> QED  BY <1>1, <4>1 DEF ScopesAreUnambiguous
    <3> QED  BY <3>1, <3>2, <3>3
  <2>15. CategoriesExist'
    BY <1>1, <2>1, <2>7, <2>8, <2>9 DEF CategoriesExist
  <2>16. Held(w) \subseteq UniqueRows /\ worker'[w] = Idle
    BY <1>1, <2>1 DEF Held
  <2>17. rows' \subseteq UniqueRows /\ categories' \subseteq Categories /\ served' \in 0..MaxRequests
    BY <1>1, <2>1, <2>16, Standing
  <2>18. /\ holder' \in [UniqueRows -> Workers \cup {Nobody}]
         /\ \A n \in UniqueRows : holder[n] \in Workers \ {w} => holder'[n] = holder[n]
    BY <2>1, Released
  <2>19. Idle \in Requests /\ Knows(w)'
    BY <2>16, IdleFits, IdleKnows
  <2> QED  BY <2>1, <2>8, <2>11, <2>14, <2>15, <2>17, <2>18, <2>19, StepKeeps
<1> QED  BY <1>2, <1>3

\* An update leaves everything else of a row as it is; what it publishes has
\* been checked, and the lock of the public packages is still held.
LEMMA CommitKeeps ==
  ASSUME CatalogAssumption, CatalogInv, NEW w \in Workers, Commit(w)
  PROVE  CatalogInv'
<1> DEFINE k == worker[w]
           i == k.id
<1>1. /\ k \in Requests /\ InPlace(k) /\ UpdateKnows(w) /\ worker \in [Workers -> Requests]
      /\ packages \in [PackageIds -> PackageRows \cup {Nobody, Gone}]
      /\ categories \subseteq Categories /\ rows \subseteq UniqueRows
      /\ ScopesAreUnambiguous /\ CategoriesExist
  BY Types DEF CatalogInv, CatalogTypeOK
<1>2. /\ \/ k.pc = "saving" /\ k.op = "update"
         \/ k.pc = "flushing" /\ ~Publishes(w)
      /\ Release(w) /\ worker' = [worker EXCEPT ![w] = Idle] /\ UNCHANGED <<categories, served>>
  BY DEF Commit
<1>3. Held(w) \subseteq UniqueRows /\ worker'[w] = Idle /\ Idle \in Requests
  BY <1>1, <1>2, IdleFits DEF Held
<1>4. /\ holder' \in [UniqueRows -> Workers \cup {Nobody}]
      /\ \A n \in UniqueRows : holder[n] \in Workers \ {w} => holder'[n] = holder[n]
  BY <1>2, Released
<1>5. Knows(w)'
  BY <1>3, IdleKnows
<1>6. CASE i \notin Stored
  BY <1>2, <1>3, <1>4, <1>5, <1>6, Standing, QuietStep DEF Commit
<1>7. CASE i \in Stored
  <2>1. PICK row \in Changed(w, packages[i]) : packages' = [packages EXCEPT ![i] = row]
    BY <1>7 DEF Commit
  <2>2. rows' = rows \cup Held(w)
    BY <1>7 DEF Commit
  <2> DEFINE old == packages[i]
  <2>3. i \in PackageIds /\ old \in PackageRows
    BY <1>7, RowTypes
  <2> HIDE DEF old
  <2>4. /\ row \in PackageRows /\ Same(row, old)
        /\ row.category = old.category \/ row.category \subseteq categories
        /\ row.public => old.public \/ Publishes(w)
    <3>1. /\ [old EXCEPT !.public = TRUE] \in PackageRows
          /\ [old EXCEPT !.public = FALSE] \in PackageRows
          /\ \A c \in SUBSET categories : [old EXCEPT !.category = c] \in PackageRows
      BY <1>1, <2>3 DEF PackageRows
    <3>2. /\ Same([old EXCEPT !.public = TRUE], old) /\ Same([old EXCEPT !.public = FALSE], old)
          /\ \A c \in SUBSET categories : Same([old EXCEPT !.category = c], old)
          /\ Same(old, old)
      BY <2>3 DEF PackageRows, Same
    <3>3. /\ [old EXCEPT !.public = TRUE].category = old.category
          /\ [old EXCEPT !.public = FALSE].category = old.category
          /\ [old EXCEPT !.public = FALSE].public = FALSE
          /\ \A c \in SUBSET categories : /\ [old EXCEPT !.category = c].category = c
                                          /\ [old EXCEPT !.category = c].public = old.public
      BY <2>3 DEF PackageRows
    <3>4. row \in Changed(w, old)
      BY <2>1 DEF old
    <3>5. k.change \in {"publicize", "privatize", "recategorize"} =>
            \/ row = old
            \/ row = [old EXCEPT !.public = TRUE] /\ Publishes(w)
            \/ row = [old EXCEPT !.public = FALSE]
            \/ \E c \in SUBSET categories : row = [old EXCEPT !.category = c]
      <4>1. CASE k.change = "publicize"
        BY <3>4, <4>1 DEF Changed
      <4>2. CASE k.change = "privatize"
        BY <3>4, <4>2 DEF Changed
      <4>3. CASE k.change = "recategorize"
        BY <3>4, <4>3 DEF Changed
      <4> QED  BY <4>1, <4>2, <4>3
    <3>6. k.change \in {"publicize", "privatize", "recategorize"}
      BY <1>1, <1>2 DEF InPlace, Changes
    <3>7. CASE row = old
      BY <2>3, <3>2, <3>7
    <3>8. CASE row = [old EXCEPT !.public = TRUE] /\ Publishes(w)
      BY <3>1, <3>2, <3>3, <3>8
    <3>9. CASE row = [old EXCEPT !.public = FALSE]
      BY <3>1, <3>2, <3>3, <3>9
    <3>10. ASSUME NEW c \in SUBSET categories, row = [old EXCEPT !.category = c]
           PROVE  /\ row \in PackageRows /\ Same(row, old)
                  /\ row.category = old.category \/ row.category \subseteq categories
                  /\ row.public => old.public \/ Publishes(w)
      BY <3>1, <3>2, <3>3, <3>10
    <3> QED  BY <3>5, <3>6, <3>7, <3>8, <3>9, <3>10
  <2>5. /\ packages' \in [PackageIds -> PackageRows \cup {Nobody, Gone}]
        /\ packages'[i] = row /\ \A j \in PackageIds \ {i} : packages'[j] = packages[j]
    BY <1>1, <2>1, <2>3, <2>4
  <2>6. \A j \in Stored' :
           /\ j \in Stored /\ Same(packages'[j], packages[j])
           /\ packages'[j].public => packages[j].public \/ (j = i /\ Publishes(w))
    <3> TAKE j \in Stored'
    <3>1. j \in PackageIds /\ packages'[j] \notin {Nobody, Gone}
      BY DEF Stored
    <3>2. CASE j = i
      <4>1. packages[j] = old /\ packages'[j] = row /\ j \in Stored
        BY <1>7, <2>5, <3>2 DEF old
      <4> QED  BY <2>4, <3>2, <4>1
    <3>3. CASE j # i
      <4>1. packages'[j] = packages[j] /\ j \in PackageIds /\ packages[j] \notin {Nobody, Gone}
        BY <2>5, <3>1, <3>3
      <4>2. j \in Stored /\ Same(packages[j], packages[j])
        BY <4>1 DEF Stored, Same
      <4> QED  BY <4>1, <4>2
    <3> QED  BY <3>2, <3>3
  <2>7. Publishes(w) => holder[Public] = w /\ Clear(w) /\ Same(old, k.row)
    BY <1>1, <1>2, <1>7 DEF UpdateKnows, old
  <2>8. \A v \in Workers \ {w} : Unseen(v)
    <3> TAKE v \in Workers \ {w}
    <3>1. \A j \in PackageIds : packages[j] # Nobody => packages'[j] # Nobody
      BY <1>7, <2>4, <2>5 DEF CatalogAssumption
    <3>2. Publishes(w) => holder[Public] # v
      BY <2>7
    <3> QED  BY <2>6, <3>1, <3>2 DEF Unseen
  <2>9. Publishes(w) => \A j \in PublicOnes \ {i} :
            /\ old.classes \cap packages[j].classes = {}
            /\ Content[old.from].fqn # Content[packages[j].from].fqn
    BY <2>7 DEF Clear, Others, FqnTaken, ClassTaken, Same
  <2>10. ScopesAreUnambiguous'
    <3> SUFFICES ASSUME NEW a \in Stored', NEW b \in Stored', a # b
                 PROVE  /\ packages'[a].owner = packages'[b].owner \/ {a, b} \subseteq PublicOnes'
                           => packages'[a].classes \cap packages'[b].classes = {}
                        /\ {a, b} \subseteq PublicOnes'
                           => Content[packages'[a].from].fqn # Content[packages'[b].from].fqn
      BY DEF ScopesAreUnambiguous
    <3>1. /\ a \in Stored /\ b \in Stored
          /\ Same(packages'[a], packages[a]) /\ Same(packages'[b], packages[b])
      BY <2>6
    <3>2. /\ packages[a].owner = packages[b].owner \/ {a, b} \subseteq PublicOnes
             => packages[a].classes \cap packages[b].classes = {}
          /\ {a, b} \subseteq PublicOnes
             => Content[packages[a].from].fqn # Content[packages[b].from].fqn
      BY <1>1, <3>1 DEF ScopesAreUnambiguous
    <3>3. CASE {a, b} \subseteq PublicOnes
      BY <3>1, <3>2, <3>3 DEF Same
    <3>4. CASE ~({a, b} \subseteq PublicOnes') /\ ~({a, b} \subseteq PublicOnes)
      BY <3>1, <3>2, <3>4 DEF Same
    <3>5. CASE {a, b} \subseteq PublicOnes' /\ ~({a, b} \subseteq PublicOnes)
      <4>1. /\ a \in PublicOnes \/ (a = i /\ Publishes(w))
            /\ b \in PublicOnes \/ (b = i /\ Publishes(w))
        BY <2>6, <3>1, <3>5 DEF PublicOnes
      <4>2. CASE a = i
        BY <2>9, <3>1, <3>5, <4>1, <4>2 DEF Same, old
      <4>3. CASE b = i
        BY <2>9, <3>1, <3>5, <4>1, <4>3 DEF Same, old
      <4> QED  BY <3>5, <4>1, <4>2, <4>3
    <3> QED  BY <3>3, <3>4, <3>5
  <2>11. CategoriesExist'
    <3> SUFFICES ASSUME NEW j \in Stored' PROVE packages'[j].category \subseteq categories'
      BY DEF CategoriesExist
    <3>1. j \in Stored /\ packages[j].category \subseteq categories /\ j \in PackageIds
      BY <1>1, <2>6 DEF CategoriesExist, Stored
    <3>2. CASE j = i
      BY <1>2, <2>4, <2>5, <3>1, <3>2 DEF old
    <3>3. CASE j # i
      BY <1>2, <2>5, <3>1, <3>3
    <3> QED  BY <3>2, <3>3
  <2>12. rows' \subseteq UniqueRows /\ categories' \subseteq Categories /\ served' \in 0..MaxRequests
    BY <1>1, <1>2, <1>3, <2>2, Standing
  <2> QED  BY <1>2, <1>3, <1>4, <1>5, <2>5, <2>8, <2>10, <2>11, <2>12, StepKeeps
<1> QED  BY <1>6, <1>7

\* A package that is deleted is in nobody's way.
LEMMA DeleteKeeps ==
  ASSUME CatalogAssumption, CatalogInv, NEW w \in Workers, Delete(w)
  PROVE  CatalogInv'
<1>1. /\ packages \in [PackageIds -> PackageRows \cup {Nobody, Gone}]
      /\ worker \in [Workers -> Requests] /\ categories \subseteq Categories
      /\ rows \subseteq UniqueRows /\ ScopesAreUnambiguous /\ CategoriesExist
  BY DEF CatalogInv, CatalogTypeOK
<1>2. /\ packages' = [packages EXCEPT ![worker[w].id] = Gone]
      /\ worker' = [worker EXCEPT ![w] = Idle] /\ UNCHANGED <<categories, rows, holder, served>>
  BY DEF Delete
<1>3. /\ packages' \in [PackageIds -> PackageRows \cup {Nobody, Gone}]
      /\ \A j \in PackageIds : packages'[j] = packages[j] \/ packages'[j] = Gone
  BY <1>1, <1>2
<1>4. /\ \A j \in Stored' : j \in Stored /\ packages'[j] = packages[j]
      /\ \A j \in PublicOnes' : j \in PublicOnes
  BY <1>3 DEF Stored, PublicOnes
<1>5. \A v \in Workers \ {w} : Unseen(v)
  BY <1>3, <1>4 DEF Unseen, Same, CatalogAssumption
<1>6. ScopesAreUnambiguous'
  <2> SUFFICES ASSUME NEW a \in Stored', NEW b \in Stored', a # b
               PROVE  /\ packages'[a].owner = packages'[b].owner \/ {a, b} \subseteq PublicOnes'
                         => packages'[a].classes \cap packages'[b].classes = {}
                      /\ {a, b} \subseteq PublicOnes'
                         => Content[packages'[a].from].fqn # Content[packages'[b].from].fqn
    BY DEF ScopesAreUnambiguous
  <2>1. /\ a \in Stored /\ b \in Stored
        /\ packages'[a] = packages[a] /\ packages'[b] = packages[b]
        /\ {a, b} \subseteq PublicOnes' => {a, b} \subseteq PublicOnes
    BY <1>4
  <2> QED  BY <1>1, <2>1 DEF ScopesAreUnambiguous
<1>7. CategoriesExist'
  BY <1>1, <1>2, <1>4 DEF CategoriesExist
<1>8. worker'[w] = Idle /\ Idle \in Requests
  BY <1>1, <1>2, IdleFits
<1>9. Knows(w)'
  BY <1>8, IdleKnows
<1> QED  BY <1>1, <1>2, <1>3, <1>5, <1>6, <1>7, <1>8, <1>9, Standing, StepKeeps

\* Only a category that no package has is deleted.
LEMMA DeleteCategoryKeeps ==
  ASSUME CatalogAssumption, CatalogInv, NEW w \in Workers, DeleteCategory(w)
  PROVE  CatalogInv'
<1>1. /\ packages \in [PackageIds -> PackageRows \cup {Nobody, Gone}]
      /\ worker \in [Workers -> Requests] /\ categories \subseteq Categories
      /\ rows \subseteq UniqueRows /\ ScopesAreUnambiguous /\ CategoriesExist
  BY DEF CatalogInv, CatalogTypeOK
<1>2. /\ categories' = IF Restricts(worker[w].row) THEN categories
                       ELSE categories \ {worker[w].row}
      /\ worker' = [worker EXCEPT ![w] = Idle] /\ UNCHANGED <<packages, rows, holder, served>>
  BY DEF DeleteCategory
<1>3. Stored' = Stored /\ PublicOnes' = PublicOnes /\ categories' \subseteq Categories
  BY <1>1, <1>2 DEF Stored, PublicOnes
<1>4. CategoriesExist'
  BY <1>1, <1>2, <1>3 DEF CategoriesExist, Restricts
<1>5. ScopesAreUnambiguous'
  BY <1>1, <1>2, <1>3 DEF ScopesAreUnambiguous
<1>6. \A v \in Workers \ {w} : Unseen(v)
  BY <1>2, <1>3 DEF Unseen, Same
<1>7. worker'[w] = Idle /\ Idle \in Requests
  BY <1>1, <1>2, IdleFits
<1>8. Knows(w)'
  BY <1>7, IdleKnows
<1> QED  BY <1>1, <1>2, <1>3, <1>4, <1>5, <1>6, <1>7, <1>8, Standing, StepKeeps

LEMMA AddCategoryKeeps ==
  ASSUME CatalogAssumption, CatalogInv, AddCategory
  PROVE  CatalogInv'
<1>1. /\ served < MaxRequests /\ served' = served + 1 /\ UNCHANGED <<packages, rows, holder, worker>>
      /\ served \in 0..MaxRequests /\ categories \subseteq Categories
  BY DEF AddCategory, CatalogInv, CatalogTypeOK
<1>2. categories \subseteq categories' /\ categories' \subseteq Categories
  BY <1>1 DEF AddCategory
<1>3. served' \in 0..MaxRequests
  BY <1>1 DEF CatalogAssumption
<1>4. Stored' = Stored /\ PublicOnes' = PublicOnes
  BY <1>1 DEF Stored, PublicOnes
<1>5. CatalogTypeOK'
  BY <1>1, <1>2, <1>3 DEF CatalogInv, CatalogTypeOK
<1>6. CategoriesExist' /\ ScopesAreUnambiguous'
  BY <1>1, <1>2, <1>4 DEF CatalogInv, CategoriesExist, ScopesAreUnambiguous
<1>7. \A v \in Workers : Knows(v)'
  <2> TAKE v \in Workers
  <2>1. Unseen(v)
    BY <1>1, <1>4 DEF Unseen, Same
  <2> QED  BY <1>1, <2>1, OthersKnow
<1> QED  BY <1>1, <1>5, <1>6, <1>7 DEF CatalogInv

\* The invariant is inductive.
LEMMA CatalogInduction == CatalogSpec => []CatalogInv
<1>1. CatalogAssumption
  BY CatalogAssumption
<1>2. CatalogInit => CatalogInv
  <2> SUFFICES ASSUME CatalogInit PROVE CatalogInv
    OBVIOUS
  <2>1. Idle \in Requests /\ 0 \in 0..MaxRequests
    BY <1>1, IdleFits DEF CatalogAssumption
  <2>2. worker \in [Workers -> Requests] /\ CatalogTypeOK
    BY <2>1 DEF CatalogInit, CatalogTypeOK
  <2>3. Stored = {}
    BY DEF CatalogInit, Stored
  <2>4. \A w \in Workers : worker[w].pc = "idle" /\ worker[w].op = "none" /\ worker[w].retries = 0
    BY DEF CatalogInit, Idle
  <2>5. \A w \in Workers : Knows(w)
    BY <2>4 DEF Knows, InPlace, UploadKnows, UpdateKnows
  <2> QED  BY <2>2, <2>3, <2>5 DEF CatalogInv, ScopesAreUnambiguous, CategoriesExist
<1>3. CatalogInv /\ [CatalogNext]_catalog => CatalogInv'
  <2> SUFFICES ASSUME CatalogInv, [CatalogNext]_catalog PROVE CatalogInv'
    OBVIOUS
  <2>1. ASSUME NEW w \in Workers, WorkerStep(w)
        PROVE  CatalogInv'
    BY <1>1, <2>1, LookUpKeeps, WriteRowKeeps, BreakDeadlockKeeps, CheckUploadKeeps, DescribeKeeps,
       SaveUploadKeeps, ReadPackageKeeps, FlushKeeps, CheckUpdateKeeps, CommitKeeps, DeleteKeeps,
       DeleteCategoryKeeps DEF WorkerStep
  <2>2. ASSUME NEW w \in Workers,
               Upload(w) \/ BeginUpdate(w) \/ BeginDelete(w) \/ BeginDeleteCategory(w)
        PROVE  CatalogInv'
    BY <1>1, <2>2, UploadKeeps, BeginUpdateKeeps, BeginDeleteKeeps, BeginDeleteCategoryKeeps
  <2>3. CASE AddCategory
    BY <1>1, <2>3, AddCategoryKeeps
  <2>4. CASE UNCHANGED catalog
    <3>1. UNCHANGED <<packages, categories, rows, holder, worker, served>>
      BY <2>4 DEF catalog
    <3>2. \A v \in Workers : Knows(v)'
      <4> TAKE v \in Workers
      <4>1. Unseen(v)
        BY <3>1 DEF Unseen, Same, Stored
      <4> QED  BY <1>1, <3>1, <4>1, OthersKnow
    <3>3. CatalogTypeOK' /\ ScopesAreUnambiguous' /\ CategoriesExist'
      BY <3>1 DEF CatalogInv, CatalogTypeOK, ScopesAreUnambiguous, CategoriesExist, Stored, PublicOnes
    <3> QED  BY <3>1, <3>2, <3>3 DEF CatalogInv
  <2> QED  BY <2>1, <2>2, <2>3, <2>4 DEF CatalogNext
<1> QED  BY <1>2, <1>3, PTL DEF CatalogSpec

\* However many uploads, publications, changes and deletions of packages and
\* categories overlap, wait for rows, fail and are tried again (package_upload,
\* package_update, package_delete, _get_or_create_lock, category_delete), no
\* two packages of a tenant and no two public ones define the same class, no
\* two public ones have the same name, and the categories of a package exist.
THEOREM CatalogStaysConsistent == CatalogSpec => []CatalogIsConsistent
<1>1. CatalogInv => CatalogIsConsistent
  BY DEF CatalogInv, CatalogIsConsistent
<1> QED  BY <1>1, CatalogInduction, PTL

-----------------------------------------------------------------------------
(* Searches page by page *)

\* A set of natural numbers has a least one.
LEMMA LeastNatural ==
  ASSUME NEW T \in SUBSET Nat, T # {}
  PROVE  \E m \in T : \A n \in T : m <= n
<1> DEFINE R == OpToRel(<, Nat)
<1>1. IsWellFoundedOn(R, Nat)
  BY NatLessThanWellFounded, Zenon
<1>2. R = {ss \in Nat \X Nat : ss[1] < ss[2]}
  BY DEF OpToRel
<1> HIDE DEF R
<1>3. PICK x \in T : \A y \in T : ~(<<y, x>> \in R)
  BY <1>1, WFMin, Zenon
<1>4. \A y \in T : ~(y < x)
  BY <1>2, <1>3
<1> QED  BY <1>3, <1>4

\* Lists of numbers compared by the first place where they differ.
Lex(W, K, i, j) == \E n \in 1..K : /\ \A m \in 1..(n - 1) : W[i][m] = W[j][m]
                                   /\ W[i][n] < W[j][n]

LEMMA LexOrders ==
  ASSUME NEW S, NEW K \in Nat, NEW W \in [S -> [1..K -> Int]],
         NEW i \in S, NEW j \in S, NEW k \in S
  PROVE  /\ ~Lex(W, K, i, i)
         /\ Lex(W, K, i, j) /\ Lex(W, K, j, k) => Lex(W, K, i, k)
         /\ (\E n \in 1..K : W[i][n] # W[j][n]) => Lex(W, K, i, j) \/ Lex(W, K, j, i)
<1>1. ~Lex(W, K, i, i)
  BY DEF Lex
<1>2. ASSUME Lex(W, K, i, j), Lex(W, K, j, k) PROVE Lex(W, K, i, k)
  <2>1. PICK n \in 1..K : (\A m \in 1..(n - 1) : W[i][m] = W[j][m]) /\ W[i][n] < W[j][n]
    BY <1>2 DEF Lex
  <2>2. PICK l \in 1..K : (\A m \in 1..(l - 1) : W[j][m] = W[k][m]) /\ W[j][l] < W[k][l]
    BY <1>2 DEF Lex
  <2>3. CASE n < l
    <3>1. (\A m \in 1..(n - 1) : W[i][m] = W[k][m]) /\ W[i][n] < W[k][n]
      BY <2>1, <2>2, <2>3
    <3> QED  BY <3>1 DEF Lex
  <2>4. CASE n = l
    <3>1. (\A m \in 1..(n - 1) : W[i][m] = W[k][m]) /\ W[i][n] < W[k][n]
      BY <2>1, <2>2, <2>4
    <3> QED  BY <3>1 DEF Lex
  <2>5. CASE l < n
    <3>1. (\A m \in 1..(l - 1) : W[i][m] = W[k][m]) /\ W[i][l] < W[k][l]
      BY <2>1, <2>2, <2>5
    <3> QED  BY <3>1 DEF Lex
  <2> QED  BY <2>3, <2>4, <2>5
<1>3. ASSUME NEW d \in 1..K, W[i][d] # W[j][d] PROVE Lex(W, K, i, j) \/ Lex(W, K, j, i)
  <2> DEFINE Differ == {n \in 1..K : W[i][n] # W[j][n]}
  <2>1. PICK n \in Differ : \A l \in Differ : n <= l
    <3>1. Differ \in SUBSET Nat /\ d \in Differ
      BY <1>3
    <3> HIDE DEF Differ
    <3> QED  BY <3>1, LeastNatural
  <2>2. /\ n \in 1..K /\ W[i][n] \in Int /\ W[j][n] \in Int /\ W[i][n] # W[j][n]
        /\ \A m \in 1..(n - 1) : W[i][m] = W[j][m]
    BY <2>1
  <2>3. CASE W[i][n] < W[j][n]
    BY <2>2, <2>3 DEF Lex
  <2>4. CASE W[j][n] < W[i][n]
    BY <2>2, <2>4 DEF Lex
  <2> QED  BY <2>2, <2>3, <2>4
<1> QED  BY <1>1, <1>2, <1>3

\* What filters say of the order and the size of pages.
Parsed(filters) ==
    /\ Given(filters, "order_by", <<"name">>) \in Seq(ORDER_VALUES)
    /\ Given(filters, "limit", ApiLimit) \in Int

\* The rows that a search meets are in a total order.
LEMMA SortedOrders ==
  ASSUME SearchAssumption, NEW filters, Parsed(filters), shelf \in [Shelf -> TableRows],
         NEW i \in Shelf, NEW j \in Shelf, NEW k \in Shelf
  PROVE  /\ ~Sorted(filters, i, i)
         /\ Sorted(filters, i, j) /\ Sorted(filters, j, k) => Sorted(filters, i, k)
         /\ i # j => Sorted(filters, i, j) \/ Sorted(filters, j, i)
<1> DEFINE order == Given(filters, "order_by", <<"name">>)
           keys == SortKeys(filters)
           K == Len(keys)
           V(r, n) == IF keys[n] = "id" THEN r ELSE shelf[r][keys[n]]
           W == [r \in Shelf |-> [n \in 1..K |->
                    IF Given(filters, "sort_dir", "asc") = "desc" THEN -V(r, n) ELSE V(r, n)]]
<1>1. keys = Append(order, "id") /\ order \in Seq(ORDER_VALUES)
  BY DEF SortKeys, Parsed
<1>2. /\ K \in Nat \ {0} /\ DOMAIN keys = 1..K /\ keys[K] = "id"
      /\ \A n \in 1..K : keys[n] \in {"name", "created", "id"}
  <2>1. order \in Seq({"name", "created"})
    BY <1>1 DEF ORDER_VALUES
  <2> HIDE DEF order
  <2> QED  BY <1>1, <2>1
<1>3. \A r \in Shelf, n \in 1..K : V(r, n) \in Int
  <2>1. ASSUME NEW r \in Shelf PROVE r \in Int /\ shelf[r].name \in Int /\ shelf[r].created \in Int
    BY DEF SearchAssumption
  <2> HIDE DEF keys, K
  <2> QED  BY <1>2, <2>1
<1>4. W \in [Shelf -> [1..K -> Int]]
  <2> HIDE DEF K, V
  <2> QED  BY <1>3
<1>5. ASSUME NEW r \in Shelf, NEW s \in Shelf
      PROVE  Sorted(filters, r, s) <=> Lex(W, K, r, s)
  <2>1. ASSUME NEW n \in 1..K
        PROVE  /\ W[r][n] = W[s][n] <=> V(r, n) = V(s, n)
               /\ W[r][n] < W[s][n] <=> IF Given(filters, "sort_dir", "asc") = "desc"
                                        THEN V(r, n) > V(s, n) ELSE V(r, n) < V(s, n)
    <3>1. V(r, n) \in Int /\ V(s, n) \in Int
      BY <1>3
    <3>2. /\ W[r][n] = IF Given(filters, "sort_dir", "asc") = "desc" THEN -V(r, n) ELSE V(r, n)
          /\ W[s][n] = IF Given(filters, "sort_dir", "asc") = "desc" THEN -V(s, n) ELSE V(s, n)
      OBVIOUS
    <3> HIDE DEF W, V
    <3> QED  BY <3>1, <3>2
  <2>2. Sorted(filters, r, s) <=>
           \E n \in 1..K : /\ \A m \in 1..(n - 1) : V(r, m) = V(s, m)
                           /\ IF Given(filters, "sort_dir", "asc") = "desc"
                              THEN V(r, n) > V(s, n) ELSE V(r, n) < V(s, n)
    BY <1>2 DEF Sorted
  <2>3. \A n \in 1..K : \A m \in 1..(n - 1) : m \in 1..K
    BY <1>2
  <2> HIDE DEF W, V, K
  <2> QED  BY <2>1, <2>2, <2>3 DEF Lex
<1>6. i # j => \E n \in 1..K : W[i][n] # W[j][n]
  <2>1. K \in 1..K /\ V(i, K) = i /\ V(j, K) = j /\ i \in Int /\ j \in Int
    BY <1>2 DEF SearchAssumption
  <2>2. W[i][K] # W[j][K] \/ i = j
    <3> HIDE DEF K
    <3> QED  BY <2>1
  <2> QED  BY <2>1, <2>2
<1> HIDE DEF W, K
<1> QED  BY <1>2, <1>4, <1>5, <1>6, LexOrders

\* Only the rows of two packages say how they are sorted.
LEMMA SortedSame ==
  ASSUME NEW filters, NEW i, NEW j, shelf'[i] = shelf[i], shelf'[j] = shelf[j]
  PROVE  Sorted(filters, i, j)' <=> Sorted(filters, i, j)
  BY DEF Sorted

-----------------------------------------------------------------------------
(* What a list shows of a package *)

Once(s, i) == \E k \in DOMAIN s : s[k] = i /\ \A l \in DOMAIN s : s[l] = i => l = k
Never(s, i) == \A k \in DOMAIN s : s[k] # i

LEMMA ShownOnce ==
  ASSUME NEW s, NEW i, Once(s, i)
  PROVE  Cardinality({k \in DOMAIN s : s[k] = i}) = 1
<1>1. PICK k \in DOMAIN s : s[k] = i /\ \A l \in DOMAIN s : s[l] = i => l = k
  BY DEF Once
<1>2. {l \in DOMAIN s : s[l] = i} = {k}
  BY <1>1
<1>3. Cardinality({k}) = 1
  BY FS_Singleton
<1> QED  BY <1>2, <1>3

LEMMA ShownAfter ==
  ASSUME NEW s \in Seq(Shelf), NEW p \in Seq(Shelf), NEW i
  PROVE  /\ s \o p \in Seq(Shelf)
         /\ Never(s, i) /\ Never(p, i) => Never(s \o p, i)
         /\ Never(s, i) /\ Once(p, i) => Once(s \o p, i)
         /\ Once(s, i) /\ Never(p, i) => Once(s \o p, i)
<1> DEFINE t == s \o p
<1>1. /\ t \in Seq(Shelf) /\ Len(s) \in Nat /\ Len(p) \in Nat
      /\ DOMAIN s = 1..Len(s) /\ DOMAIN p = 1..Len(p) /\ DOMAIN t = 1..(Len(s) + Len(p))
      /\ \A k \in 1..Len(s) : t[k] = s[k]
      /\ \A k \in 1..Len(p) : t[Len(s) + k] = p[k]
  BY ConcatProperties
<1> HIDE DEF t
<1>2. ASSUME NEW k \in DOMAIN t
      PROVE  \/ k \in DOMAIN s /\ t[k] = s[k]
             \/ \E l \in DOMAIN p : k = Len(s) + l /\ t[k] = p[l]
  <2>1. CASE k <= Len(s)
    BY <1>1, <2>1
  <2>2. CASE k > Len(s)
    <3>1. k - Len(s) \in DOMAIN p /\ k = Len(s) + (k - Len(s))
      BY <1>1, <2>2
    <3> QED  BY <1>1, <3>1
  <2> QED  BY <1>1, <2>1, <2>2
<1>3. ASSUME Never(s, i), Never(p, i) PROVE Never(t, i)
  BY <1>2, <1>3 DEF Never
<1>4. ASSUME Never(s, i), Once(p, i) PROVE Once(t, i)
  <2>1. PICK k \in DOMAIN p : p[k] = i /\ \A l \in DOMAIN p : p[l] = i => l = k
    BY <1>4 DEF Once
  <2>2. Len(s) + k \in DOMAIN t /\ t[Len(s) + k] = i
    BY <1>1, <2>1
  <2>3. \A l \in DOMAIN t : t[l] = i => l = Len(s) + k
    BY <1>2, <1>4, <2>1 DEF Never
  <2> QED  BY <2>2, <2>3 DEF Once
<1>5. ASSUME Once(s, i), Never(p, i) PROVE Once(t, i)
  <2>1. PICK k \in DOMAIN s : s[k] = i /\ \A l \in DOMAIN s : s[l] = i => l = k
    BY <1>5 DEF Once
  <2>2. k \in DOMAIN t /\ t[k] = i
    BY <1>1, <2>1
  <2>3. \A l \in DOMAIN t : t[l] = i => l = k
    BY <1>2, <1>5, <2>1 DEF Never
  <2> QED  BY <2>2, <2>3 DEF Once
<1> QED  BY <1>1, <1>3, <1>4, <1>5 DEF t

\* A page has every package found, but for those sorted after all of a full
\* page; the last of it is sorted last.
LEMMA PageIsFirst ==
  ASSUME SearchAssumption, NEW filters, Parsed(filters), shelf \in [Shelf -> TableRows],
         NEW found \in SUBSET Shelf, NEW size \in Nat, NEW page \in [1..size -> found],
         IsPage(page, found, filters)
  PROVE  /\ page \in Seq(Shelf) /\ Len(page) = size
         /\ \A i \in found : \/ Once(page, i)
                            \/ /\ Never(page, i) /\ size = Limit(filters)
                               /\ \A n \in 1..size : Sorted(filters, page[n], i)
         /\ \A i : i \notin found => Never(page, i)
         /\ size # 0 => /\ Last(page) = page[size] /\ page[size] \in found
                        /\ \A i : Once(page, i) => i = page[size] \/ Sorted(filters, i, page[size])
<1>1. /\ page \in Seq(Shelf) /\ Len(page) = size /\ DOMAIN page = 1..size
      /\ \A n \in 1..size : page[n] \in found /\ page[n] \in Shelf
  <2>1. page \in [1..size -> Shelf]
    OBVIOUS
  <2> QED  BY <2>1
<1>2. \A m, n \in 1..size : page[m] = page[n] => m = n
  BY <1>1 DEF IsPage, IsInjective
<1>3. ASSUME NEW i \in found
      PROVE  \/ Once(page, i)
             \/ /\ Never(page, i) /\ size = Limit(filters)
                /\ \A n \in 1..size : Sorted(filters, page[n], i)
  <2>1. CASE \E n \in 1..size : page[n] = i
    BY <1>1, <1>2, <2>1 DEF Once
  <2>2. CASE \A n \in 1..size : page[n] # i
    <3>1. size = Limit(filters) /\ \A n \in 1..size : ~Sorted(filters, i, page[n])
      BY <1>1, <2>2 DEF IsPage
    <3>2. \A n \in 1..size : Sorted(filters, page[n], i)
      BY <1>1, <2>2, <3>1, SortedOrders
    <3> QED  BY <1>1, <2>2, <3>1, <3>2 DEF Never
  <2> QED  BY <2>1, <2>2
<1>4. \A i : i \notin found => Never(page, i)
  BY <1>1 DEF Never
<1>5. ASSUME size # 0
      PROVE  /\ Last(page) = page[size] /\ page[size] \in found
             /\ \A i : Once(page, i) => i = page[size] \/ Sorted(filters, i, page[size])
  <2>1. size \in 1..size
    BY <1>5
  <2>2. ASSUME NEW n \in 1..size, n # size
        PROVE  Sorted(filters, page[n], page[size])
    <3>1. ~Sorted(filters, page[size], page[n]) /\ page[n] # page[size]
      BY <1>1, <1>2, <2>1, <2>2 DEF IsPage
    <3> QED  BY <1>1, <2>1, <3>1, SortedOrders
  <2>3. \A i : Once(page, i) => i = page[size] \/ Sorted(filters, i, page[size])
    BY <1>1, <2>2 DEF Once
  <2> QED  BY <1>1, <2>1, <2>3 DEF Last
<1> QED  BY <1>1, <1>3, <1>4, <1>5

-----------------------------------------------------------------------------
(* The invariant of a search.  Behind a marker that was not patched is what *)
(* was shown, once each, and what is sorted after it was not shown yet.     *)

Turned ==
    /\ search.marker = 0 => search.shown = <<>>
    /\ search.marker \in search.steady => \A i \in search.steady :
          IF Sorted(Filters(search.request.params), search.marker, i)
          THEN Never(search.shown, i) ELSE Once(search.shown, i)

SearchInv ==
    /\ shelf = <<>> \/ shelf \in [Shelf -> TableRows]
    /\ search = [pc |-> search.pc, request |-> search.request, marker |-> search.marker,
                 shown |-> search.shown, steady |-> search.steady, moved |-> search.moved]
    /\ search.pc \in {"off", "refused", "on", "done"}
    /\ search.marker \in Shelf \cup {0} /\ search.shown \in Seq(Shelf)
    /\ search.steady \in SUBSET Shelf /\ search.moved \in BOOLEAN
    /\ search.pc \in {"on", "done"} =>
          /\ shelf \in [Shelf -> TableRows]
          /\ \E n \in DOMAIN Searches : search.request = Searches[n]
          /\ ValidLimit(Filters(search.request.params))
          /\ \A i \in search.steady :
                Matches(search.request, Filters(search.request.params), shelf[i])
    /\ search.pc = "on" /\ ~search.moved => Turned
    /\ search.pc = "done" /\ ~search.moved => \A i \in search.steady : Once(search.shown, i)

LEMMA LimitIsPositive ==
  ASSUME SearchAssumption, NEW filters, Parsed(filters), ValidLimit(filters)
  PROVE  Limit(filters) \in Nat \ {0}
<1> DEFINE asked == Given(filters, "limit", ApiLimit)
<1>1. ApiLimit \in Nat \ {0} /\ asked \in Int /\ asked > 0
  BY DEF SearchAssumption, Parsed, ValidLimit
<1> HIDE DEF asked
<1>2. \E x \in {ApiLimit, asked} : \A y \in {ApiLimit, asked} : x <= y
  BY <1>1
<1>3. Min({ApiLimit, asked}) \in {ApiLimit, asked}
  BY <1>2 DEF Min
<1> QED  BY <1>1, <1>3 DEF Limit, asked

LEMMA TurnKeeps ==
  ASSUME SearchAssumption, FiltersAssumption, SearchInv, TurnPage
  PROVE  SearchInv'
<1> DEFINE r == search.request
           filters == Filters(r.params)
           m == search.marker
           found == Selection(r, filters, m)
<1>1. /\ search.pc = "on" /\ shelf \in [Shelf -> TableRows] /\ m \in Shelf \cup {0}
      /\ search.shown \in Seq(Shelf) /\ search.steady \in SUBSET Shelf /\ search.moved \in BOOLEAN
      /\ \A i \in search.steady : Matches(r, filters, shelf[i])
      /\ ~search.moved => Turned
      /\ UNCHANGED <<shelf, patches>>
  BY DEF SearchInv, TurnPage
<1>2. Parsed(filters) /\ ValidLimit(filters)
  BY <1>1 DEF SearchInv, FiltersAssumption, Parsed
<1>3. Limit(filters) \in Nat \ {0}
  BY <1>2, LimitIsPositive
<1>4a. PICK size \in 0..Limit(filters) : \E page \in [1..size -> found] :
         /\ IsPage(page, found, filters)
         /\ search' = [search EXCEPT
                !.shown = @ \o page,
                !.pc = IF size = Limit(filters) THEN "on" ELSE "done",
                !.marker = IF size = Limit(filters) THEN Last(page) ELSE @,
                !.moved = @ \/ search.marker \notin search.steady \cup {0}]
  BY DEF TurnPage
<1>4. PICK page \in [1..size -> found] :
         /\ IsPage(page, found, filters)
         /\ search' = [search EXCEPT
                !.shown = @ \o page,
                !.pc = IF size = Limit(filters) THEN "on" ELSE "done",
                !.marker = IF size = Limit(filters) THEN Last(page) ELSE @,
                !.moved = @ \/ search.marker \notin search.steady \cup {0}]
  BY <1>4a
<1>5. /\ search'.shown = search.shown \o page /\ search'.steady = search.steady
      /\ search'.request = r /\ search'.pc = IF size = Limit(filters) THEN "on" ELSE "done"
      /\ search'.marker = IF size = Limit(filters) THEN Last(page) ELSE m
      /\ search'.moved \in BOOLEAN
      /\ ~search'.moved => ~search.moved /\ m \in search.steady \cup {0}
      /\ search' = [pc |-> search'.pc, request |-> search'.request, marker |-> search'.marker,
                    shown |-> search'.shown, steady |-> search'.steady, moved |-> search'.moved]
  BY <1>1, <1>4 DEF SearchInv
<1>6. found \in SUBSET Shelf /\ size \in Nat
  BY <1>3 DEF Selection
<1>7. /\ page \in Seq(Shelf) /\ Len(page) = size
      /\ \A i \in found : \/ Once(page, i)
                         \/ /\ Never(page, i) /\ size = Limit(filters)
                            /\ \A n \in 1..size : Sorted(filters, page[n], i)
      /\ \A i : i \notin found => Never(page, i)
      /\ size # 0 => /\ Last(page) = page[size] /\ page[size] \in found
                     /\ \A i : Once(page, i) => i = page[size] \/ Sorted(filters, i, page[size])
  <2> HIDE DEF filters, found
  <2> QED  BY <1>1, <1>2, <1>4, <1>6, PageIsFirst
<1>8. \A i \in search.steady : i \in found <=> (m # 0 => Sorted(filters, m, i))
  BY <1>1 DEF Selection
<1>9. \A i \in found : m # 0 => Sorted(filters, m, i)
  BY DEF Selection
<1>10. search'.shown \in Seq(Shelf)
  BY <1>1, <1>5, <1>7, ConcatProperties
<1>11. ASSUME NEW i \in search.steady, ~search'.moved
       PROVE  /\ i \notin found => Once(search.shown, i)
              /\ i \in found => Never(search.shown, i)
  <2>1. CASE m = 0
    <3>1. search.shown = <<>> /\ i \in found
      BY <1>1, <1>5, <1>8, <1>11, <2>1 DEF Turned
    <3> QED  BY <3>1 DEF Never
  <2>2. CASE m # 0
    <3>1. IF Sorted(filters, m, i) THEN Never(search.shown, i) ELSE Once(search.shown, i)
      BY <1>1, <1>5, <1>11, <2>2 DEF Turned
    <3> QED  BY <1>8, <1>11, <2>2, <3>1
  <2> QED  BY <2>1, <2>2
<1>12. ASSUME NEW i \in search.steady, ~search'.moved
       PROVE  \/ Once(search'.shown, i)
              \/ i \in found /\ Never(page, i) /\ Never(search'.shown, i)
  <2>1. CASE i \in found
    BY <1>1, <1>5, <1>7, <1>11, <1>12, <2>1, ShownAfter
  <2>2. CASE i \notin found
    BY <1>1, <1>5, <1>7, <1>11, <1>12, <2>2, ShownAfter
  <2> QED  BY <2>1, <2>2
<1>13. ASSUME size # Limit(filters), ~search'.moved, NEW i \in search.steady
       PROVE  Once(search'.shown, i)
  <2>1. i \in found => Once(page, i)
    BY <1>7, <1>13
  <2>2. i \in found => ~Never(page, i)
    BY <2>1 DEF Once, Never
  <2> QED  BY <1>12, <1>13, <2>2
<1>14. ASSUME size = Limit(filters), ~search'.moved, NEW i \in search.steady
       PROVE  IF Sorted(filters, search'.marker, i)
              THEN Never(search'.shown, i) ELSE Once(search'.shown, i)
  <2> DEFINE last == search'.marker
  <2>1. /\ last = page[size] /\ last \in found /\ last \in Shelf /\ i \in Shelf /\ size \in 1..size
        /\ \A j : Once(page, j) => j = last \/ Sorted(filters, j, last)
    BY <1>1, <1>3, <1>5, <1>6, <1>7, <1>14
  <2> HIDE DEF last, filters, found
  <2>2. CASE i \in found /\ Once(page, i)
    <3>1. ~Sorted(filters, last, i)
      BY <1>1, <1>2, <2>1, <2>2, SortedOrders
    <3>2. ~Never(page, i)
      BY <2>2 DEF Once, Never
    <3> QED  BY <1>12, <1>14, <3>1, <3>2 DEF last
  <2>3. CASE i \in found /\ Never(page, i)
    <3>1. Sorted(filters, last, i)
      BY <1>7, <2>1, <2>3 DEF Once, Never
    <3>2. Never(search'.shown, i)
      BY <1>1, <1>5, <1>7, <1>11, <1>14, <2>3, ShownAfter
    <3> QED  BY <3>1, <3>2 DEF last
  <2>4. CASE i \notin found
    <3>1. m # 0 /\ m \in Shelf /\ Sorted(filters, m, last) /\ ~Sorted(filters, m, i)
      BY <1>1, <1>8, <1>9, <1>14, <2>1, <2>4
    <3>2. ~Sorted(filters, last, i)
      BY <1>1, <1>2, <2>1, <3>1, SortedOrders
    <3>3. Once(search'.shown, i)
      BY <1>12, <1>14, <2>4
    <3> QED  BY <3>2, <3>3 DEF last
  <2> QED  BY <1>7, <2>2, <2>3, <2>4
<1>20. shelf' = shelf /\ Filters(search'.request.params) = filters
  <2>1. shelf' = shelf
    BY <1>1
  <2>2. search'.request = search.request
    BY <1>5
  <2> QED  BY <2>1, <2>2
<1>15. ASSUME NEW i
       PROVE  Sorted(Filters(search.request.params), search.marker, i)'
              <=> Sorted(filters, search'.marker, i)
  <2>1. shelf' = shelf /\ Filters(search'.request.params) = filters
    BY <1>20
  <2> HIDE DEF filters
  <2> QED  BY <2>1 DEF Sorted
<1>16. search'.pc = "on" /\ ~search'.moved => Turned'
  <2> SUFFICES ASSUME search'.pc = "on", ~search'.moved PROVE Turned'
    OBVIOUS
  <2>1. size = Limit(filters) /\ search'.marker \in Shelf
    BY <1>3, <1>5, <1>6, <1>7
  <2>2. search'.marker # 0
    BY <2>1 DEF SearchAssumption
  <2>3. ASSUME NEW i \in search'.steady
        PROVE  (IF Sorted(Filters(search.request.params), search.marker, i)
                THEN Never(search.shown, i) ELSE Once(search.shown, i))'
    <3>1. IF Sorted(filters, search'.marker, i) THEN Never(search'.shown, i) ELSE Once(search'.shown, i)
      BY <1>5, <1>14, <2>1, <2>3
    <3> HIDE DEF filters
    <3> QED  BY <1>15, <3>1 DEF Never, Once
  <2> QED  BY <2>2, <2>3 DEF Turned
<1>17. search'.pc = "done" /\ ~search'.moved => \A i \in search'.steady : Once(search'.shown, i)
  BY <1>5, <1>13
<1>18. search'.marker \in Shelf \cup {0}
  BY <1>1, <1>3, <1>5, <1>6, <1>7
<1>19. /\ shelf' \in [Shelf -> TableRows]
       /\ \E n \in DOMAIN Searches : search'.request = Searches[n]
       /\ ValidLimit(Filters(search'.request.params))
       /\ \A i \in search'.steady :
             Matches(search'.request, Filters(search'.request.params), shelf'[i])
  <2>1. /\ shelf' = shelf /\ search'.request = r /\ search'.steady = search.steady
        /\ Filters(search'.request.params) = filters
    BY <1>5, <1>20
  <2>2. \E n \in DOMAIN Searches : r = Searches[n]
    BY <1>1 DEF SearchInv
  <2>3. ValidLimit(Filters(search'.request.params))
    BY <1>2, <2>1
  <2>4. \A i \in search.steady : Matches(r, filters, shelf[i])
    BY <1>1
  <2> HIDE DEF filters, r
  <2> QED  BY <1>1, <2>1, <2>2, <2>3, <2>4
<1> HIDE DEF filters, found, r, m
<1> QED  BY <1>1, <1>5, <1>10, <1>16, <1>17, <1>18, <1>19 DEF SearchInv, Once

LEMMA PatchKeeps ==
  ASSUME SearchAssumption, PatchAssumption, SearchInv, PatchPackage
  PROVE  SearchInv'
<1>1. PICK p \in Shelf, n \in DOMAIN Patches :
         LET row == FoldLeft(DoChange, shelf[p], Patches[n]) IN
         IF row = Failed THEN UNCHANGED <<shelf, search>>
         ELSE /\ shelf' = [shelf EXCEPT ![p] = row]
              /\ search' = [search EXCEPT !.steady = @ \ {p}]
  BY DEF PatchPackage
<1>2. shelf # <<>> /\ shelf \in [Shelf -> TableRows]
  BY DEF PatchPackage, SearchInv
<1>3. CASE UNCHANGED <<shelf, search>>
  <2>1. shelf' = shelf /\ search' = search
    BY <1>3
  <2>2. Turned' <=> Turned
    BY <2>1 DEF Turned, Sorted
  <2> QED  BY <2>1, <2>2 DEF SearchInv
<1>4. CASE ~UNCHANGED <<shelf, search>>
  <2>1. PICK row : row = FoldLeft(DoChange, shelf[p], Patches[n])
    OBVIOUS
  <2>2. /\ row # Failed /\ shelf' = [shelf EXCEPT ![p] = row]
        /\ search' = [search EXCEPT !.steady = @ \ {p}]
    BY <1>1, <1>4, <2>1
  <2>3. row \in TableRows
    BY <1>2, <2>1, <2>2 DEF PatchAssumption
  <2>4. /\ shelf' \in [Shelf -> TableRows]
        /\ \A i \in Shelf \ {p} : shelf'[i] = shelf[i]
    BY <1>2, <2>2, <2>3
  <2>5. /\ search'.pc = search.pc /\ search'.request = search.request
        /\ search'.marker = search.marker /\ search'.shown = search.shown
        /\ search'.moved = search.moved /\ search'.steady = search.steady \ {p}
        /\ search' = [pc |-> search'.pc, request |-> search'.request, marker |-> search'.marker,
                      shown |-> search'.shown, steady |-> search'.steady, moved |-> search'.moved]
    BY <2>2 DEF SearchInv
  <2>6. ASSUME NEW i \in search'.steady, search.marker \in search'.steady
        PROVE  Sorted(Filters(search.request.params), search.marker, i)'
               <=> Sorted(Filters(search.request.params), search.marker, i)
    <3>1. PICK filters, m : filters = Filters(search.request.params) /\ m = search.marker
      OBVIOUS
    <3>2. filters = Filters(search'.request.params) /\ m = search'.marker
      BY <2>5, <3>1
    <3>3. shelf'[m] = shelf[m] /\ shelf'[i] = shelf[i]
      BY <2>4, <2>5, <2>6, <3>1 DEF SearchInv
    <3>4. Sorted(filters, m, i)' <=> Sorted(filters, m, i)
      BY <3>3, SortedSame
    <3> QED  BY <3>1, <3>2, <3>4
  <2>7. Turned => Turned'
    <3> SUFFICES ASSUME Turned PROVE Turned'
      OBVIOUS
    <3>1. ASSUME search.marker \in search'.steady, NEW i \in search'.steady
          PROVE  (IF Sorted(Filters(search.request.params), search.marker, i)
                  THEN Never(search.shown, i) ELSE Once(search.shown, i))'
      <4>1. IF Sorted(Filters(search.request.params), search.marker, i)
            THEN Never(search.shown, i) ELSE Once(search.shown, i)
        BY <2>5, <3>1 DEF Turned
      <4> QED  BY <2>5, <2>6, <3>1, <4>1 DEF Never, Once
    <3>2. search'.marker = 0 => search'.shown = <<>>
      BY <2>5 DEF Turned
    <3> QED  BY <2>5, <3>1, <3>2 DEF Turned
  <2>8. ASSUME search.pc \in {"on", "done"}, NEW i \in search'.steady
        PROVE  Matches(search'.request, Filters(search'.request.params), shelf'[i])
    <3>1. Matches(search.request, Filters(search.request.params), shelf[i]) /\ shelf'[i] = shelf[i]
      BY <2>4, <2>5, <2>8 DEF SearchInv
    <3> QED  BY <2>5, <3>1
  <2>9. search.pc = "done" /\ ~search.moved => \A i \in search'.steady : Once(search'.shown, i)
    BY <2>5 DEF SearchInv
  <2> QED  BY <2>4, <2>5, <2>7, <2>8, <2>9 DEF SearchInv, Once
<1> QED  BY <1>3, <1>4

LEMMA BeginKeepsSearch ==
  ASSUME SearchAssumption, SearchInv, BeginSearch
  PROVE  SearchInv'
<1>1. PICK n \in DOMAIN Searches :
         search' = [NoSearch EXCEPT
                       !.request = Searches[n],
                       !.pc = IF ValidLimit(Filters(Searches[n].params)) THEN "on" ELSE "refused",
                       !.steady = {i \in Shelf : Matches(Searches[n], Filters(Searches[n].params), shelf[i])}]
  BY DEF BeginSearch
<1>2. /\ search'.request = Searches[n] /\ search'.marker = 0 /\ search'.shown = <<>>
      /\ search'.pc = IF ValidLimit(Filters(Searches[n].params)) THEN "on" ELSE "refused"
      /\ search'.moved = FALSE
      /\ search'.steady = {i \in Shelf : Matches(Searches[n], Filters(Searches[n].params), shelf[i])}
      /\ search' = [pc |-> search'.pc, request |-> search'.request, marker |-> search'.marker,
                    shown |-> search'.shown, steady |-> search'.steady, moved |-> search'.moved]
  BY <1>1 DEF NoSearch
<1>3. shelf' = shelf /\ shelf \in [Shelf -> TableRows]
  BY DEF BeginSearch, SearchInv
<1>4. /\ ValidLimit(Filters(search'.request.params)) <=> search'.pc = "on"
      /\ search'.pc \in {"on", "refused"}
  BY <1>2
<1>5. \A i \in search'.steady : Matches(search'.request, Filters(search'.request.params), shelf'[i])
  BY <1>2, <1>3
<1>6. Turned'
  <2>1. search'.marker \notin search'.steady
    BY <1>2 DEF SearchAssumption
  <2> QED  BY <1>2, <2>1 DEF Turned
<1>7. /\ search'.marker \in Shelf \cup {0} /\ search'.shown \in Seq(Shelf)
      /\ search'.steady \in SUBSET Shelf /\ search'.moved \in BOOLEAN
      /\ \E l \in DOMAIN Searches : search'.request = Searches[l]
  <2>1. search'.steady \in SUBSET Shelf
    BY <1>2
  <2>2. <<>> \in Seq(Shelf)
    OBVIOUS
  <2>3. \E l \in DOMAIN Searches : search'.request = Searches[l]
    BY <1>2
  <2> QED  BY <1>2, <2>1, <2>2, <2>3
<1> QED  BY <1>2, <1>3, <1>4, <1>5, <1>6, <1>7 DEF SearchInv

LEMMA SearchInduction ==
  ASSUME SearchAssumption, FiltersAssumption, PatchAssumption
  PROVE  SearchSpec => []SearchInv
<1>1. ASSUME SearchInit PROVE SearchInv
  BY <1>1 DEF SearchInit, NoSearch, SearchInv
<1>2. ASSUME SearchInv, Stock PROVE SearchInv'
  <2>1. search' = search /\ shelf = <<>> /\ shelf' \in [Shelf -> TableRows]
    BY <1>2 DEF Stock, SearchAssumption
  <2>2. CASE search.pc \in {"on", "done"}
    <3>1. DOMAIN shelf = Shelf
      BY <1>2, <2>2 DEF SearchInv
    <3>2. Shelf = {}
      BY <2>1, <3>1
    <3>3. search.steady = {}
      BY <1>2, <3>2 DEF SearchInv
    <3>4. Turned => Turned'
      BY <2>1, <3>3 DEF Turned
    <3> QED  BY <1>2, <2>1, <2>2, <3>3, <3>4 DEF SearchInv
  <2>3. CASE search.pc \notin {"on", "done"}
    BY <1>2, <2>1, <2>3 DEF SearchInv
  <2> QED  BY <2>2, <2>3
<1>3. ASSUME SearchInv, UNCHANGED searching PROVE SearchInv'
  <2>1. search' = search /\ shelf' = shelf
    BY <1>3 DEF searching
  <2>2. Turned' <=> Turned
    BY <2>1 DEF Turned, Sorted
  <2> QED  BY <1>3, <2>1, <2>2 DEF SearchInv
<1>4. SearchInv /\ [SearchNext]_searching => SearchInv'
  BY <1>2, <1>3, BeginKeepsSearch, TurnKeeps, PatchKeeps DEF SearchNext
<1> QED  BY <1>1, <1>4, PTL DEF SearchSpec

\* Who follows the markers of a search to its end is shown every package that
\* matched all the time exactly once (Controller.search, package_search and its
\* sort keys, which end in the identifier), whatever other packages are patched
\* between two pages, unless a marker itself was patched before it was used:
\* for any number of packages, any order asked for and any limit.
THEOREM EachIsListedOnce ==
  ASSUME SearchAssumption, FiltersAssumption, PatchAssumption
  PROVE  SearchSpec => []ListedOnce
<1>1. SearchInv => ListedOnce
  <2> SUFFICES ASSUME SearchInv, search.pc = "done", ~search.moved, NEW i \in search.steady
               PROVE  Cardinality({k \in DOMAIN search.shown : search.shown[k] = i}) = 1
    BY DEF ListedOnce
  <2>1. PICK s : s = search.shown
    OBVIOUS
  <2>2. Once(s, i)
    BY <2>1 DEF SearchInv
  <2> QED  BY <2>1, <2>2, ShownOnce
<1> QED  BY <1>1, SearchInduction, PTL

-----------------------------------------------------------------------------
(* The services of environment templates *)

Items == [id : ServiceIds, value : {"old", "new"}]
\* No two services of a description have the same identifier.
Listed(s) == s \in Seq(Items) /\ \A m, n \in DOMAIN s : s[m].id = s[n].id => m = n
IsDescription(s) == s = Absent \/ Listed(s)

\* A request as it was read.
Request(r) ==
    /\ r.op \in {"post", "put", "delete"} /\ r.doc \in Documents /\ r.path \in Paths
    /\ \E id \in ServiceIds, value \in {"old", "new"} :
          /\ r.data = <<Service(id, value)>>
          /\ r.op = "post" => Len(r.path) < 3 /\ First(r.read, id) = {}
          /\ r.op = "put" => /\ Len(r.path) = 2 /\ r.path[2] \in ServiceIds => id = r.path[2]
                             /\ First(r.read, id) \subseteq {Position(r.read, Last(r.path))}
                             /\ r.doc # Session => Len(r.path) = 2

\* The paths a request can have, and their parts.
LEMMA PathKinds ==
  ASSUME NEW p \in Paths
  PROVE  \/ p = <<"services">> /\ Len(p) = 1 /\ Front(p) = <<>> /\ Last(p) = "services"
         \/ \E k \in ServiceIds \cup {"0"} :
               p = <<"services", k>> /\ Len(p) = 2 /\ Front(p) = <<"services">> /\ Last(p) = k /\ p[2] = k
         \/ \E k \in ServiceIds :
               p = <<"services", k, "value">> /\ Len(p) = 3 /\ Front(p) = <<"services", k>>
               /\ Last(p) = "value" /\ p[2] = k
<1>1. CASE p = <<"services">>
  <2>1. Front(p) = <<>> /\ Last(p) = "services" /\ Len(p) = 1
    BY <1>1 DEF Front, Last
  <2> QED  BY <1>1, <2>1
<1>2. ASSUME NEW k \in ServiceIds \cup {"0"}, p = <<"services", k>>
      PROVE  Len(p) = 2 /\ Front(p) = <<"services">> /\ Last(p) = k /\ p[2] = k
  <2>1. p \in Seq({"services", k}) /\ Len(p) = 2 /\ p[1] = "services" /\ p[2] = k
    BY <1>2
  <2> HIDE <1>2
  <2>2. Front(p) \in Seq({"services", k}) /\ Len(Front(p)) = 1 /\ Front(p)[1] = "services"
    BY <2>1 DEF Front
  <2> QED  BY <2>1, <2>2 DEF Last
<1>3. ASSUME NEW k \in ServiceIds, p = <<"services", k, "value">>
      PROVE  Len(p) = 3 /\ Front(p) = <<"services", k>> /\ Last(p) = "value" /\ p[2] = k
  <2>1. p \in Seq({"services", k, "value"}) /\ Len(p) = 3 /\ p[1] = "services" /\ p[2] = k /\ p[3] = "value"
    BY <1>3
  <2> HIDE <1>3
  <2>2. Front(p) \in Seq({"services", k, "value"}) /\ Len(Front(p)) = 2 /\ Front(p)[1] = "services" /\ Front(p)[2] = k
    BY <2>1 DEF Front
  <2> QED  BY <2>1, <2>2 DEF Last
<1> QED  BY <1>1, <1>2, <1>3 DEF Paths

\* No identifier of a service is an index.
LEMMA NoNumbers ==
  ASSUME TemplatesAssumption
  PROVE  /\ \A k \in ServiceIds : k \notin DOMAIN Indices
         /\ DOMAIN Indices = {"0", "1"} /\ Indices["0"] = 0
  BY DEF TemplatesAssumption, Indices

LEMMA ListedIsThere ==
  ASSUME NEW s, Listed(s)
  PROVE  s # Absent
<1>1. ASSUME Len(s) = 1 PROVE s[1].value \in {"old", "new"}
  <2>1. s[1] \in Items
    BY <1>1 DEF Listed
  <2> QED  BY <2>1 DEF Items
<1> QED  BY <1>1 DEF Absent

\* _get_item: an identifier is found at most once; an index only where no
\* identifier is meant.
LEMMA PositionIs ==
  ASSUME TemplatesAssumption, NEW s, Listed(s)
  PROVE  /\ \A n \in DOMAIN s : First(s, s[n].id) = {n} /\ Position(s, s[n].id) = n
         /\ \A k \in ServiceIds : First(s, k) = {} => Position(s, k) = 0
         /\ First(s, "0") = {} /\ Position(s, "0") = 1
<1>1. \A n : Min({n}) = n \/ n \notin Nat
  BY DEF Min
<1>2. ASSUME NEW n \in DOMAIN s
      PROVE  First(s, s[n].id) = {n} /\ Position(s, s[n].id) = n
  <2>1. First(s, s[n].id) = {n}
    BY DEF First, Listed
  <2>2. n \in Nat
    BY DEF Listed
  <2> QED  BY <1>1, <2>1, <2>2 DEF Position
<1>3. \A k \in ServiceIds : First(s, k) = {} => Position(s, k) = 0
  BY NoNumbers DEF Position
<1>4. First(s, "0") = {}
  <2>1. \A n \in DOMAIN s : s[n] \in Items
    BY DEF Listed
  <2>2. \A n \in DOMAIN s : s[n].id \in ServiceIds
    BY <2>1 DEF Items
  <2>3. "0" \notin ServiceIds
    BY NoNumbers
  <2> QED  BY <2>2, <2>3 DEF First
<1>5. Position(s, "0") = 1
  BY <1>4, NoNumbers DEF Position
<1> QED  BY <1>2, <1>3, <1>4, <1>5

\* TraverseHelper.get: which node each path leads to.
LEMMA Traversed ==
  ASSUME TemplatesAssumption, NEW s, IsDescription(s)
  PROVE  /\ TraverseGet(<<>>, s).kind = "dict"
         /\ s = Absent => TraverseGet(<<"services">>, s).kind = "error"
         /\ s # Absent => TraverseGet(<<"services">>, s) = List(s)
         /\ \A k \in ServiceIds :
               IF s # Absent /\ First(s, k) # {}
               THEN TraverseGet(<<"services", k>>, s).kind = "dict" /\ Position(s, k) \in DOMAIN s
               ELSE TraverseGet(<<"services", k>>, s).kind \in {"error", "none"}
<1> DEFINE root == DescriptionNode(s)
           top == Step(root, "services")
<1>1. root.kind = "dict" /\ DOMAIN root.fields = (IF s = Absent THEN {} ELSE {"services"})
      /\ (s # Absent => root.fields["services"] = List(s))
  BY DEF DescriptionNode, Dict
<1>2. top = IF s = Absent THEN Malformed ELSE List(s)
  BY <1>1 DEF Step
<1>3. TraverseGet(<<>>, s) = root /\ TraverseGet(<<"services">>, s) = top
      /\ \A k : TraverseGet(<<"services", k>>, s) = Step(top, k)
  BY DEF TraverseGet, Follow
<1>4. Malformed.kind = "error" /\ List(s).kind = "list" /\ List(s).items = s
  BY DEF Malformed, List
<1>5. ASSUME NEW k \in ServiceIds
      PROVE  IF s # Absent /\ First(s, k) # {}
             THEN Step(top, k).kind = "dict" /\ Position(s, k) \in DOMAIN s
             ELSE Step(top, k).kind \in {"error", "none"}
  <2>1. CASE s = Absent
    BY <1>2, <1>4, <2>1 DEF Step, Malformed
  <2>2. CASE s # Absent /\ First(s, k) = {}
    <3>1. Position(s, k) = 0
      BY <2>2, PositionIs DEF IsDescription
    <3>2. Step(List(s), k) = NoNode
      BY <1>4, <2>2, <3>1 DEF Step, IsDescription, Listed
    <3> QED  BY <1>2, <2>2, <3>2 DEF NoNode
  <2>3. CASE s # Absent /\ First(s, k) # {}
    <3>1. PICK n \in DOMAIN s : s[n].id = k
      BY <2>3 DEF First
    <3>2. Position(s, k) = n /\ n # 0
      BY <2>3, <3>1, PositionIs DEF IsDescription, Listed
    <3>3. Step(List(s), k) = ServiceNode(s[n])
      BY <1>4, <3>1, <3>2 DEF Step
    <3> QED  BY <1>2, <2>3, <3>1, <3>2, <3>3 DEF ServiceNode, Dict
  <2> QED  BY <2>1, <2>2, <2>3
<1> HIDE DEF root, top
<1> QED  BY <1>1, <1>2, <1>3, <1>4, <1>5

\* A service taken out by its position is the one with that identifier, and
\* the others keep their order.
LEMMA Removed ==
  ASSUME NEW s, Listed(s), NEW n \in DOMAIN s
  PROVE  /\ Listed(RemoveAt(s, n))
         /\ Without(s, s[n].id) = RemoveAt(s, n)
<1> DEFINE L == Len(s)
           after == [m \in 1..(L - 1) |-> IF m < n THEN s[m] ELSE s[m + 1]]
<1>1. s \in Seq(Items) /\ L \in Nat /\ n \in 1..L /\ DOMAIN s = 1..L /\ \A m \in 1..L : s[m] \in Items
  BY DEF Listed
<1>2. RemoveAt(s, n) = after
  <2> DEFINE left == SubSeq(s, 1, n - 1)
             right == SubSeq(s, n + 1, L)
  <2>1. left \in Seq(Items) /\ Len(left) = n - 1 /\ \A m \in 1..(n - 1) : left[m] = s[m]
    BY <1>1, SubSeqProperties
  <2>2. right \in Seq(Items) /\ Len(right) = L - n /\ \A m \in 1..(L - n) : right[m] = s[n + m]
    BY <1>1, SubSeqProperties
  <2>3. RemoveAt(s, n) = left \o right
    BY DEF RemoveAt
  <2> HIDE DEF left, right, L
  <2>4. /\ left \o right \in Seq(Items) /\ Len(left \o right) = L - 1
        /\ \A m \in 1..(L - 1) : (left \o right)[m] = IF m < n THEN s[m] ELSE s[m + 1]
    <3>1. n - 1 \in Nat /\ L - n \in Nat
      BY <1>1
    <3>2. /\ left \o right \in Seq(Items) /\ Len(left \o right) = (n - 1) + (L - n)
          /\ \A m \in 1..(n - 1) + (L - n) : (left \o right)[m] = IF m <= n - 1 THEN left[m] ELSE right[m - (n - 1)]
      <4>1. /\ left \o right \in Seq(Items) /\ Len(left \o right) = Len(left) + Len(right)
            /\ \A m \in 1..Len(left) + Len(right) :
                  (left \o right)[m] = IF m <= Len(left) THEN left[m] ELSE right[m - Len(left)]
        BY <2>1, <2>2, ConcatProperties
      <4> QED  BY <2>1, <2>2, <4>1
    <3>3. \A m \in 1..(L - 1) : m >= n => right[m - (n - 1)] = s[m + 1]
      BY <1>1, <2>2
    <3>4. \A m \in 1..(L - 1) : m < n => left[m] = s[m]
      BY <1>1, <2>1
    <3> QED  BY <1>1, <3>1, <3>2, <3>3, <3>4
  <2>5. \A t \in Seq(Items) : Len(t) = L - 1 => t = [m \in 1..(L - 1) |-> t[m]]
    BY <1>1
  <2>6. left \o right = [m \in 1..(L - 1) |-> (left \o right)[m]]
    BY <2>4, <2>5
  <2> QED  BY <2>3, <2>4, <2>6
<1>3. Listed(after)
  <2>1. after \in Seq(Items)
    BY <1>1
  <2>2. ASSUME NEW i \in 1..(L - 1), NEW j \in 1..(L - 1), after[i].id = after[j].id
        PROVE  i = j
    <3>1. PICK a \in 1..L : a = IF i < n THEN i ELSE i + 1
      BY <1>1
    <3>2. PICK b \in 1..L : b = IF j < n THEN j ELSE j + 1
      BY <1>1
    <3>3. s[a].id = s[b].id
      BY <2>2, <3>1, <3>2
    <3>4. a = b
      BY <1>1, <3>3 DEF Listed
    <3> QED  BY <1>1, <3>1, <3>2, <3>4
  <2> QED  BY <1>1, <2>1, <2>2 DEF Listed
<1> DEFINE kept == {m \in DOMAIN s : s[m].id # s[n].id}
           rank(m) == Cardinality({j \in kept : j <= m})
<1>4. kept = (1..L) \ {n}
  BY <1>1 DEF Listed
<1>5. Cardinality(kept) = L - 1
  <2>1. IsFiniteSet(1..L) /\ Cardinality(1..L) = L
    <3>1. 1 \in Int /\ L \in Int /\ L >= 1
      BY <1>1
    <3> HIDE DEF L
    <3>2. IsFiniteSet(1..L) /\ Cardinality(1..L) = IF 1 > L THEN 0 ELSE L - 1 + 1
      BY <3>1, FS_Interval
    <3> QED  BY <3>1, <3>2
  <2>2. Cardinality((1..L) \ {n}) = IF n \in 1..L THEN Cardinality(1..L) - 1 ELSE Cardinality(1..L)
    BY <2>1, FS_RemoveElement
  <2> QED  BY <1>1, <1>4, <2>1, <2>2
<1>6. ASSUME NEW m \in kept
      PROVE  rank(m) = IF m < n THEN m ELSE m - 1
  <2>1. m \in Nat /\ m \in 1..L /\ m # n
    BY <1>1, <1>4
  <2>2. {j \in kept : j <= m} = (1..m) \ {n}
    BY <1>1, <1>4, <2>1
  <2>3. IsFiniteSet(1..m) /\ Cardinality(1..m) = m
    BY <2>1, FS_Interval
  <2>4. Cardinality((1..m) \ {n}) = IF n \in 1..m THEN Cardinality(1..m) - 1 ELSE Cardinality(1..m)
    BY <2>3, FS_RemoveElement
  <2>5. rank(m) = Cardinality((1..m) \ {n})
    BY <2>2
  <2>6. n \in 1..m <=> n < m
    BY <1>1, <2>1
  <2>7. rank(m) = IF n < m THEN m - 1 ELSE m
    BY <2>3, <2>4, <2>5, <2>6
  <2> HIDE DEF rank, kept, L
  <2> QED  BY <1>1, <2>1, <2>7
<1>7. ASSUME NEW r \in 1..(L - 1)
      PROVE  s[CHOOSE m \in kept : rank(m) = r] = after[r]
  <2> HIDE DEF rank
  <2>1. PICK c \in kept : c = IF r < n THEN r ELSE r + 1
    BY <1>1, <1>4
  <2>2. rank(c) = r
    BY <1>1, <1>6, <2>1
  <2>3. ASSUME NEW m \in kept, rank(m) = r PROVE m = c
    BY <1>1, <1>4, <1>6, <2>1, <2>3
  <2>4. (CHOOSE m \in kept : rank(m) = r) = c
    BY <2>2, <2>3
  <2>5. after[r] = s[c]
    BY <1>1, <2>1
  <2> HIDE DEF kept, after
  <2> QED  BY <2>4, <2>5
<1>8. Without(s, s[n].id) = [r \in 1..Cardinality(kept) |-> s[CHOOSE m \in kept : rank(m) = r]]
  BY DEF Without
<1> HIDE DEF kept, rank, after, L
<1>9. Without(s, s[n].id) = [r \in 1..(L - 1) |-> after[r]]
  BY <1>5, <1>7, <1>8
<1>10. [r \in 1..(L - 1) |-> after[r]] = after
  BY DEF after
<1> QED  BY <1>2, <1>3, <1>9, <1>10

LEMMA ReplacedAt ==
  ASSUME NEW s, Listed(s), NEW n \in DOMAIN s, NEW x \in Items, First(s, x.id) \subseteq {n}
  PROVE  Listed([s EXCEPT ![n] = x])
<1>1. \A m \in DOMAIN s : s[m].id = x.id => m = n
  BY DEF First
<1>2. [s EXCEPT ![n] = x] \in Seq(Items)
  BY DEF Listed
<1> QED  BY <1>1, <1>2 DEF Listed

\* What a request makes of the services it has read is what it asks for
\* (post_data, put_data, delete_data and those for templates).
LEMMA EditMeans ==
  ASSUME TemplatesAssumption, NEW r, Request(r), IsDescription(r.read), Edited(r) # Fail,
         r.op = "put" /\ r.doc # Session => Position(r.read, r.path[2]) = 1
  PROVE  IsDescription(Edited(r)) /\ Edited(r) = Meant(r, r.read)
<1> DEFINE s == r.read
           p == r.path
<1>1. PICK id \in ServiceIds, value \in {"old", "new"} :
          /\ r.data = <<Service(id, value)>>
          /\ r.op = "post" => Len(r.path) < 3 /\ First(r.read, id) = {}
          /\ r.op = "put" => /\ Len(r.path) = 2 /\ r.path[2] \in ServiceIds => id = r.path[2]
                             /\ First(r.read, id) \subseteq {Position(r.read, Last(r.path))}
                             /\ r.doc # Session => Len(r.path) = 2
  BY DEF Request
<1>2. PICK x \in Items : x = Service(id, value) /\ x.id = id /\ x.value = value
  <2>1. Service(id, value) \in Items /\ Service(id, value).id = id /\ Service(id, value).value = value
    BY DEF Items, Service
  <2> QED  BY <2>1
<1>3. r.data = <<x>> /\ r.data[1] = x /\ Head(r.data) = x /\ r.data \in Seq(Items) /\ Len(r.data) = 1 /\ Listed(r.data)
  BY <1>1, <1>2 DEF Listed
<1>4. p \in Paths /\ r.op \in {"post", "put", "delete"} /\ r.doc \in Documents
  BY DEF Request
<1>5. \A m \in DOMAIN s : s # Absent => s[m] \in Items /\ s[m].id \in ServiceIds /\ m \in Nat /\ m # 0
  <2>1. ASSUME NEW m \in DOMAIN s, s # Absent PROVE s[m] \in Items /\ m \in Nat /\ m # 0
    BY <2>1 DEF IsDescription, Listed
  <2>2. \A y \in Items : y.id \in ServiceIds
    BY DEF Items
  <2> QED  BY <2>1, <2>2
<1>a. \/ Len(p) = 1 /\ Front(p) = <<>> /\ p = <<"services">>
      \/ Len(p) = 2 /\ \E k \in ServiceIds \cup {"0"} :
            p = <<"services", k>> /\ Front(p) = <<"services">> /\ Last(p) = k /\ p[2] = k
      \/ Len(p) = 3 /\ \E k \in ServiceIds :
            p = <<"services", k, "value">> /\ Front(p) = <<"services", k>> /\ p[2] = k
  <2> HIDE DEF p
  <2> QED  BY <1>4, PathKinds
<1>6. \A k \in ServiceIds : k \notin DOMAIN Indices
  BY NoNumbers
<1>7. CASE r.op = "post"
  <2>1. IsDescription(Opened(s)) /\ Opened(s) # Absent /\ Listed(Opened(s))
    BY ListedIsThere DEF Opened, IsDescription, Listed, Absent
  <2>2. CASE p = <<"services">>
    <3>1. TraverseGet(p, Opened(s)) = List(Opened(s))
      BY <2>1, <2>2, Traversed
    <3>2. Edited(r) = Opened(s) \o r.data
      BY <1>7, <2>2, <3>1 DEF Edited, Posted, TraverseExtend, List
    <3>3. Meant(r, s) = Opened(s) \o r.data
      BY <1>7, <2>2 DEF Meant
    <3>4. \A m \in DOMAIN Opened(s) : Opened(s)[m].id # id
      BY <1>1, <1>7 DEF First, Opened
    <3>5. Listed(Opened(s) \o <<x>>)
      BY <1>2, <2>1, <3>4 DEF Listed
    <3> QED  BY <1>3, <3>2, <3>3, <3>5 DEF IsDescription
  <2>3. CASE p # <<"services">>
    BY <1>7, <2>1, <2>3 DEF Edited, Posted, Meant
  <2> QED  BY <2>2, <2>3
<1>8. CASE r.op = "put" /\ Len(p) = 1
  <2>1. Len(p) = 1 /\ Front(p) = <<>> /\ r.doc = Session
    BY <1>1, <1>8, <1>a
  <2>2. TraverseGet(Front(p), s).kind = "dict"
    BY <2>1, Traversed
  <2>3. Edited(r) = r.data
    BY <1>8, <2>1, <2>2 DEF Edited, PutInSession, TraverseUpdate
  <2>4. Meant(r, s) = r.data
    BY <1>8 DEF Meant
  <2> QED  BY <1>3, <2>3, <2>4 DEF IsDescription
<1>9. CASE r.op = "put" /\ Len(p) = 2
  <2>1. PICK k \in ServiceIds \cup {"0"} : p = <<"services", k>> /\ Front(p) = <<"services">> /\ Last(p) = k /\ p[2] = k
    BY <1>9, <1>a
  <2>2. ASSUME s # Absent, s # <<>>, Position(s, k) = 1
        PROVE  IsDescription([s EXCEPT ![1] = x]) /\ [s EXCEPT ![1] = x] = Renamed(s, k, x)
    <3>1. Listed(s) /\ 1 \in DOMAIN s
      BY <2>2 DEF IsDescription, Listed
    <3>2. First(s, x.id) \subseteq {1}
      BY <1>1, <1>2, <1>9, <2>1, <2>2
    <3>3. Listed([s EXCEPT ![1] = x])
      BY <3>1, <3>2, ReplacedAt
    <3>4. [s EXCEPT ![1] = x] = Renamed(s, k, x)
      BY <2>2, <3>1 DEF Renamed, Listed
    <3> QED  BY <3>3, <3>4 DEF IsDescription
  <2>3. Meant(r, s) = Renamed(s, k, x)
    BY <1>3, <1>9, <2>1 DEF Meant
  <2>4. ASSUME NEW key \in ServiceIds \cup {"0"}
        PROVE  LET q == <<"services", key>>
               IN  TraverseUpdate(q, r.data, s) =
                      IF s # Absent /\ s # <<>> /\ key = "0" THEN [s EXCEPT ![1] = x] ELSE Fail
    <3> DEFINE q == <<"services", key>>
               node == TraverseGet(Front(q), s)
    <3>1. Front(q) = <<"services">> /\ Last(q) = key /\ Len(q) = 2 /\ q[2] = key
      <4>1. q \in Paths
        BY DEF Paths
      <4> QED  BY <4>1, PathKinds
    <3>2. IF s = Absent THEN node.kind = "error" ELSE node = List(s)
      BY <3>1, Traversed
    <3>3. key \in DOMAIN Indices <=> key = "0"
      BY <1>6, NoNumbers
    <3>4. s # Absent => (0 < Len(s) <=> s # <<>>)
      BY DEF IsDescription, Listed
    <3>5. CASE s = Absent
      BY <3>2, <3>5 DEF TraverseUpdate
    <3>6. CASE s # Absent
      <4>1. node.kind = "list"
        BY <3>2, <3>6 DEF List
      <4>2. CASE key = "0" /\ s # <<>>
        <5>1. key \in DOMAIN Indices /\ Indices[key] = 0 /\ 0 < Len(s) /\ Indices[key] + 1 = 1
          BY <3>3, <3>4, <3>6, <4>2, NoNumbers
        <5> QED  BY <1>3, <3>1, <3>6, <4>1, <4>2, <5>1 DEF TraverseUpdate
      <4>3. CASE ~(key = "0" /\ s # <<>>)
        <5>1. ~(key \in DOMAIN Indices /\ Indices[key] < Len(s))
          BY <3>3, <3>4, <3>6, <4>3, NoNumbers
        <5> QED  BY <3>1, <3>6, <4>1, <4>3, <5>1 DEF TraverseUpdate
      <4> QED  BY <4>2, <4>3
    <3> QED  BY <3>5, <3>6
  <2>5. CASE r.doc = Session
    <3>1. Edited(r) = TraverseUpdate(<<"services", k>>, r.data, s)
      BY <1>9, <2>1, <2>5 DEF Edited, PutInSession
    <3>2. s # Absent /\ s # <<>> /\ k = "0" /\ Edited(r) = [s EXCEPT ![1] = x]
      BY <2>4, <3>1
    <3>3. Position(s, k) = 1
      BY <3>2, PositionIs DEF IsDescription
    <3> QED  BY <2>2, <2>3, <3>2, <3>3
  <2>6. CASE r.doc # Session
    <3>1. Position(s, k) = 1
      BY <1>9, <2>1, <2>6
    <3>2. s # Absent /\ Edited(r) = TraverseUpdate(<<"services", "0">>, r.data, s)
      BY <1>9, <2>1, <2>6 DEF Edited, PutInTemplate, CountBefore
    <3>3. s # <<>> /\ Edited(r) = [s EXCEPT ![1] = x]
      BY <2>4, <3>2
    <3> QED  BY <2>2, <2>3, <3>1, <3>2, <3>3
  <2> QED  BY <2>5, <2>6
<1>10. CASE r.op = "put" /\ Len(p) = 3
  <2>1. PICK k \in ServiceIds : p = <<"services", k, "value">> /\ Front(p) = <<"services", k>> /\ p[2] = k /\ r.doc = Session
    BY <1>1, <1>10, <1>a
  <2>2. Edited(r) = TraverseUpdate(p, r.data, s)
    BY <1>10, <2>1 DEF Edited, PutInSession
  <2>3. s # Absent /\ First(s, k) # {}
    <3>1. SUFFICES ASSUME ~(s # Absent /\ First(s, k) # {}) PROVE FALSE
      OBVIOUS
    <3>2. TraverseGet(Front(p), s).kind \in {"error", "none"}
      BY <2>1, <3>1, Traversed
    <3> QED  BY <2>2, <3>2 DEF TraverseUpdate
  <2>4. PICK n \in DOMAIN s : s[n].id = k /\ Position(s, k) = n /\ Listed(s)
    BY <2>3, PositionIs DEF First, IsDescription
  <2>5. Edited(r) = [s EXCEPT ![n].value = value]
    <3>1. TraverseGet(Front(p), s).kind = "dict"
      BY <2>1, <2>3, Traversed
    <3> QED  BY <1>2, <1>3, <1>10, <2>1, <2>2, <2>4, <3>1 DEF TraverseUpdate
  <2>6. Meant(r, s) = [m \in DOMAIN s |-> IF s[m].id = k THEN [s[m] EXCEPT !.value = value] ELSE s[m]]
    BY <1>2, <1>3, <1>10, <2>1 DEF Meant
  <2>7. \A m \in DOMAIN s : s[m].id = k <=> m = n
    BY <2>4 DEF Listed
  <2>8. Edited(r) = Meant(r, s)
    BY <2>4, <2>5, <2>6, <2>7 DEF Listed
  <2>9. PICK y \in Items : y = [s[n] EXCEPT !.value = value] /\ y.id = k
    <3>1. PICK z \in Items : z = s[n]
      BY <1>5, <2>3, <2>4
    <3>2. [z EXCEPT !.value = value] \in Items /\ [z EXCEPT !.value = value].id = z.id
      BY DEF Items
    <3> QED  BY <2>4, <3>1, <3>2
  <2>10. Edited(r) = [s EXCEPT ![n] = y]
    BY <2>5, <2>9
  <2>11. First(s, y.id) \subseteq {n}
    BY <2>7, <2>9 DEF First
  <2> QED  BY <2>4, <2>8, <2>10, <2>11, ReplacedAt DEF IsDescription
<1>11. CASE r.op = "delete" /\ Len(p) = 1
  <2>1. Front(p) = <<>>
    BY <1>11, <1>a
  <2>2. TraverseGet(Front(p), s).kind = "dict"
    BY <2>1, Traversed
  <2>3. Edited(r) = Absent
    BY <1>11, <2>2 DEF Edited, TraverseRemove
  <2> QED  BY <1>11, <2>3 DEF Meant, IsDescription
<1>12. CASE r.op = "delete" /\ Len(p) # 1
  <2>1. Edited(r) = TraverseRemove(p, s)
    BY <1>12 DEF Edited
  <2>2. CASE Len(p) = 3
    <3>1. PICK k \in ServiceIds : Front(p) = <<"services", k>> /\ Len(p) # 1
      BY <2>2, <1>a
    <3>2. TraverseGet(Front(p), s).kind \in {"dict", "error", "none"}
      BY <3>1, Traversed
    <3>3. TraverseRemove(p, s) = Fail
      BY <1>12, <3>2 DEF TraverseRemove
    <3> QED  BY <2>1, <3>3
  <2>3. CASE Len(p) = 2
    <3>1. PICK k \in ServiceIds \cup {"0"} : Front(p) = <<"services">> /\ Last(p) = k /\ p[2] = k
      BY <2>3, <1>a
    <3>2. s # Absent
      <4>1. SUFFICES ASSUME s = Absent PROVE FALSE
        OBVIOUS
      <4>2. TraverseGet(Front(p), s).kind = "error"
        BY <3>1, <4>1, Traversed
      <4> QED  BY <2>1, <4>2 DEF TraverseRemove
    <3>3. Listed(s) /\ TraverseGet(Front(p), s) = List(s)
      BY <3>1, <3>2, Traversed DEF IsDescription
    <3> DEFINE n == Position(s, k)
    <3>4. n \in DOMAIN s /\ Edited(r) = RemoveAt(s, n)
      BY <1>12, <2>1, <3>1, <3>3 DEF TraverseRemove, List
    <3>5. CASE k \in ServiceIds
      <4>1. n # 0 /\ 0 \notin DOMAIN s
        BY <3>3, <3>4 DEF Listed
      <4>2. PICK m \in DOMAIN s : s[m].id = k
        BY <3>3, <3>5, <4>1, PositionIs DEF First
      <4>3. n = m
        BY <3>3, <4>2, PositionIs
      <4>4. Without(s, k) = RemoveAt(s, n) /\ Listed(RemoveAt(s, n))
        BY <3>3, <4>2, <4>3, Removed
      <4>5. Meant(r, s) = Without(s, k)
        BY <1>12, <2>3, <3>1, <3>5 DEF Meant
      <4> QED  BY <3>4, <4>4, <4>5 DEF IsDescription
    <3>6. CASE k \notin ServiceIds
      <4>1. n = 1 /\ k = "0"
        BY <3>3, <3>6, PositionIs
      <4>2. Meant(r, s) = RemoveAt(s, Indices[k] + 1)
        BY <1>12, <2>3, <3>1, <3>6 DEF Meant
      <4>3. Meant(r, s) = RemoveAt(s, n)
        BY <4>1, <4>2, NoNumbers
      <4>4. Listed(RemoveAt(s, n))
        BY <3>3, <3>4, Removed
      <4> QED  BY <3>4, <4>3, <4>4 DEF IsDescription
    <3> QED  BY <3>5, <3>6
  <2> QED  BY <1>12, <1>a, <2>2, <2>3
<1> QED  BY <1>4, <1>7, <1>8, <1>9, <1>10, <1>11, <1>12, <1>a

-----------------------------------------------------------------------------
\* The inductive invariant: a request that is not stale has read what is
\* there, and a description nobody saved over is a list of services and what
\* was asked for.
Good(d) == d \notin overlapped /\ d \notin misplaced

TemplatesInv ==
    /\ templates \in [TemplateIds -> [there : BOOLEAN, tenant : Owners \cup {"none"}, public : BOOLEAN]]
    /\ described = [d \in Documents |-> described[d]] /\ intended = [d \in Documents |-> intended[d]]
    /\ editor = [e \in Editors |-> editor[e]]
    /\ \A e \in Editors :
          /\ editor[e] = [op |-> editor[e].op, doc |-> editor[e].doc, path |-> editor[e].path,
                         data |-> editor[e].data, read |-> editor[e].read, stale |-> editor[e].stale]
          /\ editor[e].op # "none" => Request(editor[e])
          /\ editor[e].op # "none" /\ ~editor[e].stale =>
                Exists(editor[e].doc) /\ editor[e].read = described[editor[e].doc]
    /\ \A d \in Documents : Good(d) => IsDescription(described[d]) /\ described[d] = intended[d]

LEMMA EmptyIsListed == Listed(<<>>)
  BY DEF Listed

LEMMA BeginEditKeeps ==
  ASSUME TemplatesAssumption, TemplatesInv, NEW e \in Editors, BeginEdit(e)
  PROVE  TemplatesInv'
<1>1. PICK d \in Documents, op \in {"post", "put", "delete"}, path \in Paths,
          id \in ServiceIds, value \in {"old", "new"} :
          /\ Exists(d)
          /\ op = "delete" => value = "old" /\ id = CHOOSE x \in ServiceIds : TRUE
          /\ op = "post" => /\ Len(path) < 3 /\ value = "old"
                            /\ Len(described[d]) < MaxServices
                            /\ \A f \in Editors : editor[f].op = "none"
                            /\ First(described[d], id) = {}
          /\ op = "put" => /\ value = "new"
                           /\ Len(path) = 2 /\ path[2] \in ServiceIds => id = path[2]
                           /\ First(described[d], id) \subseteq {Position(described[d], Last(path))}
                           /\ d # Session => Len(path) = 2
          /\ editor' = [editor EXCEPT ![e] =
                 [op |-> op, doc |-> d, path |-> path,
                  data |-> <<Service(id, value)>>,
                  read |-> described[d], stale |-> FALSE]]
  BY Zenon DEF BeginEdit
<1>2. UNCHANGED <<templates, described, intended, overlapped, misplaced>>
  BY DEF BeginEdit
<1>3. PICK r : r = [op |-> op, doc |-> d, path |-> path, data |-> <<Service(id, value)>>,
                    read |-> described[d], stale |-> FALSE]
  OBVIOUS
<1>4. Request(r)
  BY <1>1, <1>3 DEF Request
<1>5. editor' = [editor EXCEPT ![e] = r]
  BY <1>1, <1>3
<1>6. editor' = [f \in Editors |-> IF f = e THEN r ELSE editor[f]]
  BY <1>5 DEF TemplatesInv
<1>7. ASSUME NEW f \in Editors
      PROVE  /\ editor'[f] = [op |-> editor'[f].op, doc |-> editor'[f].doc, path |-> editor'[f].path,
                         data |-> editor'[f].data, read |-> editor'[f].read, stale |-> editor'[f].stale]
             /\ editor'[f].op # "none" => Request(editor'[f])
             /\ editor'[f].op # "none" /\ ~editor'[f].stale =>
                   Exists(editor'[f].doc) /\ editor'[f].read = described[editor'[f].doc]
  <2>1. CASE f = e
    BY <1>1, <1>3, <1>4, <1>6, <2>1
  <2>2. CASE f # e
    <3>1. editor'[f] = editor[f]
      BY <1>6, <2>2
    <3> QED  BY <3>1 DEF TemplatesInv
  <2> QED  BY <2>1, <2>2
<1>8. editor' = [f \in Editors |-> editor'[f]]
  BY <1>6
<1>9. \A x : Exists(x)' <=> Exists(x)
  BY <1>2 DEF Exists
<1>10. \A x : Good(x)' <=> Good(x)
  BY <1>2 DEF Good
<1> QED  BY <1>2, <1>7, <1>8, <1>9, <1>10 DEF TemplatesInv

LEMMA SaveEditKeeps ==
  ASSUME TemplatesAssumption, TemplatesInv, NEW e \in Editors, SaveEdit(e)
  PROVE  TemplatesInv'
<1> DEFINE r == editor[e]
           after == Edited(r)
<1>1. r.op # "none" /\ Request(r) /\ r.doc \in Documents /\ r.op \in {"post", "put", "delete"}
  BY DEF SaveEdit, TemplatesInv, Request
<1>2. UNCHANGED templates /\ \A x : Exists(x)' <=> Exists(x)
  BY DEF SaveEdit, Exists
<1>3. CASE after = Fail \/ ~Exists(r.doc)
  <2>1. editor' = [editor EXCEPT ![e] = NoEdit] /\ UNCHANGED <<described, intended, overlapped, misplaced>>
    BY <1>3 DEF SaveEdit
  <2>2. editor' = [f \in Editors |-> IF f = e THEN NoEdit ELSE editor[f]]
    BY <2>1 DEF TemplatesInv
  <2>3. NoEdit.op = "none"
        /\ NoEdit = [op |-> NoEdit.op, doc |-> NoEdit.doc, path |-> NoEdit.path,
                         data |-> NoEdit.data, read |-> NoEdit.read, stale |-> NoEdit.stale]
    BY DEF NoEdit
  <2>4. ASSUME NEW f \in Editors
        PROVE  /\ editor'[f] = [op |-> editor'[f].op, doc |-> editor'[f].doc, path |-> editor'[f].path,
                         data |-> editor'[f].data, read |-> editor'[f].read, stale |-> editor'[f].stale]
               /\ editor'[f].op # "none" => Request(editor'[f])
               /\ editor'[f].op # "none" /\ ~editor'[f].stale =>
                   Exists(editor'[f].doc) /\ editor'[f].read = described[editor'[f].doc]
    <3>1. CASE f = e
      <4>1. editor'[f] = NoEdit
        BY <2>2, <3>1
      <4> QED  BY <2>3, <4>1
    <3>2. CASE f # e
      <4>1. editor'[f] = editor[f]
        BY <2>2, <3>2
      <4> QED  BY <4>1 DEF TemplatesInv
    <3> QED  BY <3>1, <3>2
  <2>5. editor' = [f \in Editors |-> editor'[f]]
    BY <2>2
  <2>6. \A x : Good(x)' <=> Good(x)
    BY <2>1 DEF Good
  <2> QED  BY <1>2, <2>1, <2>4, <2>5, <2>6 DEF TemplatesInv
<1>4. CASE after # Fail /\ Exists(r.doc)
  <2> DEFINE touched == [f \in Editors |-> editor[f].stale \/ (editor[f].op # "none" /\ editor[f].doc = r.doc)]
             meant == Meant(r, intended[r.doc])
  <2>1. /\ described' = [described EXCEPT ![r.doc] = after]
        /\ intended' = [intended EXCEPT ![r.doc] = meant]
        /\ overlapped' = overlapped \cup (IF r.stale THEN {r.doc} ELSE {})
        /\ misplaced' = misplaced \cup
              (IF r.op = "put" /\ r.doc # Session /\ Position(r.read, r.path[2]) # 1 THEN {r.doc} ELSE {})
        /\ editor' = [f \in Editors |-> IF f = e THEN NoEdit ELSE
                 [editor[f] EXCEPT !.stale = @ \/ (editor[f].op # "none" /\ editor[f].doc = r.doc)]]
    BY <1>4 DEF SaveEdit
  <2>2. described' = [d \in Documents |-> IF d = r.doc THEN after ELSE described[d]]
    BY <2>1 DEF TemplatesInv
  <2>3. intended' = [d \in Documents |-> IF d = r.doc THEN meant ELSE intended[d]]
    BY <2>1 DEF TemplatesInv
  <2>4. ASSUME NEW f \in Editors
        PROVE  /\ editor'[f] = [op |-> editor'[f].op, doc |-> editor'[f].doc, path |-> editor'[f].path,
                         data |-> editor'[f].data, read |-> editor'[f].read, stale |-> editor'[f].stale]
               /\ editor'[f].op # "none" => Request(editor'[f])
               /\ editor'[f].op # "none" /\ ~editor'[f].stale =>
                   Exists(editor'[f].doc) /\ editor'[f].read = described'[editor'[f].doc]
    <3>1. CASE f = e
      <4>1. editor'[f] = NoEdit
        BY <2>1, <3>1
      <4> QED  BY <4>1 DEF NoEdit
    <3>2. CASE f # e
      <4>1. PICK stale : stale = (editor[f].stale \/ (editor[f].op # "none" /\ editor[f].doc = r.doc))
        OBVIOUS
      <4>2. editor'[f] = [editor[f] EXCEPT !.stale = stale]
        BY <2>1, <3>2, <4>1
      <4>3. editor[f] = [op |-> editor[f].op, doc |-> editor[f].doc, path |-> editor[f].path,
                         data |-> editor[f].data, read |-> editor[f].read, stale |-> editor[f].stale]
        BY DEF TemplatesInv
      <4>4. editor'[f] = [op |-> editor[f].op, doc |-> editor[f].doc, path |-> editor[f].path,
                         data |-> editor[f].data, read |-> editor[f].read, stale |-> stale]
        BY <4>2, <4>3
      <4>5. /\ editor'[f].op = editor[f].op /\ editor'[f].doc = editor[f].doc /\ editor'[f].path = editor[f].path
            /\ editor'[f].data = editor[f].data /\ editor'[f].read = editor[f].read /\ editor'[f].stale = stale
        BY <4>4
      <4>6. editor[f].op # "none" => Request(editor[f]) /\ editor[f].doc \in Documents
        BY DEF TemplatesInv, Request
      <4>7. editor'[f].op # "none" => Request(editor'[f])
        BY <4>5, <4>6 DEF Request
      <4>8. ASSUME editor[f].op # "none", ~stale
            PROVE  Exists(editor[f].doc) /\ editor[f].read = described'[editor[f].doc]
        <5>1. ~editor[f].stale /\ editor[f].doc # r.doc
          BY <4>1, <4>8
        <5>2. Exists(editor[f].doc) /\ editor[f].read = described[editor[f].doc]
          BY <4>8, <5>1 DEF TemplatesInv
        <5> QED  BY <2>2, <4>6, <4>8, <5>1, <5>2
      <4> QED  BY <4>4, <4>5, <4>7, <4>8
    <3> QED  BY <3>1, <3>2
  <2>5. editor' = [f \in Editors |-> editor'[f]]
    BY <2>1
  <2>6. ASSUME NEW d \in Documents, Good(d)'
        PROVE  IsDescription(described'[d]) /\ described'[d] = intended'[d]
    <3>1. Good(d)
      BY <2>1, <2>6 DEF Good
    <3>2. IsDescription(described[d]) /\ described[d] = intended[d]
      BY <3>1 DEF TemplatesInv
    <3>3. CASE d # r.doc
      BY <2>2, <2>3, <3>2, <3>3
    <3>4. CASE d = r.doc
      <4>1. ~r.stale /\ ~(r.op = "put" /\ r.doc # Session /\ Position(r.read, r.path[2]) # 1)
        BY <2>1, <2>6, <3>4 DEF Good
      <4>2. r.read = described[d]
        BY <1>1, <3>4, <4>1 DEF TemplatesInv
      <4>3. IsDescription(r.read)
        BY <3>2, <4>2
      <4>4. \A x : x = r => IsDescription(Edited(x)) /\ Edited(x) = Meant(x, x.read)
        BY <1>1, <1>4, <4>1, <4>3, EditMeans
      <4>5. IsDescription(after) /\ after = meant
        BY <3>2, <3>4, <4>2, <4>4
      <4> HIDE DEF after, meant
      <4> QED  BY <2>2, <2>3, <3>4, <4>5
    <3> QED  BY <3>3, <3>4
  <2>7. described' = [d \in Documents |-> described'[d]] /\ intended' = [d \in Documents |-> intended'[d]]
    BY <2>2, <2>3
  <2> QED  BY <1>2, <2>4, <2>5, <2>6, <2>7 DEF TemplatesInv
<1> QED  BY <1>3, <1>4

LEMMA NewTemplateKeeps ==
  ASSUME TemplatesAssumption, TemplatesInv, NEW t \in TemplateIds, NEW tenant \in Owners, NEW public \in BOOLEAN,
         NEW services, NEW meant, NewTemplate(t, tenant, public, services, meant),
         IsDescription(services), services = meant
  PROVE  TemplatesInv'
<1>1. /\ templates' = [templates EXCEPT ![t] = [there |-> TRUE, tenant |-> tenant, public |-> public]]
      /\ described' = [described EXCEPT ![t] = services] /\ intended' = [intended EXCEPT ![t] = meant]
      /\ UNCHANGED <<editor, overlapped, misplaced>> /\ ~templates[t].there
  BY DEF NewTemplate
<1>2. templates' \in [TemplateIds -> [there : BOOLEAN, tenant : Owners \cup {"none"}, public : BOOLEAN]]
  BY <1>1 DEF TemplatesInv
<1>3. described' = [d \in Documents |-> IF d = t THEN services ELSE described[d]]
  BY <1>1 DEF TemplatesInv, Documents
<1>4. intended' = [d \in Documents |-> IF d = t THEN meant ELSE intended[d]]
  BY <1>1 DEF TemplatesInv, Documents
<1>5. \A d \in Documents : Exists(d) => d # t \/ d = Session
  BY <1>1 DEF Exists
<1>6. \A d \in Documents : Exists(d) => d = Session \/ (d \in TemplateIds /\ templates'[d].there)
  BY <1>1 DEF Exists, TemplatesInv
<1>7. ASSUME NEW e \in Editors, editor[e].op # "none", ~editor[e].stale
      PROVE  /\ editor[e].doc = Session \/ (editor[e].doc \in TemplateIds /\ templates'[editor[e].doc].there)
             /\ editor[e].read = described'[editor[e].doc]
  <2>1. editor[e].doc \in Documents /\ Exists(editor[e].doc) /\ editor[e].read = described[editor[e].doc]
    BY <1>7 DEF TemplatesInv, Request
  <2>2. editor[e].doc # t
    BY <1>1, <2>1 DEF Exists, TemplatesAssumption
  <2> QED  BY <1>3, <1>6, <2>1, <2>2
<1>8. \A d : Good(d)' <=> Good(d)
  BY <1>1 DEF Good
<1>9. \A d \in Documents : Good(d) => IsDescription(described'[d]) /\ described'[d] = intended'[d]
  BY <1>3, <1>4 DEF TemplatesInv
<1>10. described' = [d \in Documents |-> described'[d]] /\ intended' = [d \in Documents |-> intended'[d]]
  BY <1>3, <1>4
<1> QED  BY <1>1, <1>2, <1>7, <1>8, <1>9, <1>10 DEF TemplatesInv, Exists

LEMMA DeleteTemplateKeeps ==
  ASSUME TemplatesAssumption, TemplatesInv, DeleteTemplate
  PROVE  TemplatesInv'
<1>1. PICK t \in TemplateIds :
          /\ templates' = [templates EXCEPT ![t] = NoTemplate]
          /\ described' = [described EXCEPT ![t] = Absent]
          /\ intended' = [intended EXCEPT ![t] = Absent]
          /\ overlapped' = overlapped \ {t} /\ misplaced' = misplaced \ {t}
          /\ editor' = [e \in Editors |->
                 [editor[e] EXCEPT !.stale = @ \/ (editor[e].op # "none" /\ editor[e].doc = t)]]
  BY DEF DeleteTemplate
<1>2. templates' \in [TemplateIds -> [there : BOOLEAN, tenant : Owners \cup {"none"}, public : BOOLEAN]]
  BY <1>1 DEF TemplatesInv, NoTemplate
<1>3. described' = [d \in Documents |-> IF d = t THEN Absent ELSE described[d]]
  BY <1>1 DEF TemplatesInv, Documents
<1>4. intended' = [d \in Documents |-> IF d = t THEN Absent ELSE intended[d]]
  BY <1>1 DEF TemplatesInv, Documents
<1>5. \A d \in Documents : Exists(d) /\ d # t => d = Session \/ (d \in TemplateIds /\ templates'[d].there)
  BY <1>1 DEF Exists, TemplatesInv
<1>6. ASSUME NEW f \in Editors
      PROVE  /\ editor'[f] = [op |-> editor'[f].op, doc |-> editor'[f].doc, path |-> editor'[f].path,
                         data |-> editor'[f].data, read |-> editor'[f].read, stale |-> editor'[f].stale]
             /\ editor'[f].op # "none" => Request(editor'[f])
             /\ editor'[f].op # "none" /\ ~editor'[f].stale =>
                   /\ editor'[f].doc = Session \/ (editor'[f].doc \in TemplateIds /\ templates'[editor'[f].doc].there)
                   /\ editor'[f].read = described'[editor'[f].doc]
  <2>1. PICK stale : stale = (editor[f].stale \/ (editor[f].op # "none" /\ editor[f].doc = t))
    OBVIOUS
  <2>2. editor'[f] = [editor[f] EXCEPT !.stale = stale]
    BY <1>1, <2>1
  <2>3. editor[f] = [op |-> editor[f].op, doc |-> editor[f].doc, path |-> editor[f].path,
                     data |-> editor[f].data, read |-> editor[f].read, stale |-> editor[f].stale]
    BY DEF TemplatesInv
  <2>4. editor'[f] = [op |-> editor[f].op, doc |-> editor[f].doc, path |-> editor[f].path,
                      data |-> editor[f].data, read |-> editor[f].read, stale |-> stale]
    BY <2>2, <2>3
  <2>5. /\ editor'[f].op = editor[f].op /\ editor'[f].doc = editor[f].doc /\ editor'[f].path = editor[f].path
        /\ editor'[f].data = editor[f].data /\ editor'[f].read = editor[f].read /\ editor'[f].stale = stale
    BY <2>4
  <2>6. editor[f].op # "none" => Request(editor[f]) /\ editor[f].doc \in Documents
    BY DEF TemplatesInv, Request
  <2>7. editor'[f].op # "none" => Request(editor'[f])
    BY <2>5, <2>6 DEF Request
  <2>8. ASSUME editor[f].op # "none", ~stale
        PROVE  /\ editor[f].doc = Session \/ (editor[f].doc \in TemplateIds /\ templates'[editor[f].doc].there)
               /\ editor[f].read = described'[editor[f].doc]
    <3>1. ~editor[f].stale /\ editor[f].doc # t
      BY <2>1, <2>8
    <3>2. Exists(editor[f].doc) /\ editor[f].read = described[editor[f].doc]
      BY <2>8, <3>1 DEF TemplatesInv
    <3> QED  BY <1>3, <1>5, <2>6, <2>8, <3>1, <3>2
  <2> QED  BY <2>4, <2>5, <2>7, <2>8
<1>7. editor' = [f \in Editors |-> editor'[f]]
  BY <1>1
<1>8. \A d \in Documents : Good(d)' => IsDescription(described'[d]) /\ described'[d] = intended'[d]
  BY <1>1, <1>3, <1>4 DEF TemplatesInv, Good, IsDescription
<1>9. described' = [d \in Documents |-> described'[d]] /\ intended' = [d \in Documents |-> intended'[d]]
  BY <1>3, <1>4
<1> QED  BY <1>2, <1>6, <1>7, <1>8, <1>9 DEF TemplatesInv, Exists

LEMMA CreateEnvironmentKeeps ==
  ASSUME TemplatesInv, CreateEnvironment
  PROVE  TemplatesInv'
<1>1. PICK t \in TemplateIds :
          /\ t \notin overlapped \cup misplaced
          /\ described' = [described EXCEPT ![Session] = Opened(described[t])]
          /\ intended' = [intended EXCEPT ![Session] = Opened(intended[t])]
          /\ overlapped' = overlapped \ {Session}
  BY DEF CreateEnvironment
<1>2. (\A e \in Editors : editor[e].op = "none") /\ UNCHANGED <<templates, editor, misplaced>>
  BY DEF CreateEnvironment
<1>3. IsDescription(described[t]) /\ described[t] = intended[t]
  BY <1>1 DEF TemplatesInv, Good, Documents
<1>4. IsDescription(Opened(described[t]))
  BY <1>3, EmptyIsListed DEF Opened, IsDescription
<1>5. described' = [d \in Documents |-> IF d = Session THEN Opened(described[t]) ELSE described[d]]
  BY <1>1 DEF TemplatesInv, Documents
<1>6. intended' = [d \in Documents |-> IF d = Session THEN Opened(intended[t]) ELSE intended[d]]
  BY <1>1 DEF TemplatesInv, Documents
<1>7. \A d \in Documents : Good(d)' /\ d # Session => Good(d)
  BY <1>1, <1>2 DEF Good
<1>8. \A d \in Documents : Good(d)' => IsDescription(described'[d]) /\ described'[d] = intended'[d]
  BY <1>3, <1>4, <1>5, <1>6, <1>7 DEF TemplatesInv
<1>9. described' = [d \in Documents |-> described'[d]] /\ intended' = [d \in Documents |-> intended'[d]]
  BY <1>5, <1>6
<1> QED  BY <1>2, <1>8, <1>9 DEF TemplatesInv

LEMMA TemplatesInduction ==
  ASSUME TemplatesAssumption, TemplatesInv, [TemplatesNext]_templating
  PROVE  TemplatesInv'
<1>1. CASE \E e \in Editors : BeginEdit(e) \/ SaveEdit(e)
  BY <1>1, BeginEditKeeps, SaveEditKeeps
<1>2. CASE CreateTemplate
  <2>1. PICK t \in TemplateIds, tenant \in Owners, public \in BOOLEAN,
            services \in {Absent} \cup {<<Service(id, "old")>> : id \in ServiceIds} :
            NewTemplate(t, tenant, public, services, services)
    BY <1>2 DEF CreateTemplate
  <2>2. IsDescription(services)
    <3>1. CASE \E id \in ServiceIds : services = <<Service(id, "old")>>
      <4>1. PICK x \in Items : services = <<x>>
        BY <3>1 DEF Service, Items
      <4> QED  BY <4>1 DEF IsDescription, Listed
    <3> QED  BY <2>1, <3>1 DEF IsDescription
  <2> QED  BY <2>1, <2>2, NewTemplateKeeps
<1>3. CASE CloneTemplate
  <2>1. PICK t \in TemplateIds, old \in TemplateIds, tenant \in Owners, public \in BOOLEAN :
            /\ old \notin overlapped \cup misplaced
            /\ NewTemplate(t, tenant, public, described[old], intended[old])
    BY <1>3 DEF CloneTemplate
  <2>2. IsDescription(described[old]) /\ described[old] = intended[old]
    BY <2>1 DEF TemplatesInv, Good, Documents
  <2> QED  BY <2>1, <2>2, NewTemplateKeeps
<1>4. CASE UpdateTemplate
  <2>1. PICK t \in TemplateIds, public \in BOOLEAN : templates' = [templates EXCEPT ![t].public = public]
    BY <1>4 DEF UpdateTemplate
  <2>2. UNCHANGED <<described, editor, intended, overlapped, misplaced>>
    BY <1>4 DEF UpdateTemplate
  <2>3. templates' \in [TemplateIds -> [there : BOOLEAN, tenant : Owners \cup {"none"}, public : BOOLEAN]]
    BY <2>1 DEF TemplatesInv
  <2>4. \A x \in TemplateIds : templates'[x].there = templates[x].there
    BY <2>1 DEF TemplatesInv
  <2>5. \A x : Exists(x)' <=> Exists(x)
    BY <2>4 DEF Exists
  <2>6. \A x : Good(x)' <=> Good(x)
    BY <2>2 DEF Good
  <2> QED  BY <2>2, <2>3, <2>5, <2>6 DEF TemplatesInv
<1>5. CASE UNCHANGED templating
  BY <1>5 DEF templating, TemplatesInv, Exists, Good
<1> QED  BY <1>1, <1>2, <1>3, <1>4, <1>5, DeleteTemplateKeeps, CreateEnvironmentKeeps DEF TemplatesNext

\* As long as no request saves over what another has saved since it read
\* (CoreServices reads a description in one transaction and saves it in
\* another), and no service of a template is put in place of another, each
\* description holds the services that the requests asked for one by one,
\* through clones of templates and environments created from them: for any
\* number of templates, services, tenants and requests at the same time.
THEOREM EditsAreKept ==
  ASSUME TemplatesAssumption
  PROVE  TemplatesSpec => []EditsAddUp
<1>1. TemplatesInit => TemplatesInv
  <2>1. SUFFICES ASSUME TemplatesInit PROVE TemplatesInv
    OBVIOUS
  <2>2. templates \in [TemplateIds -> [there : BOOLEAN, tenant : Owners \cup {"none"}, public : BOOLEAN]]
    BY <2>1 DEF TemplatesInit, NoTemplate
  <2>3. \A e \in Editors : editor[e] = NoEdit
    BY <2>1 DEF TemplatesInit
  <2>4. described = [d \in Documents |-> described[d]] /\ intended = described
        /\ editor = [e \in Editors |-> editor[e]] /\ \A d \in Documents : described[d] \in {Absent, <<>>}
    BY <2>1 DEF TemplatesInit
  <2>5. NoEdit.op = "none"
        /\ NoEdit = [op |-> NoEdit.op, doc |-> NoEdit.doc, path |-> NoEdit.path,
                         data |-> NoEdit.data, read |-> NoEdit.read, stale |-> NoEdit.stale]
    BY DEF NoEdit
  <2> QED  BY <2>2, <2>3, <2>4, <2>5, EmptyIsListed DEF TemplatesInv, IsDescription
<1>2. TemplatesInv => EditsAddUp
  BY DEF TemplatesInv, EditsAddUp, Good
<1>3. TemplatesInv /\ [TemplatesNext]_templating => TemplatesInv'
  BY TemplatesInduction
<1> QED  BY <1>1, <1>2, <1>3, PTL DEF TemplatesSpec
=============================================================================
