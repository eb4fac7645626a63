--------------------------- MODULE PackageCacheProofs ---------------------------
(***************************************************************************)
(* Theorems about PackageCache, for all sets of deployments, processes and *)
(* packages and all faults.  CacheSafe is inductive and about what is on   *)
(* disk; LocksInv adds who holds which lock and who waits for it.          *)
(***************************************************************************)
EXTENDS PackageCache, SequenceTheorems, TLAPS

\* Between joining the download of a package and releasing it a deployment is
\* the first in the queue.
Holders == {"opened", "locking", "checking", "downloading", "unpacking", "cleaning"}
               \cup Purging
Holding == \A d \in Deployments : pc[d] \in Holders => HoldsQueue(d)

\* Green threads are switched where they wait.
Alone ==
    \A d, e \in Deployments :
        home[d] = home[e] /\ pc[d] \in Solid /\ pc[e] \in Solid => d = e

Started == \A d \in Deployments : pc[d] # "idle" => asked[d] # {}

\* A deployment reads what it loads and what it uses.
UsersRead ==
    \A d \in Deployments : /\ target[d] # Nothing => <<d, target[d]>> \in readers
                           /\ \A p \in loaded[d] : <<d, p>> \in readers

\* Nobody of the process reads what is about to be removed.
VictimFree ==
    \A d \in Deployments :
        pc[d] \in {"purging", "removing"} => NoReaders(home[d], victim[d])

CacheInv == CacheTypeOK /\ Holding /\ Alone /\ Started /\ UsersRead /\ VictimFree

\* What was just downloaded is there while stale packages are removed.
Arrived ==
    OneProcess => \A d \in Deployments :
                     pc[d] \in {"cleaning"} \cup Purging => dir[target[d]] \in Usable

\* What is being downloaded is not in the cache.
Missing ==
    OneProcess => \A d \in Deployments :
                     pc[d] = "downloading" => dir[target[d]] \notin Usable

\* The inductive invariant.
CacheSafe == CacheInv /\ Arrived /\ UsedStaysInOneProcess /\ Missing

-----------------------------------------------------------------------------
(* Types *)

LEMMA TableType == \A d \in Deployments, p \in Packages :
    home \in [Deployments -> Processes] => Table(d, p) \in Tables
  BY DEF Table, Tables

LEMMA LockType ==
    ASSUME NEW w \in Processes, NEW k \in Kinds, NEW p \in Packages, NEW n \in Nat,
           NEW exclusive \in BOOLEAN
    PROVE  LockOf(w, <<k, p, n>>, exclusive) \in FileLocks
  BY DEF LockOf, FileLocks, Files

LEMMA ReleaseType ==
    ASSUME CacheTypeOK, Holding, NEW d \in Deployments, pc[d] \in Holders, Release(d)
    PROVE  /\ locks' \in SUBSET FileLocks
           /\ queue' \in [Tables -> Seq(Deployments)]
           /\ target' = [target EXCEPT ![d] = Nothing]
           /\ file' \in [Deployments -> Nat]
           /\ pc' = [pc EXCEPT ![d] = "idle"]
<1>1. target[d] \in Packages
  BY DEF CacheTypeOK, Holders, Purging
<1>2. Table(d, target[d]) \in Tables
  BY <1>1, TableType DEF CacheTypeOK
<1>3. queue[Table(d, target[d])] # <<>> /\ queue \in [Tables -> Seq(Deployments)]
  BY DEF CacheTypeOK, Holding, HoldsQueue, First
<1>4. Tail(queue[Table(d, target[d])]) \in Seq(Deployments)
  BY <1>2, <1>3
<1>5. QED
  BY <1>2, <1>3, <1>4 DEF Release, Unlocked, CacheTypeOK

LEMMA ReleaseKeepsType ==
    ASSUME CacheTypeOK, Holding, NEW d \in Deployments, pc[d] \in Holders \ Purging,
           todo[d] = {}, Release(d),
           UNCHANGED <<home, victim, todo, asked, shares, readers, pending, removed>>,
           loaded' \in [Deployments -> SUBSET Packages], dir' \in [Packages -> Directories]
    PROVE  CacheTypeOK'
<1>1. /\ locks' \in SUBSET FileLocks
      /\ queue' \in [Tables -> Seq(Deployments)]
      /\ target' = [target EXCEPT ![d] = Nothing]
      /\ file' \in [Deployments -> Nat]
      /\ pc' = [pc EXCEPT ![d] = "idle"]
  BY ReleaseType DEF Holders
<1>2. /\ pc' \in [Deployments -> Locations]
      /\ target' \in [Deployments -> Packages \cup {Nothing}]
  BY <1>1 DEF CacheTypeOK, Locations
<1>3. ASSUME NEW e \in Deployments
      PROVE  /\ target'[e] = Nothing <=> pc'[e] \in {"idle", "done"}
             /\ victim'[e] # Nothing <=> pc'[e] \in Purging
             /\ pc'[e] \notin Purging \cup {"cleaning"} => todo'[e] = {}
             /\ target'[e] \notin todo'[e]
  BY <1>1 DEF CacheTypeOK, Purging
<1>4. QED
  BY <1>1, <1>2, <1>3 DEF CacheTypeOK

LEMMA TypeStep ==
    ASSUME CacheTypeOK, Holding, NEW d \in Deployments,
           Ask(d) \/ AskRefused(d) \/ Load(d) \/ Finish(d)
    PROVE  CacheTypeOK'
<1> USE CacheAssumption DEF CacheTypeOK
<1>1. CASE Ask(d)
  <2>1. PICK p \in Packages :
            /\ asked' = [asked EXCEPT ![d] = @ \cup {p}]
            /\ readers' = readers \cup {<<d, p>>}
            /\ target' = [target EXCEPT ![d] = p]
            /\ file' = [file EXCEPT ![d] = removed[<<"usage", p>>]]
    BY <1>1 DEF Ask
  <2>2. removed[<<"usage", p>>] \in Nat
    BY DEF Kinds
  <2>3. pc[d] = "idle" /\ pc' = [pc EXCEPT ![d] = "opening"]
    BY <1>1 DEF Ask
  <2>4. UNCHANGED <<home, victim, todo, loaded, shares, pending, queue, locks, dir, removed>>
    BY <1>1 DEF Ask, purge
  <2>5. todo[d] = {}
    BY <2>3 DEF Purging
  <2>6. asked' \in [Deployments -> SUBSET Packages]
    BY <2>1
  <2>7. /\ readers' \in SUBSET (Deployments \X Packages)
        /\ target' \in [Deployments -> Packages \cup {Nothing}]
        /\ file' \in [Deployments -> Nat]
        /\ pc' \in [Deployments -> Locations]
    BY <2>1, <2>2, <2>3 DEF Locations, Solid
  <2>8. QED
    BY <2>1, <2>3, <2>4, <2>5, <2>6, <2>7 DEF Purging
<1>2. CASE AskRefused(d)
  <2>1. asked' \in [Deployments -> SUBSET Packages]
    BY <1>2 DEF AskRefused
  <2>2. QED
    BY <1>2, <2>1 DEF AskRefused, memory, purge
<1>3. CASE Share(d)
  <2>1. target[d] \in Packages
    BY <1>3 DEF Share
  <2>2. LockOf(home[d], UsageFile(d, target[d]), FALSE) \in FileLocks
    BY <2>1, LockType DEF UsageFile, Kinds
  <2>3. UsageFile(d, target[d]) \in Files
    BY <2>1 DEF UsageFile, Kinds, Files
  <2>4. /\ locks' = locks \cup {LockOf(home[d], UsageFile(d, target[d]), FALSE)}
        /\ shares' = shares \cup {<<d, UsageFile(d, target[d])>>}
    BY <1>3 DEF Share
  <2>5. locks' \in SUBSET FileLocks
    BY <2>2, <2>4
  <2>6. shares' \in SUBSET (Deployments \X Files)
    BY <2>3, <2>4
  <2>7. QED
    BY <1>3, <2>5, <2>6 DEF Share, memory, purge, Locations, Solid, Purging
<1>4. CASE WaitToShare(d)
  BY <1>4 DEF WaitToShare, memory, purge, Locations, Solid, Purging
<1>5. CASE ReadCached(d)
  <2>1. /\ target[d] \in Packages
        /\ loaded' = [loaded EXCEPT ![d] = @ \cup {target[d]}]
    BY <1>5 DEF ReadCached
  <2>2. loaded' \in [Deployments -> SUBSET Packages]
    BY <2>1
  <2>3. QED
    BY <1>5, <2>2 DEF ReadCached, memory, purge, Locations, Solid, Purging
<1>6. CASE ReadMissing(d)
  <2>1. target[d] \in Packages /\ Table(d, target[d]) \in Tables
    BY <1>6, TableType DEF ReadMissing
  <2>2. queue' \in [Tables -> Seq(Deployments)]
    BY <1>6, <2>1 DEF ReadMissing
  <2>3. dir' \in [Packages -> Directories]
    BY <1>6 DEF ReadMissing, Directories
  <2>4. QED
    BY <1>6, <2>2, <2>3 DEF ReadMissing, memory, purge, Locations, Solid, Purging
<1>7. CASE OpenDownload(d)
  BY <1>7 DEF OpenDownload, memory, purge, Locations, Solid, Purging, Kinds
<1>8. CASE LockDownload(d)
  <2>1. target[d] \in Packages
    BY <1>8 DEF LockDownload
  <2>2. LockOf(home[d], DownloadFile(d), TRUE) \in FileLocks
    BY <2>1, LockType DEF DownloadFile, Kinds
  <2>3. QED
    BY <1>8, <2>2 DEF LockDownload, memory, purge, Locations, Solid, Purging
<1>9. CASE WaitToLock(d)
  BY <1>9 DEF WaitToLock, memory, purge, Locations, Solid, Purging
<1>10. CASE CheckAgain(d)
  <2>1. pc[d] = "checking" /\ target[d] \in Packages
    BY <1>10 DEF CheckAgain
  <2>2. UNCHANGED <<home, victim, todo, asked, shares, readers, pending, removed>>
    BY <1>10 DEF CheckAgain, purge
  <2>3. CASE /\ loaded' = [loaded EXCEPT ![d] = @ \cup {target[d]}]
             /\ Release(d)
             /\ UNCHANGED dir
    <3>1. loaded' \in [Deployments -> SUBSET Packages]
      BY <2>1, <2>3
    <3>2. todo[d] = {} /\ dir' \in [Packages -> Directories]
      BY <2>1, <2>3 DEF Purging
    <3>3. pc[d] \in Holders \ Purging
      BY <2>1 DEF Holders, Purging
    <3>4. QED
      BY ONLY CacheTypeOK, Holding, <2>2, <2>3, <3>1, <3>2, <3>3, ReleaseKeepsType
  <2>4. CASE /\ dir' = [dir EXCEPT ![target[d]] = IF @ = "partial" THEN "absent" ELSE @]
             /\ pc' = [pc EXCEPT ![d] = "downloading"]
             /\ UNCHANGED <<target, file, loaded, queue, locks>>
    <3>1. dir' \in [Packages -> Directories]
      BY <2>1, <2>4 DEF Directories
    <3>2. QED
      BY <2>1, <2>2, <2>4, <3>1 DEF Locations, Purging
  <2>5. QED
    BY <1>10, <2>3, <2>4 DEF CheckAgain
<1>11. CASE DownloadFails(d)
  <2>1. pc[d] = "downloading" /\ Release(d)
        /\ UNCHANGED <<home, victim, todo, asked, loaded, shares, readers, pending, dir,
                       removed>>
    BY <1>11 DEF DownloadFails, purge
  <2>2. todo[d] = {} /\ pc[d] \in Holders \ Purging
    BY <2>1 DEF Purging, Holders
  <2>3. /\ dir' \in [Packages -> Directories]
        /\ loaded' \in [Deployments -> SUBSET Packages]
    BY <2>1
  <2>4. QED
    BY ONLY CacheTypeOK, Holding, <2>1, <2>2, <2>3, ReleaseKeepsType
<1>12. CASE Unpack(d)
  <2>1. dir' \in [Packages -> Directories] /\ pc' \in [Deployments -> Locations]
    BY <1>12 DEF Unpack, Directories, Locations, Solid
  <2>2. QED
    BY <1>12, <2>1 DEF Unpack, memory, purge, Purging
<1>13. CASE UnpackRefused(d)
  <2>1. pc[d] = "downloading" /\ Release(d)
        /\ UNCHANGED <<home, victim, todo, asked, loaded, shares, readers, pending, dir,
                       removed>>
    BY <1>13 DEF UnpackRefused, purge
  <2>2. todo[d] = {} /\ pc[d] \in Holders \ Purging
    BY <2>1 DEF Purging, Holders
  <2>3. /\ dir' \in [Packages -> Directories]
        /\ loaded' \in [Deployments -> SUBSET Packages]
    BY <2>1
  <2>4. QED
    BY ONLY CacheTypeOK, Holding, <2>1, <2>2, <2>3, ReleaseKeepsType
<1>14. CASE UnpackManifest(d)
  BY <1>14 DEF UnpackManifest, memory, purge, Directories
<1>15. CASE Unpacked(d)
  BY <1>15 DEF Unpacked, memory, Locations, Solid, Purging, Directories, Usable,
     Unpacks, Stale
<1>16. CASE UnpackFails(d)
  <2>1. dir' \in [Packages -> Directories]
    BY <1>16 DEF UnpackFails, Directories
  <2>2. pc[d] = "unpacking" /\ Release(d)
        /\ UNCHANGED <<home, victim, todo, asked, loaded, shares, readers, pending, removed>>
    BY <1>16 DEF UnpackFails, purge
  <2>3. todo[d] = {} /\ pc[d] \in Holders \ Purging
    BY <2>2 DEF Purging, Holders
  <2>4. QED
    BY ONLY CacheTypeOK, Holding, <2>1, <2>2, <2>3, ReleaseKeepsType DEF CacheTypeOK
<1>17. CASE SkipOwn(d)
  BY <1>17 DEF SkipOwn, Skip, memory, Locations, Solid, Purging
<1>18. CASE TryWrite(d)
  <2>1. PICK q \in todo[d] :
          /\ victim' = [victim EXCEPT ![d] = q]
          /\ \/ /\ Claim(d, q)
                /\ pending' = [pending EXCEPT ![Table(d, q)] =
                                  Tail(Append(pending[Table(d, q)], d))]
             \/ /\ pending' = [pending EXCEPT ![Table(d, q)] =
                                  Append(pending[Table(d, q)], d)]
                /\ pc' = [pc EXCEPT ![d] = "trying"]
                /\ UNCHANGED file
    BY <1>18 DEF TryWrite, Claim
  <2>2. q \in Packages /\ Table(d, q) \in Tables
    BY TableType
  <2>3. /\ Append(pending[Table(d, q)], d) \in Seq(Deployments)
        /\ Append(pending[Table(d, q)], d) # <<>>
    <3>1. pending[Table(d, q)] \in Seq(Deployments)
      BY <2>2
    <3>2. QED
      BY ONLY <3>1, d \in Deployments
  <2>4. Tail(Append(pending[Table(d, q)], d)) \in Seq(Deployments)
    BY <2>3
  <2>5. pending' \in [Tables -> Seq(Deployments)]
    BY <2>1, <2>2, <2>3, <2>4
  <2>6. removed[<<"usage", q>>] \in Nat
    BY <2>2 DEF Kinds
  <2>7. /\ victim' \in [Deployments -> Packages \cup {Nothing}]
        /\ file' \in [Deployments -> Nat]
        /\ pc' = [pc EXCEPT ![d] = pc'[d]] /\ pc'[d] \in {"purging", "trying"}
    BY <2>1, <2>2, <2>6 DEF Claim
  <2>8. /\ pc[d] = "cleaning"
        /\ UNCHANGED <<home, target, todo, asked, loaded, shares, readers, queue, locks,
                       dir, removed>>
    BY <1>18 DEF TryWrite
  <2>9. pc' \in [Deployments -> Locations]
    BY <2>7 DEF Locations, Solid
  <2>10. QED
    BY <2>1, <2>2, <2>5, <2>7, <2>8, <2>9 DEF Purging
<1>19. CASE Retry(d)
  <2>1. victim[d] \in Packages /\ Table(d, victim[d]) \in Tables
    BY <1>19, TableType DEF Retry, Purging
  <2>2. /\ pending[Table(d, victim[d])] # <<>>
        /\ pending[Table(d, victim[d])] \in Seq(Deployments)
    BY <1>19, <2>1 DEF Retry, First
  <2>3. Tail(pending[Table(d, victim[d])]) \in Seq(Deployments)
    BY <2>2
  <2>4. pending' \in [Tables -> Seq(Deployments)]
    BY <1>19, <2>3 DEF Retry
  <2>5. removed[<<"usage", victim[d]>>] \in Nat
    BY <2>1 DEF Kinds
  <2>6. /\ pc[d] = "trying" /\ pc' = [pc EXCEPT ![d] = "purging"]
        /\ victim' = [victim EXCEPT ![d] = victim[d]]
        /\ file' \in [Deployments -> Nat]
    BY <1>19, <2>5 DEF Retry, Claim
  <2>7. pc' \in [Deployments -> Locations]
    BY <2>6 DEF Locations, Solid
  <2>8. QED
    BY <1>19, <2>4, <2>6, <2>7 DEF Retry, Purging
<1>20. CASE GiveUp(d)
  BY <1>20 DEF GiveUp, Skip, memory, Locations, Solid, Purging
<1>21. CASE LockUsage(d)
  <2>1. victim[d] \in Packages
    BY <1>21 DEF LockUsage, Purging
  <2>2. LockOf(home[d], UsageFile(d, victim[d]), TRUE) \in FileLocks
    BY <2>1, LockType DEF UsageFile, Kinds
  <2>3. locks' \in SUBSET FileLocks
    BY <1>21, <2>2 DEF LockUsage
  <2>4. QED
    BY <1>21, <2>3 DEF LockUsage, memory, purge, Locations, Solid, Purging
<1>22. CASE UsedElsewhere(d)
  BY <1>22 DEF UsedElsewhere, Skip, memory, Locations, Solid, Purging
<1>23. CASE Remove(d)
  BY <1>23 DEF Remove, memory, purge, Locations, Solid, Purging, Directories
<1>24. CASE UnlinkUsage(d)
  BY <1>24 DEF UnlinkUsage, memory, purge, Locations, Solid, Purging, Kinds
<1>25. CASE UnlinkDownload(d)
  BY <1>25 DEF UnlinkDownload, Skip, memory, Locations, Solid, Purging, Kinds
<1>26. CASE EndCleanup(d)
  <2>1. target[d] \in Packages /\ loaded' = [loaded EXCEPT ![d] = @ \cup {target[d]}]
    BY <1>26 DEF EndCleanup
  <2>2. loaded' \in [Deployments -> SUBSET Packages]
    BY <2>1
  <2>3. pc[d] = "cleaning" /\ todo[d] = {} /\ Release(d)
        /\ UNCHANGED <<home, victim, todo, asked, shares, readers, pending, dir, removed>>
    BY <1>26 DEF EndCleanup, purge
  <2>4. pc[d] \in Holders \ Purging /\ dir' \in [Packages -> Directories]
    BY <2>3 DEF Purging, Holders
  <2>5. QED
    BY ONLY CacheTypeOK, Holding, <2>2, <2>3, <2>4, ReleaseKeepsType
<1>27. CASE Finish(d)
  BY <1>27 DEF Finish, purge, Locations, Purging
<1>28. QED
  BY <1>1, <1>2, <1>3, <1>4, <1>5, <1>6, <1>7, <1>8, <1>9, <1>10, <1>11, <1>12, <1>13,
     <1>14, <1>15, <1>16, <1>17, <1>18, <1>19, <1>20, <1>21, <1>22, <1>23, <1>24, <1>25,
     <1>26, <1>27 DEF Load

LEMMA TypeCrash ==
    ASSUME CacheTypeOK, NEW w \in Processes, Crash(w)
    PROVE  CacheTypeOK'
  BY DEF Crash, CacheTypeOK, Tables, Locations, Purging, FileLocks

-----------------------------------------------------------------------------
(* Safety: each step preserves the invariant, one conjunct at a time. *)

LEMMA ReleaseHolding ==
    ASSUME CacheInv, NEW d \in Deployments, pc[d] \in Holders, Release(d), UNCHANGED home
    PROVE  Holding'
<1> SUFFICES ASSUME NEW e \in Deployments, pc'[e] \in Holders
             PROVE  HoldsQueue(e)'
  BY DEF Holding
<1> USE DEF CacheInv, CacheTypeOK
<1>1. e # d
  BY DEF Release, Holders, Purging
<1>2. pc'[e] = pc[e] /\ target'[e] = target[e]
  BY <1>1 DEF Release
<1>3. /\ First(queue[Table(e, target[e])], e)
      /\ First(queue[Table(d, target[d])], d)
  BY <1>2 DEF Holding, HoldsQueue
<1>4. Table(e, target[e]) # Table(d, target[d])
  BY <1>1, <1>3 DEF First
<1>5. target[e] \in Packages /\ Table(e, target[e]) \in Tables
  BY <1>2, TableType DEF Holders, Purging
<1>6. queue'[Table(e, target[e])] = queue[Table(e, target[e])]
  BY <1>4, <1>5 DEF Release
<1>7. QED
  BY <1>2, <1>3, <1>6 DEF HoldsQueue, Table

LEMMA HoldingStep ==
    ASSUME CacheInv, NEW d \in Deployments,
           Ask(d) \/ AskRefused(d) \/ Load(d) \/ Finish(d)
    PROVE  Holding'
<1> USE DEF CacheInv, CacheTypeOK, Holding
<1>1. CASE Ask(d)
  BY <1>1 DEF Ask, purge, Holders, Purging, Solid, HoldsQueue, First, Table, Tables
<1>2. CASE AskRefused(d)
  BY <1>2 DEF AskRefused, memory, purge, Holders, Purging, Solid, HoldsQueue, First,
     Table, Tables
<1>3. CASE Share(d)
  BY <1>3 DEF Share, memory, purge, Holders, Purging, Solid, HoldsQueue, First, Table,
     Tables
<1>4. CASE WaitToShare(d)
  BY <1>4 DEF WaitToShare, memory, purge, Holders, Purging, Solid, HoldsQueue, First,
     Table, Tables
<1>5. CASE ReadCached(d)
  BY <1>5 DEF ReadCached, memory, purge, Holders, Purging, Solid, HoldsQueue, First,
     Table, Tables
<1>6. CASE ReadMissing(d)
  <2>1. SUFFICES ASSUME NEW e \in Deployments, pc'[e] \in Holders
                 PROVE  HoldsQueue(e)'
    OBVIOUS
  <2>2. pc'[e] = pc[e] /\ target'[e] = target[e] /\ home' = home
    BY <1>6, <2>1 DEF ReadMissing, Holders, Purging
  <2>3. target[e] \in Packages /\ Table(e, target[e]) \in Tables
    BY <2>1, <2>2, TableType DEF Holders, Purging
  <2> DEFINE q == queue[Table(e, target[e])]
  <2>4. First(q, e) /\ q \in Seq(Deployments)
    BY <2>1, <2>2, <2>3 DEF HoldsQueue
  <2>5. queue'[Table(e, target[e])] = q \/ queue'[Table(e, target[e])] = Append(q, d)
    BY <1>6, <2>3 DEF ReadMissing
  <2>6. First(queue'[Table(e, target[e])], e)
    <3>1. q # <<>> /\ Head(q) = e
      BY <2>4 DEF First
    <3> HIDE DEF q
    <3>2. First(Append(q, d), e)
      BY ONLY <2>4, <3>1, d \in Deployments DEF First
    <3>3. QED
      BY <2>4, <2>5, <3>2
  <2>7. QED
    BY <2>2, <2>6 DEF HoldsQueue, Table
<1>7. CASE OpenDownload(d)
  BY <1>7 DEF OpenDownload, memory, purge, Holders, Purging, Solid, HoldsQueue, First,
     Table, Tables
<1>8. CASE LockDownload(d)
  BY <1>8 DEF LockDownload, memory, purge, Holders, Purging, Solid, HoldsQueue, First,
     Table, Tables
<1>9. CASE WaitToLock(d)
  BY <1>9 DEF WaitToLock, memory, purge, Holders, Purging, Solid, HoldsQueue, First,
     Table, Tables
<1>10. CASE CheckAgain(d)
  <2>1. pc[d] = "checking" /\ home' = home
    BY <1>10 DEF CheckAgain
  <2>2. CASE Release(d)
    BY <2>1, <2>2, ReleaseHolding DEF Holders
  <2>3. CASE pc' = [pc EXCEPT ![d] = "downloading"] /\ UNCHANGED <<target, queue>>
    BY <2>1, <2>3 DEF Holders, HoldsQueue, Table
  <2>4. QED
    BY <1>10, <2>2, <2>3 DEF CheckAgain
<1>11. CASE DownloadFails(d)
  BY <1>11, ReleaseHolding DEF DownloadFails, Holders
<1>12. CASE Unpack(d)
  BY <1>12 DEF Unpack, memory, purge, Holders, Purging, Solid, HoldsQueue, First, Table,
     Tables
<1>13. CASE UnpackRefused(d)
  BY <1>13, ReleaseHolding DEF UnpackRefused, Holders
<1>14. CASE UnpackManifest(d)
  BY <1>14 DEF UnpackManifest, memory, purge, Holders, Purging, Solid, HoldsQueue,
     First, Table, Tables
<1>15. CASE Unpacked(d)
  BY <1>15 DEF Unpacked, memory, Holders, Purging, Solid, HoldsQueue, First, Table,
     Tables
<1>16. CASE UnpackFails(d)
  BY <1>16, ReleaseHolding DEF UnpackFails, Holders
<1>17. CASE SkipOwn(d)
  BY <1>17 DEF SkipOwn, Skip, memory, Holders, Purging, Solid, HoldsQueue, First, Table,
     Tables
<1>18. CASE TryWrite(d)
  BY <1>18 DEF TryWrite, Claim, Holders, Purging, Solid, HoldsQueue, First, Table,
     Tables
<1>19. CASE Retry(d)
  BY <1>19 DEF Retry, Claim, Holders, Purging, Solid, HoldsQueue, First, Table, Tables
<1>20. CASE GiveUp(d)
  BY <1>20 DEF GiveUp, Skip, memory, Holders, Purging, Solid, HoldsQueue, First, Table,
     Tables
<1>21. CASE LockUsage(d)
  BY <1>21 DEF LockUsage, memory, purge, Holders, Purging, Solid, HoldsQueue, First,
     Table, Tables
<1>22. CASE UsedElsewhere(d)
  BY <1>22 DEF UsedElsewhere, Skip, memory, Holders, Purging, Solid, HoldsQueue, First,
     Table, Tables
<1>23. CASE Remove(d)
  BY <1>23 DEF Remove, memory, purge, Holders, Purging, Solid, HoldsQueue, First, Table,
     Tables
<1>24. CASE UnlinkUsage(d)
  BY <1>24 DEF UnlinkUsage, memory, purge, Holders, Purging, Solid, HoldsQueue, First,
     Table, Tables
<1>25. CASE UnlinkDownload(d)
  BY <1>25 DEF UnlinkDownload, Skip, memory, Holders, Purging, Solid, HoldsQueue, First,
     Table, Tables
<1>26. CASE EndCleanup(d)
  BY <1>26, ReleaseHolding DEF EndCleanup, Holders
<1>27. CASE Finish(d)
  BY <1>27 DEF Finish, purge, Holders, Purging, Solid, HoldsQueue, First, Table, Tables
<1>28. QED
  BY <1>1, <1>2, <1>3, <1>4, <1>5, <1>6, <1>7, <1>8, <1>9, <1>10, <1>11, <1>12, <1>13,
     <1>14, <1>15, <1>16, <1>17, <1>18, <1>19, <1>20, <1>21, <1>22, <1>23, <1>24, <1>25,
     <1>26, <1>27 DEF Load

LEMMA AloneStep ==
    ASSUME CacheInv, NEW d \in Deployments,
           Ask(d) \/ AskRefused(d) \/ Load(d) \/ Finish(d)
    PROVE  Alone'
<1> USE DEF CacheInv, CacheTypeOK, Alone
<1>1. CASE Ask(d)
  BY <1>1 DEF Ask, purge, Solid, MayRun
<1>2. CASE AskRefused(d)
  BY <1>2 DEF AskRefused, memory, purge, Solid, MayRun
<1>3. CASE Share(d)
  BY <1>3 DEF Share, memory, purge, Solid, MayRun
<1>4. CASE WaitToShare(d)
  BY <1>4 DEF WaitToShare, memory, purge, Solid, MayRun
<1>5. CASE ReadCached(d)
  BY <1>5 DEF ReadCached, memory, purge, Solid, MayRun
<1>6. CASE ReadMissing(d)
  BY <1>6 DEF ReadMissing, purge, Solid, MayRun
<1>7. CASE OpenDownload(d)
  BY <1>7 DEF OpenDownload, memory, purge, Solid, MayRun
<1>8. CASE LockDownload(d)
  BY <1>8 DEF LockDownload, memory, purge, Solid, MayRun
<1>9. CASE WaitToLock(d)
  BY <1>9 DEF WaitToLock, memory, purge, Solid, MayRun
<1>10. CASE CheckAgain(d)
  <2>1. pc[d] = "checking" /\ home' = home
        /\ (pc' = [pc EXCEPT ![d] = "idle"] \/ pc' = [pc EXCEPT ![d] = "downloading"])
    BY <1>10 DEF CheckAgain, Release
  <2>2. \A e \in Deployments : pc'[e] \in Solid => pc[e] \in Solid
    BY <2>1 DEF Solid
  <2>3. QED
    BY <2>1, <2>2
<1>11. CASE DownloadFails(d)
  BY <1>11 DEF DownloadFails, Release, purge, Solid, MayRun
<1>12. CASE Unpack(d)
  BY <1>12 DEF Unpack, memory, purge, Solid, MayRun
<1>13. CASE UnpackRefused(d)
  BY <1>13 DEF UnpackRefused, Release, purge, Solid, MayRun
<1>14. CASE UnpackManifest(d)
  BY <1>14 DEF UnpackManifest, memory, purge, Solid, MayRun
<1>15. CASE Unpacked(d)
  BY <1>15 DEF Unpacked, memory, Solid, MayRun
<1>16. CASE UnpackFails(d)
  BY <1>16 DEF UnpackFails, Release, purge, Solid, MayRun
<1>17. CASE SkipOwn(d)
  BY <1>17 DEF SkipOwn, Skip, memory, Solid, MayRun
<1>18. CASE TryWrite(d)
  <2>1. pc[d] = "cleaning" /\ home' = home
        /\ (pc' = [pc EXCEPT ![d] = "purging"] \/ pc' = [pc EXCEPT ![d] = "trying"])
    BY <1>18 DEF TryWrite, Claim
  <2>2. \A e \in Deployments : pc'[e] \in Solid => pc[e] \in Solid
    BY <2>1 DEF Solid
  <2>3. QED
    BY <2>1, <2>2
<1>19. CASE Retry(d)
  BY <1>19 DEF Retry, Claim, Solid, MayRun
<1>20. CASE GiveUp(d)
  BY <1>20 DEF GiveUp, Skip, memory, Solid, MayRun
<1>21. CASE LockUsage(d)
  BY <1>21 DEF LockUsage, memory, purge, Solid, MayRun
<1>22. CASE UsedElsewhere(d)
  BY <1>22 DEF UsedElsewhere, Skip, memory, Solid, MayRun
<1>23. CASE Remove(d)
  BY <1>23 DEF Remove, memory, purge, Solid, MayRun
<1>24. CASE UnlinkUsage(d)
  BY <1>24 DEF UnlinkUsage, memory, purge, Solid, MayRun
<1>25. CASE UnlinkDownload(d)
  BY <1>25 DEF UnlinkDownload, Skip, memory, Solid, MayRun
<1>26. CASE EndCleanup(d)
  BY <1>26 DEF EndCleanup, Release, purge, Solid, MayRun
<1>27. CASE Finish(d)
  BY <1>27 DEF Finish, purge, Solid, MayRun
<1>28. QED
  BY <1>1, <1>2, <1>3, <1>4, <1>5, <1>6, <1>7, <1>8, <1>9, <1>10, <1>11, <1>12, <1>13,
     <1>14, <1>15, <1>16, <1>17, <1>18, <1>19, <1>20, <1>21, <1>22, <1>23, <1>24, <1>25,
     <1>26, <1>27 DEF Load

LEMMA StartedStep ==
    ASSUME CacheInv, NEW d \in Deployments,
           Ask(d) \/ AskRefused(d) \/ Load(d) \/ Finish(d)
    PROVE  Started'
<1> USE DEF CacheInv, CacheTypeOK, Started
<1>1. CASE Ask(d)
  BY <1>1 DEF Ask, purge, Solid
<1>2. CASE AskRefused(d)
  BY <1>2 DEF AskRefused, memory, purge, Solid
<1>3. CASE Share(d)
  BY <1>3 DEF Share, memory, purge, Solid
<1>4. CASE WaitToShare(d)
  BY <1>4 DEF WaitToShare, memory, purge, Solid
<1>5. CASE ReadCached(d)
  BY <1>5 DEF ReadCached, memory, purge, Solid
<1>6. CASE ReadMissing(d)
  BY <1>6 DEF ReadMissing, purge, Solid
<1>7. CASE OpenDownload(d)
  BY <1>7 DEF OpenDownload, memory, purge, Solid
<1>8. CASE LockDownload(d)
  BY <1>8 DEF LockDownload, memory, purge, Solid
<1>9. CASE WaitToLock(d)
  BY <1>9 DEF WaitToLock, memory, purge, Solid
<1>10. CASE CheckAgain(d)
  BY <1>10 DEF CheckAgain, Release, purge, Solid
<1>11. CASE DownloadFails(d)
  BY <1>11 DEF DownloadFails, Release, purge, Solid
<1>12. CASE Unpack(d)
  BY <1>12 DEF Unpack, memory, purge, Solid
<1>13. CASE UnpackRefused(d)
  BY <1>13 DEF UnpackRefused, Release, purge, Solid
<1>14. CASE UnpackManifest(d)
  BY <1>14 DEF UnpackManifest, memory, purge, Solid
<1>15. CASE Unpacked(d)
  BY <1>15 DEF Unpacked, memory, Solid
<1>16. CASE UnpackFails(d)
  BY <1>16 DEF UnpackFails, Release, purge, Solid
<1>17. CASE SkipOwn(d)
  BY <1>17 DEF SkipOwn, Skip, memory, Solid
<1>18. CASE TryWrite(d)
  BY <1>18 DEF TryWrite, Claim, Solid
<1>19. CASE Retry(d)
  BY <1>19 DEF Retry, Claim, Solid
<1>20. CASE GiveUp(d)
  BY <1>20 DEF GiveUp, Skip, memory, Solid
<1>21. CASE LockUsage(d)
  BY <1>21 DEF LockUsage, memory, purge, Solid
<1>22. CASE UsedElsewhere(d)
  BY <1>22 DEF UsedElsewhere, Skip, memory, Solid
<1>23. CASE Remove(d)
  BY <1>23 DEF Remove, memory, purge, Solid
<1>24. CASE UnlinkUsage(d)
  BY <1>24 DEF UnlinkUsage, memory, purge, Solid
<1>25. CASE UnlinkDownload(d)
  BY <1>25 DEF UnlinkDownload, Skip, memory, Solid
<1>26. CASE EndCleanup(d)
  BY <1>26 DEF EndCleanup, Release, purge, Solid
<1>27. CASE Finish(d)
  BY <1>27 DEF Finish, purge, Solid
<1>28. QED
  BY <1>1, <1>2, <1>3, <1>4, <1>5, <1>6, <1>7, <1>8, <1>9, <1>10, <1>11, <1>12, <1>13,
     <1>14, <1>15, <1>16, <1>17, <1>18, <1>19, <1>20, <1>21, <1>22, <1>23, <1>24, <1>25,
     <1>26, <1>27 DEF Load

LEMMA UsersReadStep ==
    ASSUME CacheInv, NEW d \in Deployments,
           Ask(d) \/ AskRefused(d) \/ Load(d) \/ Finish(d)
    PROVE  UsersRead'
<1> USE DEF CacheInv, CacheTypeOK, UsersRead
<1>1. CASE Ask(d)
  <2>1. PICK p \in Packages : /\ readers' = readers \cup {<<d, p>>}
                              /\ target' = [target EXCEPT ![d] = p]
    BY <1>1 DEF Ask
  <2>2. UNCHANGED loaded
    BY <1>1 DEF Ask
  <2>3. QED
    BY <2>1, <2>2
<1>2. CASE AskRefused(d)
  BY <1>2 DEF AskRefused, memory, purge, Solid
<1>3. CASE Share(d)
  BY <1>3 DEF Share, memory, purge, Solid
<1>4. CASE WaitToShare(d)
  BY <1>4 DEF WaitToShare, memory, purge, Solid
<1>5. CASE ReadCached(d)
  BY <1>5 DEF ReadCached, memory, purge, Solid
<1>6. CASE ReadMissing(d)
  BY <1>6 DEF ReadMissing, purge, Solid
<1>7. CASE OpenDownload(d)
  BY <1>7 DEF OpenDownload, memory, purge, Solid
<1>8. CASE LockDownload(d)
  BY <1>8 DEF LockDownload, memory, purge, Solid
<1>9. CASE WaitToLock(d)
  BY <1>9 DEF WaitToLock, memory, purge, Solid
<1>10. CASE CheckAgain(d)
  <2>1. target[d] # Nothing /\ UNCHANGED readers
    BY <1>10 DEF CheckAgain
  <2>2. CASE /\ loaded' = [loaded EXCEPT ![d] = @ \cup {target[d]}]
             /\ target' = [target EXCEPT ![d] = Nothing]
    BY <2>1, <2>2
  <2>3. CASE UNCHANGED <<loaded, target>>
    BY <2>1, <2>3
  <2>4. QED
    BY <1>10, <2>2, <2>3 DEF CheckAgain, Release
<1>11. CASE DownloadFails(d)
  BY <1>11 DEF DownloadFails, Release, purge, Solid
<1>12. CASE Unpack(d)
  BY <1>12 DEF Unpack, memory, purge, Solid
<1>13. CASE UnpackRefused(d)
  BY <1>13 DEF UnpackRefused, Release, purge, Solid
<1>14. CASE UnpackManifest(d)
  BY <1>14 DEF UnpackManifest, memory, purge, Solid
<1>15. CASE Unpacked(d)
  BY <1>15 DEF Unpacked, memory, Solid
<1>16. CASE UnpackFails(d)
  BY <1>16 DEF UnpackFails, Release, purge, Solid
<1>17. CASE SkipOwn(d)
  BY <1>17 DEF SkipOwn, Skip, memory, Solid
<1>18. CASE TryWrite(d)
  BY <1>18 DEF TryWrite, Claim, Solid
<1>19. CASE Retry(d)
  BY <1>19 DEF Retry, Claim, Solid
<1>20. CASE GiveUp(d)
  BY <1>20 DEF GiveUp, Skip, memory, Solid
<1>21. CASE LockUsage(d)
  BY <1>21 DEF LockUsage, memory, purge, Solid
<1>22. CASE UsedElsewhere(d)
  BY <1>22 DEF UsedElsewhere, Skip, memory, Solid
<1>23. CASE Remove(d)
  BY <1>23 DEF Remove, memory, purge, Solid
<1>24. CASE UnlinkUsage(d)
  BY <1>24 DEF UnlinkUsage, memory, purge, Solid
<1>25. CASE UnlinkDownload(d)
  BY <1>25 DEF UnlinkDownload, Skip, memory, Solid
<1>26. CASE EndCleanup(d)
  BY <1>26 DEF EndCleanup, Release, purge, Solid
<1>27. CASE Finish(d)
  BY <1>27 DEF Finish, purge, Solid
<1>28. QED
  BY <1>1, <1>2, <1>3, <1>4, <1>5, <1>6, <1>7, <1>8, <1>9, <1>10, <1>11, <1>12, <1>13,
     <1>14, <1>15, <1>16, <1>17, <1>18, <1>19, <1>20, <1>21, <1>22, <1>23, <1>24, <1>25,
     <1>26, <1>27 DEF Load

LEMMA VictimFreeStep ==
    ASSUME CacheInv, NEW d \in Deployments,
           Ask(d) \/ AskRefused(d) \/ Load(d) \/ Finish(d)
    PROVE  VictimFree'
<1> USE DEF CacheInv, CacheTypeOK, VictimFree
<1>1. CASE Ask(d)
  BY <1>1 DEF Ask, purge, Solid, MayRun, NoReaders
<1>2. CASE AskRefused(d)
  BY <1>2 DEF AskRefused, memory, purge, Solid, MayRun, NoReaders
<1>3. CASE Share(d)
  BY <1>3 DEF Share, memory, purge, Solid, MayRun, NoReaders
<1>4. CASE WaitToShare(d)
  BY <1>4 DEF WaitToShare, memory, purge, Solid, MayRun, NoReaders
<1>5. CASE ReadCached(d)
  BY <1>5 DEF ReadCached, memory, purge, Solid, MayRun, NoReaders
<1>6. CASE ReadMissing(d)
  BY <1>6 DEF ReadMissing, purge, Solid, MayRun, NoReaders
<1>7. CASE OpenDownload(d)
  BY <1>7 DEF OpenDownload, memory, purge, Solid, MayRun, NoReaders
<1>8. CASE LockDownload(d)
  BY <1>8 DEF LockDownload, memory, purge, Solid, MayRun, NoReaders
<1>9. CASE WaitToLock(d)
  BY <1>9 DEF WaitToLock, memory, purge, Solid, MayRun, NoReaders
<1>10. CASE CheckAgain(d)
  <2>1. UNCHANGED <<home, victim, readers>>
        /\ (pc' = [pc EXCEPT ![d] = "idle"] \/ pc' = [pc EXCEPT ![d] = "downloading"])
    BY <1>10 DEF CheckAgain, purge, Release
  <2>2. QED
    BY <2>1 DEF NoReaders
<1>11. CASE DownloadFails(d)
  BY <1>11 DEF DownloadFails, Release, purge, Solid, MayRun, NoReaders
<1>12. CASE Unpack(d)
  BY <1>12 DEF Unpack, memory, purge, Solid, MayRun, NoReaders
<1>13. CASE UnpackRefused(d)
  BY <1>13 DEF UnpackRefused, Release, purge, Solid, MayRun, NoReaders
<1>14. CASE UnpackManifest(d)
  BY <1>14 DEF UnpackManifest, memory, purge, Solid, MayRun, NoReaders
<1>15. CASE Unpacked(d)
  BY <1>15 DEF Unpacked, memory, Solid, MayRun, NoReaders
<1>16. CASE UnpackFails(d)
  BY <1>16 DEF UnpackFails, Release, purge, Solid, MayRun, NoReaders
<1>17. CASE SkipOwn(d)
  BY <1>17 DEF SkipOwn, Skip, memory, Solid, MayRun, NoReaders
<1>18. CASE TryWrite(d)
  <2>1. PICK q \in todo[d] :
            /\ victim' = [victim EXCEPT ![d] = q]
            /\ \/ NoReaders(home[d], q) /\ pc' = [pc EXCEPT ![d] = "purging"]
               \/ pc' = [pc EXCEPT ![d] = "trying"]
    BY <1>18 DEF TryWrite, Claim
  <2>2. UNCHANGED <<home, readers>>
    BY <1>18 DEF TryWrite
  <2>3. QED
    BY <2>1, <2>2 DEF NoReaders
<1>19. CASE Retry(d)
  BY <1>19 DEF Retry, Claim, Solid, MayRun, NoReaders
<1>20. CASE GiveUp(d)
  BY <1>20 DEF GiveUp, Skip, memory, Solid, MayRun, NoReaders
<1>21. CASE LockUsage(d)
  BY <1>21 DEF LockUsage, memory, purge, Solid, MayRun, NoReaders
<1>22. CASE UsedElsewhere(d)
  BY <1>22 DEF UsedElsewhere, Skip, memory, Solid, MayRun, NoReaders
<1>23. CASE Remove(d)
  BY <1>23 DEF Remove, memory, purge, Solid, MayRun, NoReaders
<1>24. CASE UnlinkUsage(d)
  BY <1>24 DEF UnlinkUsage, memory, purge, Solid, MayRun, NoReaders
<1>25. CASE UnlinkDownload(d)
  BY <1>25 DEF UnlinkDownload, Skip, memory, Solid, MayRun, NoReaders
<1>26. CASE EndCleanup(d)
  BY <1>26 DEF EndCleanup, Release, purge, Solid, MayRun, NoReaders
<1>27. CASE Finish(d)
  BY <1>27 DEF Finish, purge, Solid, MayRun, NoReaders
<1>28. QED
  BY <1>1, <1>2, <1>3, <1>4, <1>5, <1>6, <1>7, <1>8, <1>9, <1>10, <1>11, <1>12, <1>13,
     <1>14, <1>15, <1>16, <1>17, <1>18, <1>19, <1>20, <1>21, <1>22, <1>23, <1>24, <1>25,
     <1>26, <1>27 DEF Load

LEMMA UsedStaysStep ==
    ASSUME CacheInv, Arrived, UsedStaysInOneProcess, NEW d \in Deployments,
           Ask(d) \/ AskRefused(d) \/ Load(d) \/ Finish(d)
    PROVE  UsedStaysInOneProcess'
<1> USE DEF CacheInv, CacheTypeOK, UsedStaysInOneProcess
<1>1. CASE Ask(d)
  BY <1>1 DEF Ask, purge, Arrived, UsedStays, OneProcess, Usable, Unpacks
<1>2. CASE AskRefused(d)
  BY <1>2 DEF AskRefused, memory, purge, Arrived, UsedStays, OneProcess, Usable, Unpacks
<1>3. CASE Share(d)
  BY <1>3 DEF Share, memory, purge, Arrived, UsedStays, OneProcess, Usable, Unpacks
<1>4. CASE WaitToShare(d)
  BY <1>4 DEF WaitToShare, memory, purge, Arrived, UsedStays, OneProcess, Usable,
     Unpacks
<1>5. CASE ReadCached(d)
  BY <1>5 DEF ReadCached, memory, purge, Arrived, UsedStays, OneProcess, Usable, Unpacks
<1>6. CASE ReadMissing(d)
  BY <1>6 DEF ReadMissing, purge, Arrived, UsedStays, OneProcess, Usable, Unpacks
<1>7. CASE OpenDownload(d)
  BY <1>7 DEF OpenDownload, memory, purge, Arrived, UsedStays, OneProcess, Usable,
     Unpacks
<1>8. CASE LockDownload(d)
  BY <1>8 DEF LockDownload, memory, purge, Arrived, UsedStays, OneProcess, Usable,
     Unpacks
<1>9. CASE WaitToLock(d)
  BY <1>9 DEF WaitToLock, memory, purge, Arrived, UsedStays, OneProcess, Usable, Unpacks
<1>10. CASE CheckAgain(d)
  <2>1. target[d] \in Packages /\ home' = home
    BY <1>10 DEF CheckAgain
  <2>2. CASE /\ dir[target[d]] \in Usable /\ dir' = dir
             /\ loaded' = [loaded EXCEPT ![d] = @ \cup {target[d]}]
    BY <2>1, <2>2 DEF UsedStays, OneProcess
  <2>3. CASE /\ dir[target[d]] \notin Usable /\ loaded' = loaded
             /\ dir' = [dir EXCEPT ![target[d]] = IF @ = "partial" THEN "absent" ELSE @]
    BY <2>1, <2>3 DEF UsedStays, OneProcess
  <2>4. QED
    BY <1>10, <2>2, <2>3 DEF CheckAgain, ArrivedMeanwhile
<1>11. CASE DownloadFails(d)
  BY <1>11 DEF DownloadFails, Release, purge, Arrived, UsedStays, OneProcess, Usable,
     Unpacks
<1>12. CASE Unpack(d)
  BY <1>12 DEF Unpack, memory, purge, Arrived, UsedStays, OneProcess, Usable, Unpacks
<1>13. CASE UnpackRefused(d)
  BY <1>13 DEF UnpackRefused, Release, purge, Arrived, UsedStays, OneProcess, Usable,
     Unpacks
<1>14. CASE UnpackManifest(d)
  BY <1>14 DEF UnpackManifest, memory, purge, Arrived, UsedStays, OneProcess, Usable,
     Unpacks
<1>15. CASE Unpacked(d)
  BY <1>15 DEF Unpacked, memory, Arrived, UsedStays, OneProcess, Usable, Unpacks
<1>16. CASE UnpackFails(d)
  BY <1>16 DEF UnpackFails, Release, purge, Arrived, UsedStays, OneProcess, Usable,
     Unpacks
<1>17. CASE SkipOwn(d)
  BY <1>17 DEF SkipOwn, Skip, memory, Arrived, UsedStays, OneProcess, Usable, Unpacks
<1>18. CASE TryWrite(d)
  BY <1>18 DEF TryWrite, Claim, Arrived, UsedStays, OneProcess, Usable, Unpacks
<1>19. CASE Retry(d)
  BY <1>19 DEF Retry, Claim, Arrived, UsedStays, OneProcess, Usable, Unpacks
<1>20. CASE GiveUp(d)
  BY <1>20 DEF GiveUp, Skip, memory, Arrived, UsedStays, OneProcess, Usable, Unpacks
<1>21. CASE LockUsage(d)
  BY <1>21 DEF LockUsage, memory, purge, Arrived, UsedStays, OneProcess, Usable, Unpacks
<1>22. CASE UsedElsewhere(d)
  BY <1>22 DEF UsedElsewhere, Skip, memory, Arrived, UsedStays, OneProcess, Usable,
     Unpacks
<1>23. CASE Remove(d)
  <2>1. /\ UNCHANGED <<home, loaded>>
        /\ dir' = [dir EXCEPT ![victim[d]] = "absent"]
    BY <1>23 DEF Remove
  <2>2. NoReaders(home[d], victim[d])
    BY <1>23 DEF Remove, VictimFree
  <2>3. ASSUME OneProcess, NEW e \in Deployments, NEW p \in loaded[e]
        PROVE  p # victim[d]
    BY <2>2, <2>3 DEF NoReaders, UsersRead, OneProcess
  <2>4. QED
    BY <2>1, <2>3 DEF OneProcess, UsedStays
<1>24. CASE UnlinkUsage(d)
  BY <1>24 DEF UnlinkUsage, memory, purge, Arrived, UsedStays, OneProcess, Usable,
     Unpacks
<1>25. CASE UnlinkDownload(d)
  BY <1>25 DEF UnlinkDownload, Skip, memory, Arrived, UsedStays, OneProcess, Usable,
     Unpacks
<1>26. CASE EndCleanup(d)
  BY <1>26 DEF EndCleanup, Release, purge, Arrived, UsedStays, OneProcess, Usable,
     Unpacks
<1>27. CASE Finish(d)
  BY <1>27 DEF Finish, purge, Arrived, UsedStays, OneProcess, Usable, Unpacks
<1>28. QED
  BY <1>1, <1>2, <1>3, <1>4, <1>5, <1>6, <1>7, <1>8, <1>9, <1>10, <1>11, <1>12, <1>13,
     <1>14, <1>15, <1>16, <1>17, <1>18, <1>19, <1>20, <1>21, <1>22, <1>23, <1>24, <1>25,
     <1>26, <1>27 DEF Load

LEMMA ArrivedStep ==
    ASSUME CacheInv, Arrived, NEW d \in Deployments,
           Ask(d) \/ AskRefused(d) \/ Load(d) \/ Finish(d)
    PROVE  Arrived'
<1> USE DEF CacheInv, CacheTypeOK, Arrived
<1>1. CASE Ask(d)
  BY <1>1 DEF Ask, purge, OneProcess, Usable, Unpacks, Purging
<1>2. CASE AskRefused(d)
  BY <1>2 DEF AskRefused, memory, purge, OneProcess, Usable, Unpacks, Purging
<1>3. CASE Share(d)
  BY <1>3 DEF Share, memory, purge, OneProcess, Usable, Unpacks, Purging
<1>4. CASE WaitToShare(d)
  BY <1>4 DEF WaitToShare, memory, purge, OneProcess, Usable, Unpacks, Purging
<1>5. CASE ReadCached(d)
  BY <1>5 DEF ReadCached, memory, purge, OneProcess, Usable, Unpacks, Purging
<1>6. CASE ReadMissing(d)
  BY <1>6 DEF ReadMissing, purge, OneProcess, Usable, Unpacks, Purging
<1>7. CASE OpenDownload(d)
  BY <1>7 DEF OpenDownload, memory, purge, OneProcess, Usable, Unpacks, Purging
<1>8. CASE LockDownload(d)
  BY <1>8 DEF LockDownload, memory, purge, OneProcess, Usable, Unpacks, Purging
<1>9. CASE WaitToLock(d)
  BY <1>9 DEF WaitToLock, memory, purge, OneProcess, Usable, Unpacks, Purging
<1>10. CASE CheckAgain(d)
  <2>1. target[d] \in Packages /\ UNCHANGED home /\ pc[d] = "checking"
    BY <1>10 DEF CheckAgain
  <2>2. CASE /\ dir' = dir /\ pc' = [pc EXCEPT ![d] = "idle"]
             /\ target' = [target EXCEPT ![d] = Nothing]
    BY <2>1, <2>2 DEF OneProcess, Purging
  <2>3. CASE /\ dir[target[d]] \notin Usable /\ target' = target
             /\ pc' = [pc EXCEPT ![d] = "downloading"]
             /\ dir' = [dir EXCEPT ![target[d]] = IF @ = "partial" THEN "absent" ELSE @]
    BY <2>1, <2>3 DEF OneProcess, Purging
  <2>4. QED
    BY <1>10, <2>2, <2>3 DEF CheckAgain, ArrivedMeanwhile, Release
<1>11. CASE DownloadFails(d)
  BY <1>11 DEF DownloadFails, Release, purge, OneProcess, Usable, Unpacks, Purging
<1>12. CASE Unpack(d)
  BY <1>12 DEF Unpack, memory, purge, OneProcess, Usable, Unpacks, Purging
<1>13. CASE UnpackRefused(d)
  BY <1>13 DEF UnpackRefused, Release, purge, OneProcess, Usable, Unpacks, Purging
<1>14. CASE UnpackManifest(d)
  BY <1>14 DEF UnpackManifest, memory, purge, OneProcess, Usable, Unpacks, Purging
<1>15. CASE Unpacked(d)
  <2>1. target[d] \in Packages /\ UNCHANGED <<home, target>>
        /\ pc' = [pc EXCEPT ![d] = "cleaning"]
    BY <1>15 DEF Unpacked
  <2>2. PICK left \in Usable : dir' = [dir EXCEPT ![target[d]] = left]
    BY <1>15 DEF Unpacked
  <2>3. QED
    BY <2>1, <2>2 DEF OneProcess, Purging
<1>16. CASE UnpackFails(d)
  BY <1>16 DEF UnpackFails, Release, purge, OneProcess, Usable, Unpacks, Purging
<1>17. CASE SkipOwn(d)
  BY <1>17 DEF SkipOwn, Skip, memory, OneProcess, Usable, Unpacks, Purging
<1>18. CASE TryWrite(d)
  BY <1>18 DEF TryWrite, Claim, OneProcess, Usable, Unpacks, Purging
<1>19. CASE Retry(d)
  BY <1>19 DEF Retry, Claim, OneProcess, Usable, Unpacks, Purging
<1>20. CASE GiveUp(d)
  BY <1>20 DEF GiveUp, Skip, memory, OneProcess, Usable, Unpacks, Purging
<1>21. CASE LockUsage(d)
  BY <1>21 DEF LockUsage, memory, purge, OneProcess, Usable, Unpacks, Purging
<1>22. CASE UsedElsewhere(d)
  BY <1>22 DEF UsedElsewhere, Skip, memory, OneProcess, Usable, Unpacks, Purging
<1>23. CASE Remove(d)
  <2>1. /\ UNCHANGED <<home, target>>
        /\ pc' = [pc EXCEPT ![d] = "unlinking"] /\ pc[d] = "removing"
        /\ dir' = [dir EXCEPT ![victim[d]] = "absent"]
    BY <1>23 DEF Remove
  <2>2. NoReaders(home[d], victim[d])
    BY <2>1 DEF VictimFree
  <2>3. ASSUME OneProcess, NEW e \in Deployments, target[e] # Nothing
        PROVE  target[e] # victim[d]
    BY <2>2, <2>3 DEF NoReaders, UsersRead, OneProcess
  <2>4. ASSUME OneProcess, NEW e \in Deployments, pc'[e] \in {"cleaning"} \cup Purging
        PROVE  dir'[target[e]] \in Usable
    <3>1. pc[e] \in {"cleaning"} \cup Purging
      BY <2>1, <2>4 DEF Purging
    <3>2. target[e] \in Packages /\ dir[target[e]] \in Usable
      BY <2>4, <3>1 DEF Purging
    <3>3. target[e] # victim[d]
      BY <2>3, <2>4, <3>2, CacheAssumption
    <3>4. QED
      BY <2>1, <3>2, <3>3
  <2>5. QED
    BY <2>1, <2>4 DEF OneProcess
<1>24. CASE UnlinkUsage(d)
  BY <1>24 DEF UnlinkUsage, memory, purge, OneProcess, Usable, Unpacks, Purging
<1>25. CASE UnlinkDownload(d)
  BY <1>25 DEF UnlinkDownload, Skip, memory, OneProcess, Usable, Unpacks, Purging
<1>26. CASE EndCleanup(d)
  BY <1>26 DEF EndCleanup, Release, purge, OneProcess, Usable, Unpacks, Purging
<1>27. CASE Finish(d)
  BY <1>27 DEF Finish, purge, OneProcess, Usable, Unpacks, Purging
<1>28. QED
  BY <1>1, <1>2, <1>3, <1>4, <1>5, <1>6, <1>7, <1>8, <1>9, <1>10, <1>11, <1>12, <1>13,
     <1>14, <1>15, <1>16, <1>17, <1>18, <1>19, <1>20, <1>21, <1>22, <1>23, <1>24, <1>25,
     <1>26, <1>27 DEF Load

LEMMA MissingStep ==
    ASSUME CacheInv, Missing, NEW d \in Deployments,
           Ask(d) \/ AskRefused(d) \/ Load(d) \/ Finish(d)
    PROVE  Missing'
<1> USE DEF CacheInv, CacheTypeOK, Missing
<1>1. CASE Ask(d)
  BY <1>1 DEF Ask, purge, OneProcess, Usable
<1>2. CASE AskRefused(d)
  BY <1>2 DEF AskRefused, memory, purge, OneProcess, Usable
<1>3. CASE Share(d)
  BY <1>3 DEF Share, memory, purge, OneProcess, Usable
<1>4. CASE WaitToShare(d)
  BY <1>4 DEF WaitToShare, memory, purge, OneProcess, Usable
<1>5. CASE ReadCached(d)
  BY <1>5 DEF ReadCached, memory, purge, OneProcess, Usable
<1>6. CASE ReadMissing(d)
  BY <1>6 DEF ReadMissing, purge, OneProcess, Usable
<1>7. CASE OpenDownload(d)
  BY <1>7 DEF OpenDownload, memory, purge, OneProcess, Usable
<1>8. CASE LockDownload(d)
  BY <1>8 DEF LockDownload, memory, purge, OneProcess, Usable
<1>9. CASE WaitToLock(d)
  BY <1>9 DEF WaitToLock, memory, purge, OneProcess, Usable
<1>10. CASE CheckAgain(d)
  <2>1. target[d] \in Packages /\ UNCHANGED home /\ pc[d] = "checking"
    BY <1>10 DEF CheckAgain
  <2>2. CASE /\ dir' = dir /\ pc' = [pc EXCEPT ![d] = "idle"]
             /\ target' = [target EXCEPT ![d] = Nothing]
    BY <2>1, <2>2 DEF OneProcess
  <2>3. CASE /\ dir[target[d]] \notin Usable /\ target' = target
             /\ pc' = [pc EXCEPT ![d] = "downloading"]
             /\ dir' = [dir EXCEPT ![target[d]] = IF @ = "partial" THEN "absent" ELSE @]
    BY <2>1, <2>3 DEF OneProcess, Usable
  <2>4. QED
    BY <1>10, <2>2, <2>3 DEF CheckAgain, ArrivedMeanwhile, Release
<1>11. CASE DownloadFails(d)
  BY <1>11 DEF DownloadFails, Release, purge, OneProcess, Usable
<1>12. CASE Unpack(d)
  BY <1>12 DEF Unpack, memory, purge, OneProcess, Usable
<1>13. CASE UnpackRefused(d)
  BY <1>13 DEF UnpackRefused, Release, purge, OneProcess, Usable
<1>14. CASE UnpackManifest(d)
  <2>1. /\ pc[d] = "unpacking" /\ UNCHANGED pc
        /\ UNCHANGED <<home, target>>
    BY <1>14 DEF UnpackManifest
  <2>2. ASSUME OneProcess, NEW e \in Deployments, pc'[e] = "downloading"
        PROVE  target[e] # target[d] /\ target[e] \in Packages /\ pc[e] = "downloading"
    <3>1. e # d /\ pc[e] = "downloading"
      BY <2>1, <2>2
    <3>2. HoldsQueue(d) /\ HoldsQueue(e)
      BY <2>1, <3>1 DEF Holding, Holders
    <3>3. QED
      BY <2>2, <3>1, <3>2 DEF HoldsQueue, First, Table, OneProcess
  <2>3. \A p \in Packages \ {target[d]} : dir'[p] = dir[p]
    BY <1>14 DEF UnpackManifest
  <2>4. QED
    BY <2>1, <2>2, <2>3 DEF OneProcess
<1>15. CASE Unpacked(d)
  <2>1. /\ pc[d] = "unpacking" /\ pc' = [pc EXCEPT ![d] = "cleaning"]
        /\ UNCHANGED <<home, target>>
    BY <1>15 DEF Unpacked
  <2>2. ASSUME OneProcess, NEW e \in Deployments, pc'[e] = "downloading"
        PROVE  target[e] # target[d] /\ target[e] \in Packages /\ pc[e] = "downloading"
    <3>1. e # d /\ pc[e] = "downloading"
      BY <2>1, <2>2
    <3>2. HoldsQueue(d) /\ HoldsQueue(e)
      BY <2>1, <3>1 DEF Holding, Holders
    <3>3. QED
      BY <2>2, <3>1, <3>2 DEF HoldsQueue, First, Table, OneProcess
  <2>3. \A p \in Packages \ {target[d]} : dir'[p] = dir[p]
    BY <1>15 DEF Unpacked
  <2>4. QED
    BY <2>1, <2>2, <2>3 DEF OneProcess
<1>16. CASE UnpackFails(d)
  BY <1>16 DEF UnpackFails, Release, purge, OneProcess, Usable
<1>17. CASE SkipOwn(d)
  BY <1>17 DEF SkipOwn, Skip, memory, OneProcess, Usable
<1>18. CASE TryWrite(d)
  BY <1>18 DEF TryWrite, Claim, OneProcess, Usable
<1>19. CASE Retry(d)
  BY <1>19 DEF Retry, Claim, OneProcess, Usable
<1>20. CASE GiveUp(d)
  BY <1>20 DEF GiveUp, Skip, memory, OneProcess, Usable
<1>21. CASE LockUsage(d)
  BY <1>21 DEF LockUsage, memory, purge, OneProcess, Usable
<1>22. CASE UsedElsewhere(d)
  BY <1>22 DEF UsedElsewhere, Skip, memory, OneProcess, Usable
<1>23. CASE Remove(d)
  BY <1>23 DEF Remove, memory, purge, OneProcess, Usable
<1>24. CASE UnlinkUsage(d)
  BY <1>24 DEF UnlinkUsage, memory, purge, OneProcess, Usable
<1>25. CASE UnlinkDownload(d)
  BY <1>25 DEF UnlinkDownload, Skip, memory, OneProcess, Usable
<1>26. CASE EndCleanup(d)
  BY <1>26 DEF EndCleanup, Release, purge, OneProcess, Usable
<1>27. CASE Finish(d)
  BY <1>27 DEF Finish, purge, OneProcess, Usable
<1>28. QED
  BY <1>1, <1>2, <1>3, <1>4, <1>5, <1>6, <1>7, <1>8, <1>9, <1>10, <1>11, <1>12, <1>13,
     <1>14, <1>15, <1>16, <1>17, <1>18, <1>19, <1>20, <1>21, <1>22, <1>23, <1>24, <1>25,
     <1>26, <1>27 DEF Load

LEMMA CrashStep ==
    ASSUME CacheSafe, NEW w \in Processes, Crash(w)
    PROVE  CacheSafe'
<1> DEFINE lost == {d \in Deployments : home[d] = w /\ asked[d] # {} /\ pc[d] # "done"}
<1> USE DEF CacheInv, CacheSafe
<1>1. CacheTypeOK'
  BY TypeCrash
<1>2. /\ pc' = [d \in Deployments |-> IF d \in lost THEN "done" ELSE pc[d]]
      /\ target' = [d \in Deployments |-> IF d \in lost THEN Nothing ELSE target[d]]
      /\ victim' = [d \in Deployments |-> IF d \in lost THEN Nothing ELSE victim[d]]
      /\ loaded' = [d \in Deployments |-> IF d \in lost THEN {} ELSE loaded[d]]
      /\ readers' = {r \in readers : r[1] \notin lost}
      /\ queue' = [t \in Tables |-> IF t[1] = w THEN <<>> ELSE queue[t]]
      /\ UNCHANGED <<home, asked, dir>>
  BY DEF Crash
<1>3. Holding'
  <2> SUFFICES ASSUME NEW e \in Deployments, pc'[e] \in Holders
               PROVE  HoldsQueue(e)'
    BY DEF Holding
  <2>1. e \notin lost /\ pc'[e] = pc[e] /\ target'[e] = target[e]
    BY <1>2 DEF Holders, Purging
  <2>2. home[e] # w
    BY <2>1 DEF Started, Holders, Purging
  <2>3. target[e] \in Packages /\ Table(e, target[e]) \in Tables
    BY <2>1, TableType DEF CacheTypeOK, Holders, Purging
  <2>4. queue'[Table(e, target[e])] = queue[Table(e, target[e])]
    BY <1>2, <2>2, <2>3 DEF Table
  <2>5. QED
    BY <1>2, <2>1, <2>4 DEF Holding, HoldsQueue, Table
<1>4. Alone' /\ Started'
  BY <1>2 DEF Alone, Started, Solid
<1>5. UsersRead'
  BY <1>2 DEF UsersRead
<1>6. VictimFree'
  BY <1>2 DEF VictimFree, NoReaders
<1>7. Arrived' /\ UsedStaysInOneProcess' /\ Missing'
  BY <1>2 DEF Arrived, UsedStaysInOneProcess, UsedStays, Missing, OneProcess, Purging
<1>8. QED
  BY <1>1, <1>3, <1>4, <1>5, <1>6, <1>7

LEMMA CacheInitially == CacheInit => CacheSafe
<1> SUFFICES ASSUME CacheInit PROVE CacheSafe
  OBVIOUS
<1> USE DEF CacheInit
<1>1. CacheTypeOK
  BY CacheAssumption DEF CacheTypeOK, Locations, Tables, Directories, Purging
<1>2. Holding /\ Alone /\ Started /\ UsersRead /\ VictimFree
  BY DEF Holding, Holders, Purging, Alone, Solid, Started, UsersRead, VictimFree
<1>3. Arrived /\ UsedStaysInOneProcess /\ Missing
  BY DEF Arrived, Purging, UsedStaysInOneProcess, UsedStays, Missing
<1>4. QED
  BY <1>1, <1>2, <1>3 DEF CacheInv, CacheSafe

LEMMA CacheStep == CacheSafe /\ [CacheNext]_vars => CacheSafe'
<1> SUFFICES ASSUME CacheSafe, [CacheNext]_vars PROVE CacheSafe'
  OBVIOUS
<1> USE DEF CacheSafe
<1>1. ASSUME NEW d \in Deployments, Ask(d) \/ AskRefused(d) \/ Load(d) \/ Finish(d)
      PROVE  CacheSafe'
  <2>1. CacheTypeOK'
    BY <1>1, TypeStep DEF CacheInv
  <2>2. Holding' /\ Alone' /\ Started'
    BY <1>1, HoldingStep, AloneStep, StartedStep
  <2>3. UsersRead' /\ VictimFree'
    BY <1>1, UsersReadStep, VictimFreeStep
  <2>4. UsedStaysInOneProcess' /\ Arrived' /\ Missing'
    BY <1>1, UsedStaysStep, ArrivedStep, MissingStep
  <2>5. QED
    BY <2>1, <2>2, <2>3, <2>4 DEF CacheInv
<1>2. ASSUME NEW w \in Processes, Crash(w)
      PROVE  CacheSafe'
  BY <1>2, CrashStep
<1>3. CASE UNCHANGED vars
  BY <1>3 DEF vars, memory, CacheInv, CacheTypeOK, Holding, HoldsQueue, Table, Alone,
     Started, UsersRead, VictimFree, NoReaders, Arrived, UsedStaysInOneProcess,
     UsedStays, Missing, OneProcess
<1>4. QED
  BY <1>1, <1>2, <1>3 DEF CacheNext

-----------------------------------------------------------------------------
(* Who holds which lock, and who waits for it *)

\* Where a deployment is when it waits for the download lock in memory, and
\* when it has locked the file too.
Waiters == {"admitted", "queued"}
Downloaders == {"checking", "downloading", "unpacking", "cleaning"} \cup Purging

\* The queue of a download lock: each deployment in it is there once and wants
\* the package; one that waits is in it, and first if it was admitted.
InLine(s, d) == \E i \in 1 .. Len(s) : s[i] = d
QueueOf(d) == queue[Table(d, target[d])]
Queued ==
    /\ \A t \in Tables : \A i \in 1 .. Len(queue[t]) :
          /\ home[queue[t][i]] = t[1] /\ target[queue[t][i]] = t[2]
          /\ pc[queue[t][i]] \in Waiters \cup Holders
          /\ \A j \in 1 .. Len(queue[t]) : queue[t][i] = queue[t][j] => i = j
    /\ \A d \in Deployments :
          /\ pc[d] \in Waiters => InLine(QueueOf(d), d)
          /\ pc[d] = "admitted" => HoldsQueue(d)

\* What a file is locked for.
Owns(d, l) ==
    /\ home[d] = l.process
    /\ IF l.file[1] = "download" THEN target[d] = l.file[2] /\ pc[d] \in Downloaders
       ELSE IF l.exclusive
       THEN pc[d] = "removing" /\ l = LockOf(home[d], UsageFile(d, victim[d]), TRUE)
       ELSE <<d, l.file>> \in shares
Owned ==
    /\ \A l \in locks : \E d \in Deployments : Owns(d, l)
    /\ \A r \in readers : pc[r[1]] # "done"
    /\ \A s \in shares : pc[s[1]] # "done"

LocksInv == CacheSafe /\ Queued /\ Owned

-----------------------------------------------------------------------------
(* Queues *)

\* Joining a queue, and leaving it at its head.
LEMMA Joins ==
    ASSUME NEW D, NEW s \in Seq(D), NEW d \in D
    PROVE  /\ Len(Append(s, d)) = Len(s) + 1 /\ Append(s, d)[Len(s) + 1] = d
           /\ Append(s, d) \in Seq(D) /\ Append(s, d) # <<>>
           /\ \A i \in 1 .. Len(s) : Append(s, d)[i] = s[i]
           /\ \A e : InLine(Append(s, d), e) <=> InLine(s, e) \/ e = d
           /\ s = <<>> => First(Append(s, d), d)
           /\ \A e : First(s, e) => First(Append(s, d), e)
<1>1. /\ Len(Append(s, d)) = Len(s) + 1 /\ Append(s, d)[Len(s) + 1] = d /\ Len(s) \in Nat
      /\ Append(s, d) \in Seq(D) /\ Append(s, d) # <<>>
      /\ \A i \in 1 .. Len(s) : Append(s, d)[i] = s[i]
  OBVIOUS
<1>2. Head(Append(s, d)) = Append(s, d)[1] /\ (s # <<>> => Head(s) = s[1] /\ Len(s) > 0)
  BY <1>1
<1> DEFINE t == Append(s, d)
<1>3. /\ Len(t) = Len(s) + 1 /\ t[Len(s) + 1] = d /\ Len(s) \in Nat /\ t # <<>>
      /\ \A i \in 1 .. Len(s) : t[i] = s[i]
      /\ Head(t) = t[1]
  BY <1>1, <1>2
<1>s. s = <<>> => Len(s) = 0
  OBVIOUS
<1> HIDE DEF t
<1>4. \A e : InLine(t, e) <=> InLine(s, e) \/ e = d
  BY <1>3 DEF InLine
<1>5. s = <<>> => First(t, d)
  BY <1>3, <1>s DEF First
<1>6. \A e : First(s, e) => First(t, e)
  BY <1>2, <1>3 DEF First
<1> QED  BY <1>1, <1>4, <1>5, <1>6 DEF t

LEMMA Leaves ==
    ASSUME NEW D, NEW s \in Seq(D), s # <<>>
    PROVE  /\ Len(s) \in Nat \ {0} /\ Len(Tail(s)) = Len(s) - 1 /\ Head(s) = s[1]
           /\ \A i \in 1 .. Len(Tail(s)) : Tail(s)[i] = s[i + 1]
           /\ \A e : InLine(s, e) /\ e # Head(s) => InLine(Tail(s), e)
<1>1. /\ Len(s) \in Nat \ {0} /\ Len(Tail(s)) = Len(s) - 1 /\ Head(s) = s[1]
      /\ \A i \in 1 .. Len(Tail(s)) : Tail(s)[i] = s[i + 1]
  OBVIOUS
<1>2. ASSUME NEW e, InLine(s, e), e # Head(s)
      PROVE  InLine(Tail(s), e)
  <2>1. PICK i \in 1 .. Len(s) : s[i] = e
    BY <1>2 DEF InLine
  <2>2. i # 1
    BY <1>1, <1>2, <2>1
  <2>3. i - 1 \in 1 .. Len(Tail(s)) /\ (i - 1) + 1 = i
    BY <1>1, <2>1, <2>2
  <2> QED  BY <1>1, <2>1, <2>3 DEF InLine
<1> QED  BY <1>1, <1>2

\* A step that leaves the queues as they are.
LEMMA QueuesStay ==
    ASSUME CacheTypeOK, Queued, NEW d \in Deployments, UNCHANGED <<home, queue>>,
           \A e \in Deployments \ {d} : pc'[e] = pc[e] /\ target'[e] = target[e],
           \/ pc[d] \notin Waiters \cup Holders /\ pc'[d] \notin Waiters
           \/ /\ pc[d] \in Waiters \cup Holders /\ pc'[d] \in Waiters \cup Holders
              /\ target'[d] = target[d] /\ (pc'[d] \in Waiters => pc'[d] = pc[d])
    PROVE  Queued'
<1>1. ASSUME NEW t \in Tables, NEW i \in 1 .. Len(queue[t])
      PROVE  /\ home'[queue'[t][i]] = t[1] /\ target'[queue'[t][i]] = t[2]
             /\ pc'[queue'[t][i]] \in Waiters \cup Holders
             /\ \A j \in 1 .. Len(queue'[t]) : queue'[t][i] = queue'[t][j] => i = j
  <2> DEFINE e == queue[t][i]
  <2>1. /\ home[e] = t[1] /\ target[e] = t[2] /\ pc[e] \in Waiters \cup Holders
        /\ \A j \in 1 .. Len(queue[t]) : queue[t][i] = queue[t][j] => i = j
    BY DEF Queued
  <2>2. e \in Deployments
    BY DEF CacheTypeOK
  <2> HIDE DEF e
  <2>3. target'[e] = target[e] /\ pc'[e] \in Waiters \cup Holders
    BY <2>1, <2>2
  <2> QED  BY <2>1, <2>3 DEF e
<1>2. ASSUME NEW e \in Deployments, pc'[e] \in Waiters
      PROVE  InLine(QueueOf(e), e)' /\ (pc'[e] = "admitted" => HoldsQueue(e)')
  <2>1. pc'[e] = pc[e] /\ target'[e] = target[e]
    BY <1>2
  <2>2. InLine(QueueOf(e), e) /\ (pc[e] = "admitted" => HoldsQueue(e))
    BY <1>2, <2>1 DEF Queued
  <2> QED  BY <2>1, <2>2 DEF QueueOf, HoldsQueue, First, Table, InLine
<1>3. \A e \in Deployments : pc'[e] = "admitted" => pc'[e] \in Waiters
  BY DEF Waiters
<1> QED  BY <1>1, <1>2, <1>3 DEF Queued

LEMMA QueueReleased ==
    ASSUME CacheInv, Queued, NEW d \in Deployments, pc[d] \in Holders, Release(d), UNCHANGED home
    PROVE  Queued'
<1> DEFINE here == Table(d, target[d])
           s == queue[here]
<1>1. target[d] \in Packages /\ home \in [Deployments -> Processes]
  BY DEF CacheInv, CacheTypeOK, Holders, Purging
<1>2. here \in Tables /\ here = <<home[d], target[d]>>
  BY <1>1, TableType DEF Table
<1>3. s \in Seq(Deployments) /\ s # <<>> /\ Head(s) = d
  BY <1>2 DEF CacheInv, CacheTypeOK, Holding, HoldsQueue, First
<1>4. /\ Len(s) \in Nat \ {0} /\ Len(Tail(s)) = Len(s) - 1 /\ s[1] = d
      /\ \A i \in 1 .. Len(Tail(s)) : Tail(s)[i] = s[i + 1]
      /\ \A e : InLine(s, e) /\ e # d => InLine(Tail(s), e)
  <2> HIDE DEF s
  <2> QED  BY <1>3, Leaves
<1>5. /\ queue'[here] = Tail(s) /\ \A t \in Tables \ {here} : queue'[t] = queue[t]
      /\ pc'[d] = "idle" /\ \A e \in Deployments \ {d} : pc'[e] = pc[e] /\ target'[e] = target[e]
  BY <1>2, <1>3 DEF Release, CacheInv, CacheTypeOK
<1>6. \A t \in Tables : \A i \in 1 .. Len(queue[t]) :
          /\ home[queue[t][i]] = t[1] /\ target[queue[t][i]] = t[2]
          /\ pc[queue[t][i]] \in Waiters \cup Holders
          /\ queue[t][i] \in Deployments
          /\ \A j \in 1 .. Len(queue[t]) : queue[t][i] = queue[t][j] => i = j
  BY DEF Queued, CacheInv, CacheTypeOK
<1> HIDE DEF here
<1>7. ASSUME NEW t \in Tables, NEW i \in 1 .. Len(queue'[t])
      PROVE  /\ home'[queue'[t][i]] = t[1] /\ target'[queue'[t][i]] = t[2]
             /\ pc'[queue'[t][i]] \in Waiters \cup Holders
             /\ \A j \in 1 .. Len(queue'[t]) : queue'[t][i] = queue'[t][j] => i = j
  <2>1. CASE t = here
    <3>0. queue'[t] = Tail(s) /\ i \in 1 .. Len(Tail(s)) /\ queue[t] = s
      BY <1>5, <1>7, <2>1
    <3> HIDE DEF s
    <3>1. i + 1 \in 1 .. Len(s) /\ queue'[t][i] = s[i + 1] /\ 1 \in 1 .. Len(s)
      BY <1>4, <3>0
    <3>2. s[i + 1] # d
      <4>1. s[i + 1] = s[1] => i + 1 = 1
        BY <1>2, <1>6, <3>0, <3>1
      <4> QED  BY <1>4, <3>0, <4>1
    <3>3. \A j \in 1 .. Len(queue'[t]) : queue'[t][i] = queue'[t][j] => i = j
      <4> SUFFICES ASSUME NEW j \in 1 .. Len(queue'[t]), queue'[t][i] = queue'[t][j] PROVE i = j
        OBVIOUS
      <4>1. j + 1 \in 1 .. Len(s) /\ queue'[t][j] = s[j + 1]
        BY <1>4, <3>0
      <4>2. i + 1 = j + 1
        BY <1>2, <1>6, <3>0, <3>1, <4>1
      <4> QED  BY <3>0, <4>2
    <3>4. /\ home[s[i + 1]] = t[1] /\ target[s[i + 1]] = t[2] /\ s[i + 1] \in Deployments
          /\ pc[s[i + 1]] \in Waiters \cup Holders
      BY <1>2, <1>6, <3>0, <3>1
    <3> QED  BY <1>5, <3>1, <3>2, <3>3, <3>4
  <2>2. CASE t # here
    <3>1. queue'[t] = queue[t]
      BY <1>5, <2>2
    <3>2. queue[t][i] # d
      BY <1>2, <1>6, <2>2, <3>1, <1>7 DEF Tables
    <3>3. queue[t][i] \in Deployments
      BY <1>6, <1>7, <3>1
    <3> QED  BY <1>5, <1>6, <1>7, <3>1, <3>2, <3>3
  <2> QED  BY <2>1, <2>2
<1>8. ASSUME NEW e \in Deployments, pc'[e] \in Waiters
      PROVE  InLine(QueueOf(e), e)' /\ (pc'[e] = "admitted" => HoldsQueue(e)')
  <2>1. e # d /\ pc'[e] = pc[e] /\ target'[e] = target[e]
    BY <1>5, <1>8 DEF Waiters
  <2>2. Table(e, target[e]) \in Tables
    <3>1. target[e] \in Packages
      BY <1>8, <2>1 DEF CacheInv, CacheTypeOK, Waiters
    <3> QED  BY <1>1, <3>1, TableType
  <2>3. InLine(queue[Table(e, target[e])], e) /\ (pc[e] = "admitted" => First(queue[Table(e, target[e])], e))
    BY <1>8, <2>1 DEF Queued, QueueOf, HoldsQueue
  <2>4. QueueOf(e)' = queue'[Table(e, target[e])]
    BY <2>1 DEF QueueOf, Table
  <2>5. CASE Table(e, target[e]) = here
    <3>1. QueueOf(e)' = Tail(s) /\ InLine(s, e)
      BY <1>5, <2>3, <2>4, <2>5
    <3>2. pc'[e] # "admitted"
      BY <1>3, <2>1, <2>3, <2>5 DEF First
    <3>3. InLine(Tail(s), e)
      BY <1>4, <2>1, <3>1
    <3> QED  BY <3>1, <3>2, <3>3 DEF InLine
  <2>6. CASE Table(e, target[e]) # here
    <3>1. QueueOf(e)' = queue[Table(e, target[e])]
      BY <1>5, <2>2, <2>4, <2>6
    <3> QED  BY <2>1, <2>3, <3>1 DEF HoldsQueue, QueueOf, InLine, First
  <2> QED  BY <2>5, <2>6
<1>9. \A e \in Deployments : pc'[e] = "admitted" => pc'[e] \in Waiters
  BY DEF Waiters
<1> QED  BY <1>7, <1>8, <1>9 DEF Queued

LEMMA QueueJoined ==
    ASSUME CacheInv, Queued, NEW d \in Deployments, ReadMissing(d)
    PROVE  Queued'
<1> DEFINE here == Table(d, target[d])
           s == queue[here]
<1>1. target[d] \in Packages /\ home \in [Deployments -> Processes] /\ pc[d] = "reading"
  BY DEF ReadMissing, CacheInv, CacheTypeOK
<1>2. here \in Tables /\ here[1] = home[d] /\ here[2] = target[d]
  BY <1>1, TableType DEF Table
<1>3. s \in Seq(Deployments)
  BY <1>2 DEF CacheInv, CacheTypeOK
<1>4. /\ Len(Append(s, d)) = Len(s) + 1 /\ Append(s, d)[Len(s) + 1] = d
      /\ \A i \in 1 .. Len(s) : Append(s, d)[i] = s[i]
      /\ \A e : InLine(Append(s, d), e) <=> InLine(s, e) \/ e = d
      /\ s = <<>> => First(Append(s, d), d)
      /\ \A e : First(s, e) => First(Append(s, d), e)
  <2> HIDE DEF s
  <2> QED  BY <1>3, Joins
<1>5. /\ queue'[here] = Append(s, d) /\ \A t \in Tables \ {here} : queue'[t] = queue[t]
      /\ pc'[d] \in Waiters /\ (pc'[d] = "admitted" => s = <<>>)
      /\ \A e \in Deployments \ {d} : pc'[e] = pc[e]
      /\ UNCHANGED <<home, target>>
  BY <1>2 DEF ReadMissing, CacheInv, CacheTypeOK, Waiters
<1>6. \A t \in Tables : \A i \in 1 .. Len(queue[t]) :
          /\ home[queue[t][i]] = t[1] /\ target[queue[t][i]] = t[2]
          /\ pc[queue[t][i]] \in Waiters \cup Holders
          /\ queue[t][i] \in Deployments /\ queue[t][i] # d
          /\ \A j \in 1 .. Len(queue[t]) : queue[t][i] = queue[t][j] => i = j
  BY <1>1 DEF Queued, CacheInv, CacheTypeOK, Waiters, Holders, Purging
<1> HIDE DEF here
<1>7. ASSUME NEW t \in Tables, NEW i \in 1 .. Len(queue'[t])
      PROVE  /\ home'[queue'[t][i]] = t[1] /\ target'[queue'[t][i]] = t[2]
             /\ pc'[queue'[t][i]] \in Waiters \cup Holders
             /\ \A j \in 1 .. Len(queue'[t]) : queue'[t][i] = queue'[t][j] => i = j
  <2>1. CASE t = here
    <3>0. queue'[t] = Append(s, d) /\ queue[t] = s /\ Len(s) \in Nat /\ i \in 1 .. Len(Append(s, d))
      BY <1>3, <1>5, <1>7, <2>1
    <3> HIDE DEF s
    <3>1. \A k \in 1 .. Len(s) :
              /\ home[s[k]] = t[1] /\ target[s[k]] = t[2] /\ pc[s[k]] \in Waiters \cup Holders
              /\ s[k] \in Deployments /\ s[k] # d
              /\ \A j \in 1 .. Len(s) : s[k] = s[j] => k = j
      BY <1>6, <3>0
    <3>2. \A j \in 1 .. Len(Append(s, d)) : j \in 1 .. Len(s) \/ j = Len(s) + 1
      BY <1>4, <3>0
    <3>3. /\ home[Append(s, d)[i]] = t[1] /\ target[Append(s, d)[i]] = t[2]
          /\ pc'[Append(s, d)[i]] \in Waiters \cup Holders
      <4>1. CASE i \in 1 .. Len(s)
        BY <1>4, <1>5, <3>1, <4>1
      <4>2. CASE i = Len(s) + 1
        BY <1>2, <1>4, <1>5, <2>1, <4>2
      <4> QED  BY <3>0, <3>2, <4>1, <4>2
    <3>4. \A j \in 1 .. Len(Append(s, d)) : Append(s, d)[i] = Append(s, d)[j] => i = j
      BY <1>4, <3>0, <3>1, <3>2
    <3> QED  BY <1>5, <3>0, <3>3, <3>4
  <2>2. CASE t # here
    <3>1. queue'[t] = queue[t]
      BY <1>5, <2>2
    <3> QED  BY <1>5, <1>6, <1>7, <3>1
  <2> QED  BY <2>1, <2>2
<1>8. ASSUME NEW e \in Deployments, pc'[e] \in Waiters
      PROVE  InLine(QueueOf(e), e)' /\ (pc'[e] = "admitted" => HoldsQueue(e)')
  <2>1. QueueOf(e)' = queue'[Table(e, target[e])]
    BY <1>5 DEF QueueOf, Table
  <2>2. CASE e = d
    <3>1. QueueOf(e)' = Append(s, d)
      BY <1>5, <2>1, <2>2 DEF here
    <3>2. pc'[e] = "admitted" => First(Append(s, d), d)
      BY <1>4, <1>5, <2>2
    <3>3. InLine(Append(s, d), d)
      BY <1>4
    <3> QED  BY <2>2, <3>1, <3>2, <3>3 DEF InLine, HoldsQueue, QueueOf, First
  <2>3. CASE e # d
    <3>1. pc[e] = pc'[e]
      BY <1>5, <2>3
    <3>2. Table(e, target[e]) \in Tables
      <4>1. target[e] \in Packages
        BY <1>8, <3>1 DEF CacheInv, CacheTypeOK, Waiters
      <4> QED  BY <1>1, <4>1, TableType
    <3>3. InLine(queue[Table(e, target[e])], e)
          /\ (pc[e] = "admitted" => First(queue[Table(e, target[e])], e))
      BY <1>8, <3>1 DEF Queued, QueueOf, HoldsQueue
    <3>4. InLine(queue'[Table(e, target[e])], e)
          /\ (pc[e] = "admitted" => First(queue'[Table(e, target[e])], e))
      <4>1. CASE Table(e, target[e]) = here
        BY <1>4, <1>5, <3>3, <4>1
      <4>2. CASE Table(e, target[e]) # here
        BY <1>5, <3>2, <3>3, <4>2
      <4> QED  BY <4>1, <4>2
    <3> QED  BY <2>1, <3>1, <3>4 DEF InLine, HoldsQueue, QueueOf, First
  <2> QED  BY <2>2, <2>3
<1>9. \A e \in Deployments : pc'[e] = "admitted" => pc'[e] \in Waiters
  BY DEF Waiters
<1> QED  BY <1>7, <1>8, <1>9 DEF Queued

LEMMA QueuedStep ==
    ASSUME CacheInv, Queued, NEW d \in Deployments,
           Ask(d) \/ AskRefused(d) \/ Load(d) \/ Finish(d)
    PROVE  Queued'
<1>1. CASE ReadMissing(d)
  BY <1>1, QueueJoined
<1>2. CASE Release(d) /\ pc[d] \in Holders /\ UNCHANGED home
  BY <1>2, QueueReleased
<1>3. CASE /\ UNCHANGED <<home, queue>>
           /\ \A e \in Deployments \ {d} : pc'[e] = pc[e] /\ target'[e] = target[e]
           /\ \/ pc[d] \notin Waiters \cup Holders /\ pc'[d] \notin Waiters
              \/ /\ pc[d] \in Waiters \cup Holders /\ pc'[d] \in Waiters \cup Holders
                 /\ target'[d] = target[d] /\ (pc'[d] \in Waiters => pc'[d] = pc[d])
  BY <1>3, QueuesStay DEF CacheInv
<1> DEFINE Stays == /\ UNCHANGED <<home, queue>>
                    /\ \A e \in Deployments \ {d} : pc'[e] = pc[e] /\ target'[e] = target[e]
                    /\ \/ pc[d] \notin Waiters \cup Holders /\ pc'[d] \notin Waiters
                       \/ /\ pc[d] \in Waiters \cup Holders /\ pc'[d] \in Waiters \cup Holders
                          /\ target'[d] = target[d] /\ (pc'[d] \in Waiters => pc'[d] = pc[d])
           Ends == Release(d) /\ pc[d] \in Holders /\ UNCHANGED home
<1>4. CacheTypeOK
  BY DEF CacheInv
<1> USE DEF CacheTypeOK, Waiters, Holders, Purging, memory, purge
<1>5. CASE Ask(d)
  <2> Stays  BY <1>4, <1>5 DEF Ask
  <2> QED  BY <1>3
<1>6. CASE AskRefused(d)
  <2> Stays  BY <1>4, <1>6 DEF AskRefused
  <2> QED  BY <1>3
<1>7. CASE Share(d) \/ WaitToShare(d) \/ ReadCached(d)
  <2> Stays  BY <1>4, <1>7 DEF Share, WaitToShare, ReadCached
  <2> QED  BY <1>3
<1>8. CASE OpenDownload(d) \/ LockDownload(d) \/ WaitToLock(d)
  <2> Stays  BY <1>4, <1>8 DEF OpenDownload, LockDownload, WaitToLock
  <2> QED  BY <1>3
<1>9. CASE CheckAgain(d)
  <2> Stays \/ Ends  BY <1>4, <1>9 DEF CheckAgain
  <2> QED  BY <1>2, <1>3
<1>10. CASE DownloadFails(d) \/ UnpackRefused(d) \/ UnpackFails(d) \/ EndCleanup(d)
  <2> Ends  BY <1>10 DEF DownloadFails, UnpackRefused, UnpackFails, EndCleanup
  <2> QED  BY <1>2
<1>11. CASE Unpack(d) \/ UnpackManifest(d) \/ Unpacked(d)
  <2> Stays  BY <1>4, <1>11 DEF Unpack, UnpackManifest, Unpacked
  <2> QED  BY <1>3
<1>12. CASE SkipOwn(d) \/ TryWrite(d) \/ Retry(d) \/ GiveUp(d)
  <2> Stays  BY <1>4, <1>12 DEF SkipOwn, TryWrite, Retry, GiveUp, Skip, Claim
  <2> QED  BY <1>3
<1>13. CASE LockUsage(d) \/ UsedElsewhere(d) \/ Remove(d)
  <2> Stays  BY <1>4, <1>13 DEF LockUsage, UsedElsewhere, Remove, Skip
  <2> QED  BY <1>3
<1>14. CASE UnlinkUsage(d) \/ UnlinkDownload(d)
  <2> Stays  BY <1>4, <1>14 DEF UnlinkUsage, UnlinkDownload, Skip
  <2> QED  BY <1>3
<1>15. CASE Finish(d)
  <2> Stays  BY <1>4, <1>15 DEF Finish
  <2> QED  BY <1>3
<1> QED  BY <1>1, <1>5, <1>6, <1>7, <1>8, <1>9, <1>10, <1>11, <1>12, <1>13, <1>14, <1>15 DEF Load

-----------------------------------------------------------------------------
(* Locks *)

\* A step of d after which there are no other locks, readers and usages than
\* before, and d has what it locked for.
LEMMA OwnersStay ==
    ASSUME CacheTypeOK, Owned, NEW d \in Deployments, UNCHANGED home,
           locks' \subseteq locks, readers' \subseteq readers, shares' = shares,
           \A e \in Deployments \ {d} : /\ pc'[e] = pc[e] /\ target'[e] = target[e]
                                        /\ victim'[e] = victim[e] /\ file'[e] = file[e],
           pc[d] # "removing", pc'[d] # "done",
           pc[d] \in Downloaders => \/ pc'[d] \in Downloaders /\ target'[d] = target[d]
                                    \/ locks' = Unlocked(home[d], target[d])
    PROVE  Owned'
<1>1. ASSUME NEW l \in locks'
      PROVE  \E e \in Deployments : Owns(e, l)'
  <2>1. l \in locks
    BY <1>1
  <2>2. PICK e \in Deployments : Owns(e, l)
    BY <2>1 DEF Owned
  <2>3. CASE l.file[1] = "download"
    <3>1. home[e] = l.process /\ target[e] = l.file[2] /\ pc[e] \in Downloaders
      BY <2>2, <2>3 DEF Owns
    <3>2. target'[e] = target[e] /\ pc'[e] \in Downloaders
      <4>1. CASE e = d
        <5>1. locks' # Unlocked(home[d], target[d])
          BY <1>1, <2>3, <3>1, <4>1 DEF Unlocked
        <5> QED  BY <3>1, <4>1, <5>1
      <4>2. CASE e # d
        BY <3>1, <4>2
      <4> QED  BY <4>1, <4>2
    <3> QED  BY <2>3, <3>1, <3>2 DEF Owns
  <2>4. CASE l.file[1] # "download" /\ l.exclusive
    <3>1. /\ home[e] = l.process /\ pc[e] = "removing"
          /\ l = LockOf(home[e], UsageFile(e, victim[e]), TRUE)
      BY <2>2, <2>4 DEF Owns
    <3>2. e # d
      BY <3>1
    <3>3. pc'[e] = pc[e] /\ UsageFile(e, victim[e])' = UsageFile(e, victim[e])
      BY <3>2 DEF UsageFile
    <3> QED  BY <2>4, <3>1, <3>3 DEF Owns, LockOf
  <2>5. CASE l.file[1] # "download" /\ ~l.exclusive
    BY <2>2, <2>5 DEF Owns
  <2> QED  BY <2>3, <2>4, <2>5
<1>2. \A r \in readers' : pc'[r[1]] # "done"
  BY DEF Owned, CacheTypeOK
<1>3. \A s \in shares' : pc'[s[1]] # "done"
  BY DEF Owned, CacheTypeOK
<1> QED  BY <1>1, <1>2, <1>3 DEF Owned

\* A step of d that locks a file and does nothing else.
LEMMA OwnersLock ==
    ASSUME CacheTypeOK, Owned, NEW d \in Deployments, NEW lock \in FileLocks,
           UNCHANGED <<home, target, victim, file, readers>>,
           locks' = locks \cup {lock},
           \A e \in Deployments \ {d} : pc'[e] = pc[e],
           shares \subseteq shares', \A s \in shares' \ shares : s[1] = d,
           pc[d] \notin Downloaders \ {"purging"}, pc'[d] # "done",
           pc[d] = "purging" => pc'[d] = "removing",
           Owns(d, lock)'
    PROVE  Owned'
<1>1. ASSUME NEW l \in locks'
      PROVE  \E e \in Deployments : Owns(e, l)'
  <2>1. CASE l = lock
    BY <2>1
  <2>2. CASE l \in locks
    <3>2. PICK e \in Deployments : Owns(e, l)
      BY <2>2 DEF Owned
    <3>3. CASE l.file[1] = "download"
      <4>1. home[e] = l.process /\ target[e] = l.file[2] /\ pc[e] \in Downloaders
        BY <3>2, <3>3 DEF Owns
      <4>2. pc'[e] \in Downloaders
        BY <4>1 DEF Downloaders, Purging
      <4> QED  BY <3>3, <4>1, <4>2 DEF Owns
    <3>4. CASE l.file[1] # "download" /\ l.exclusive
      <4>1. /\ home[e] = l.process /\ pc[e] = "removing"
            /\ l = LockOf(home[e], UsageFile(e, victim[e]), TRUE)
        BY <3>2, <3>4 DEF Owns
      <4>2. e # d
        BY <4>1 DEF Downloaders, Purging
      <4>3. pc'[e] = pc[e] /\ UsageFile(e, victim[e])' = UsageFile(e, victim[e])
        BY <4>2 DEF UsageFile
      <4> QED  BY <3>4, <4>1, <4>3 DEF Owns, LockOf
    <3>5. CASE l.file[1] # "download" /\ ~l.exclusive
      BY <3>2, <3>5 DEF Owns
    <3> QED  BY <3>3, <3>4, <3>5
  <2> QED  BY <1>1, <2>1, <2>2
<1>2. \A r \in readers' : pc'[r[1]] # "done"
  BY DEF Owned, CacheTypeOK
<1>3. ASSUME NEW s \in shares'
      PROVE  pc'[s[1]] # "done"
  <2>1. CASE s \in shares
    BY <2>1 DEF Owned, CacheTypeOK
  <2>2. CASE s \notin shares
    BY <2>2
  <2> QED  BY <2>1, <2>2
<1> QED  BY <1>1, <1>2, <1>3 DEF Owned

LEMMA OwnedShare ==
    ASSUME CacheInv, Owned, NEW d \in Deployments, Share(d)
    PROVE  Owned'
<1> DEFINE f == UsageFile(d, target[d])
           lock == LockOf(home[d], f, FALSE)
<1>1. /\ pc[d] \in {"opening", "sharing"} /\ pc'[d] = "reading"
      /\ locks' = locks \cup {lock} /\ shares' = shares \cup {<<d, f>>}
      /\ \A e \in Deployments \ {d} : pc'[e] = pc[e]
      /\ UNCHANGED <<home, target, victim, file, readers>>
  BY DEF Share, purge, memory, CacheInv, CacheTypeOK
<1>2. target[d] \in Packages /\ file[d] \in Nat /\ home[d] \in Processes
  BY <1>1 DEF CacheInv, CacheTypeOK
<1>3. lock \in FileLocks
  BY <1>2, LockType DEF UsageFile, Kinds
<1>4. PICK l \in FileLocks : l = lock
  BY <1>3
<1>5. Owns(d, l)'
  BY <1>1, <1>2, <1>4 DEF Owns, LockOf, UsageFile
<1>6. locks' = locks \cup {l}
  BY <1>1, <1>4
<1> HIDE DEF f, lock
<1> QED  BY <1>1, <1>5, <1>6, OwnersLock DEF CacheInv, Downloaders, Purging

LEMMA OwnedLockDownload ==
    ASSUME CacheInv, Owned, NEW d \in Deployments, LockDownload(d)
    PROVE  Owned'
<1> DEFINE lock == LockOf(home[d], DownloadFile(d), TRUE)
<1>1. /\ pc[d] \in {"opened", "locking"} /\ pc'[d] = "checking"
      /\ locks' = locks \cup {lock} /\ shares' = shares
      /\ \A e \in Deployments \ {d} : pc'[e] = pc[e]
      /\ UNCHANGED <<home, target, victim, file, readers>>
  BY DEF LockDownload, purge, memory, CacheInv, CacheTypeOK
<1>2. target[d] \in Packages /\ file[d] \in Nat /\ home[d] \in Processes
  BY <1>1 DEF CacheInv, CacheTypeOK
<1>3. lock \in FileLocks
  BY <1>2, LockType DEF DownloadFile, Kinds
<1>4. PICK l \in FileLocks : l = lock
  BY <1>3
<1>5. Owns(d, l)'
  BY <1>1, <1>2, <1>4 DEF Owns, LockOf, DownloadFile, Downloaders
<1>6. locks' = locks \cup {l}
  BY <1>1, <1>4
<1> HIDE DEF lock
<1> QED  BY <1>1, <1>5, <1>6, OwnersLock DEF CacheInv, Downloaders, Purging

LEMMA OwnedLockUsage ==
    ASSUME CacheInv, Owned, NEW d \in Deployments, LockUsage(d)
    PROVE  Owned'
<1> DEFINE f == UsageFile(d, victim[d])
           lock == LockOf(home[d], f, TRUE)
<1>1. /\ pc[d] = "purging" /\ pc'[d] = "removing"
      /\ locks' = locks \cup {lock} /\ shares' = shares
      /\ \A e \in Deployments \ {d} : pc'[e] = pc[e]
      /\ UNCHANGED <<home, target, victim, file, readers>>
  BY DEF LockUsage, purge, memory, CacheInv, CacheTypeOK
<1>2. victim[d] \in Packages /\ file[d] \in Nat /\ home[d] \in Processes
  BY <1>1 DEF CacheInv, CacheTypeOK, Purging
<1>3. lock \in FileLocks
  BY <1>2, LockType DEF UsageFile, Kinds
<1>4. PICK l \in FileLocks : l = lock
  BY <1>3
<1>5. Owns(d, l)'
  BY <1>1, <1>2, <1>4 DEF Owns, LockOf, UsageFile
<1>6. locks' = locks \cup {l}
  BY <1>1, <1>4
<1> HIDE DEF f, lock
<1> QED  BY <1>1, <1>5, <1>6, OwnersLock DEF CacheInv, Downloaders, Purging

\* The lock of what was removed is given up, and it was the only one for that.
LEMMA OwnedRemove ==
    ASSUME CacheInv, Owned, NEW d \in Deployments, Remove(d)
    PROVE  Owned'
<1> DEFINE lock == LockOf(home[d], UsageFile(d, victim[d]), TRUE)
<1>1. /\ pc[d] = "removing" /\ pc'[d] = "unlinking" /\ locks' = locks \ {lock}
      /\ \A e \in Deployments \ {d} : pc'[e] = pc[e]
      /\ UNCHANGED <<home, target, victim, file, readers, shares>>
  BY DEF Remove, purge, memory, CacheInv, CacheTypeOK
<1>2. ASSUME NEW l \in locks'
      PROVE  \E e \in Deployments : Owns(e, l)'
  <2>1. l \in locks /\ l # lock
    BY <1>1, <1>2
  <2>2. PICK e \in Deployments : Owns(e, l)
    BY <2>1 DEF Owned
  <2>3. CASE l.file[1] = "download"
    BY <1>1, <2>2, <2>3 DEF Owns, Downloaders, Purging
  <2>4. CASE l.file[1] # "download" /\ l.exclusive
    <3>1. /\ home[e] = l.process /\ pc[e] = "removing"
          /\ l = LockOf(home[e], UsageFile(e, victim[e]), TRUE)
      BY <2>2, <2>4 DEF Owns
    <3>2. e # d
      BY <2>1, <3>1
    <3>3. pc'[e] = pc[e] /\ UsageFile(e, victim[e])' = UsageFile(e, victim[e])
      BY <1>1, <3>2 DEF UsageFile
    <3> QED  BY <1>1, <2>4, <3>1, <3>3 DEF Owns, LockOf
  <2>5. CASE l.file[1] # "download" /\ ~l.exclusive
    BY <1>1, <2>2, <2>5 DEF Owns
  <2> QED  BY <2>3, <2>4, <2>5
<1>3. \A r \in readers' : pc'[r[1]] # "done"
  BY <1>1 DEF Owned, CacheInv, CacheTypeOK
<1>4. \A s \in shares' : pc'[s[1]] # "done"
  BY <1>1 DEF Owned, CacheInv, CacheTypeOK
<1> QED  BY <1>2, <1>3, <1>4 DEF Owned

LEMMA OwnedFinish ==
    ASSUME CacheInv, Owned, NEW d \in Deployments, Finish(d)
    PROVE  Owned'
<1>1. /\ pc[d] = "idle" /\ \A e \in Deployments \ {d} : pc'[e] = pc[e]
      /\ readers' = {r \in readers : r[1] # d} /\ shares' = {s \in shares : s[1] # d}
      /\ locks' = {l \in locks : ~(l.process = home[d] /\ <<d, l.file>> \in shares)}
      /\ UNCHANGED <<home, target, victim, file>>
  BY DEF Finish, purge, CacheInv, CacheTypeOK
<1>2. ASSUME NEW l \in locks'
      PROVE  \E e \in Deployments : Owns(e, l)'
  <2>1. l \in locks /\ ~(l.process = home[d] /\ <<d, l.file>> \in shares)
    BY <1>1, <1>2
  <2>2. PICK e \in Deployments : Owns(e, l)
    BY <2>1 DEF Owned
  <2>3. CASE l.file[1] = "download"
    BY <1>1, <2>2, <2>3 DEF Owns, Downloaders, Purging
  <2>4. CASE l.file[1] # "download" /\ l.exclusive
    <3>1. /\ home[e] = l.process /\ pc[e] = "removing"
          /\ l = LockOf(home[e], UsageFile(e, victim[e]), TRUE)
      BY <2>2, <2>4 DEF Owns
    <3>2. e # d
      BY <1>1, <3>1
    <3>3. pc'[e] = pc[e] /\ UsageFile(e, victim[e])' = UsageFile(e, victim[e])
      BY <1>1, <3>2 DEF UsageFile
    <3> QED  BY <1>1, <2>4, <3>1, <3>3 DEF Owns, LockOf
  <2>5. CASE l.file[1] # "download" /\ ~l.exclusive
    <3>1. home[e] = l.process /\ <<e, l.file>> \in shares
      BY <2>2, <2>5 DEF Owns
    <3>2. e # d
      BY <2>1, <3>1
    <3> QED  BY <1>1, <2>5, <3>1, <3>2 DEF Owns
  <2> QED  BY <2>3, <2>4, <2>5
<1>3. \A r \in readers' : pc'[r[1]] # "done"
  BY <1>1 DEF Owned, CacheInv, CacheTypeOK
<1>4. \A s \in shares' : pc'[s[1]] # "done"
  BY <1>1 DEF Owned, CacheInv, CacheTypeOK
<1> QED  BY <1>2, <1>3, <1>4 DEF Owned

LEMMA OwnedStep ==
    ASSUME CacheInv, Owned, NEW d \in Deployments,
           Ask(d) \/ AskRefused(d) \/ Load(d) \/ Finish(d)
    PROVE  Owned'
<1>1. CASE Share(d) \/ LockDownload(d) \/ LockUsage(d)
  BY <1>1, OwnedShare, OwnedLockDownload, OwnedLockUsage
<1>2. CASE Remove(d) \/ Finish(d)
  BY <1>2, OwnedRemove, OwnedFinish
<1> DEFINE Stays ==
        /\ UNCHANGED home
        /\ locks' \subseteq locks /\ readers' \subseteq readers /\ shares' = shares
        /\ \A e \in Deployments \ {d} : /\ pc'[e] = pc[e] /\ target'[e] = target[e]
                                        /\ victim'[e] = victim[e] /\ file'[e] = file[e]
        /\ pc[d] # "removing" /\ pc'[d] # "done"
        /\ pc[d] \in Downloaders => \/ pc'[d] \in Downloaders /\ target'[d] = target[d]
                                    \/ locks' = Unlocked(home[d], target[d])
<1>3. CASE Stays
  BY <1>3, OwnersStay DEF CacheInv
<1>4. CacheTypeOK
  BY DEF CacheInv
<1> USE DEF CacheTypeOK, Downloaders, Purging, memory, purge
<1>5. CASE Ask(d)
  <2>1. PICK p \in Packages : readers' = readers \cup {<<d, p>>}
    BY <1>5 DEF Ask
  <2>2. /\ pc[d] = "idle" /\ pc'[d] = "opening" /\ UNCHANGED <<home, victim, locks, shares>>
        /\ \A e \in Deployments \ {d} : /\ pc'[e] = pc[e] /\ target'[e] = target[e]
                                        /\ file'[e] = file[e]
    BY <1>4, <1>5 DEF Ask
  <2>3. ASSUME NEW l \in locks'
        PROVE  \E e \in Deployments : Owns(e, l)'
    <3>1. PICK e \in Deployments : Owns(e, l)
      BY <2>2, <2>3 DEF Owned
    <3>2. CASE e # d
      <4>1. /\ pc'[e] = pc[e] /\ target'[e] = target[e]
            /\ UsageFile(e, victim[e])' = UsageFile(e, victim[e])
        BY <2>2, <3>2 DEF UsageFile
      <4> QED  BY <2>2, <3>1, <4>1 DEF Owns, LockOf
    <3>3. CASE e = d
      <4>1. l.file[1] # "download" /\ ~l.exclusive /\ <<d, l.file>> \in shares
        BY <2>2, <3>1, <3>3 DEF Owns
      <4> QED  BY <2>2, <3>1, <3>3, <4>1 DEF Owns
    <3> QED  BY <3>2, <3>3
  <2>4. \A r \in readers' : pc'[r[1]] # "done"
    <3> SUFFICES ASSUME NEW r \in readers' PROVE pc'[r[1]] # "done"
      OBVIOUS
    <3>1. CASE r \in readers
      BY <1>4, <2>2, <3>1 DEF Owned
    <3>2. CASE r = <<d, p>>
      BY <2>2, <3>2
    <3> QED  BY <2>1, <3>1, <3>2
  <2>5. \A s \in shares' : pc'[s[1]] # "done"
    BY <1>4, <2>2 DEF Owned
  <2> QED  BY <2>3, <2>4, <2>5 DEF Owned
<1>6. CASE AskRefused(d)
  <2>1. UNCHANGED <<home, pc, target, victim, file, shares, readers, locks>>
    BY <1>6 DEF AskRefused
  <2> QED  BY <2>1 DEF Owned, Owns, LockOf, UsageFile
<1>7. CASE WaitToShare(d) \/ ReadCached(d) \/ ReadMissing(d)
  <2>1. Stays  BY <1>4, <1>7 DEF WaitToShare, ReadCached, ReadMissing
  <2> QED  BY <1>3, <2>1
<1>8. CASE OpenDownload(d) \/ WaitToLock(d)
  <2>1. Stays  BY <1>4, <1>8 DEF OpenDownload, WaitToLock
  <2> QED  BY <1>3, <2>1
<1>9. CASE CheckAgain(d)
  <2>1. Stays  BY <1>4, <1>9 DEF CheckAgain, Release, Unlocked
  <2> QED  BY <1>3, <2>1
<1>10. CASE DownloadFails(d) \/ UnpackRefused(d) \/ UnpackFails(d) \/ EndCleanup(d)
  <2>1. Stays  BY <1>4, <1>10 DEF DownloadFails, UnpackRefused, UnpackFails, EndCleanup, Release, Unlocked
  <2> QED  BY <1>3, <2>1
<1>11. CASE Unpack(d) \/ UnpackManifest(d) \/ Unpacked(d)
  <2>1. Stays  BY <1>4, <1>11 DEF Unpack, UnpackManifest, Unpacked
  <2> QED  BY <1>3, <2>1
<1>12. CASE SkipOwn(d) \/ TryWrite(d) \/ Retry(d) \/ GiveUp(d)
  <2>1. Stays  BY <1>4, <1>12 DEF SkipOwn, TryWrite, Retry, GiveUp, Skip, Claim
  <2> QED  BY <1>3, <2>1
<1>13. CASE UsedElsewhere(d)
  <2>1. Stays  BY <1>4, <1>13 DEF UsedElsewhere, Skip
  <2> QED  BY <1>3, <2>1
<1>14. CASE UnlinkUsage(d) \/ UnlinkDownload(d)
  <2>1. Stays  BY <1>4, <1>14 DEF UnlinkUsage, UnlinkDownload, Skip
  <2> QED  BY <1>3, <2>1
<1> QED  BY <1>1, <1>2, <1>5, <1>6, <1>7, <1>8, <1>9, <1>10, <1>11, <1>12, <1>13, <1>14 DEF Load

\* A process that dies takes its locks and queues with it, and no others.
LEMMA CrashLocks ==
    ASSUME CacheInv, Queued, Owned, NEW w \in Processes, Crash(w)
    PROVE  Queued' /\ Owned'
<1> DEFINE lost == {d \in Deployments : home[d] = w /\ asked[d] # {} /\ pc[d] # "done"}
<1>1. /\ pc' = [d \in Deployments |-> IF d \in lost THEN "done" ELSE pc[d]]
      /\ target' = [d \in Deployments |-> IF d \in lost THEN Nothing ELSE target[d]]
      /\ victim' = [d \in Deployments |-> IF d \in lost THEN Nothing ELSE victim[d]]
      /\ file' = [d \in Deployments |-> IF d \in lost THEN 0 ELSE file[d]]
      /\ readers' = {r \in readers : r[1] \notin lost}
      /\ shares' = {s \in shares : s[1] \notin lost}
      /\ queue' = [t \in Tables |-> IF t[1] = w THEN <<>> ELSE queue[t]]
      /\ locks' = {l \in locks : l.process # w}
      /\ UNCHANGED home
  BY DEF Crash
<1>2. \A e \in Deployments : e \in lost => home[e] = w
  OBVIOUS
<1>3. \A e \in Deployments : pc[e] \in Waiters \cup Holders /\ home[e] = w => e \in lost
  BY DEF CacheInv, Started, Waiters, Holders, Purging
<1> HIDE DEF lost
<1>4. \A e \in Deployments : e \notin lost =>
          pc'[e] = pc[e] /\ target'[e] = target[e] /\ victim'[e] = victim[e] /\ file'[e] = file[e]
  BY <1>1 DEF CacheInv, CacheTypeOK
<1>5. ASSUME NEW t \in Tables, NEW i \in 1 .. Len(queue'[t])
      PROVE  /\ home'[queue'[t][i]] = t[1] /\ target'[queue'[t][i]] = t[2]
             /\ pc'[queue'[t][i]] \in Waiters \cup Holders
             /\ \A j \in 1 .. Len(queue'[t]) : queue'[t][i] = queue'[t][j] => i = j
  <2>1. t[1] # w /\ queue'[t] = queue[t]
    <3>1. CASE t[1] = w
      <4>1. queue'[t] = <<>>
        BY <1>1, <3>1
      <4> QED  BY <1>5, <4>1
    <3>2. CASE t[1] # w
      BY <1>1, <3>2
    <3> QED  BY <3>1, <3>2
  <2>2. /\ queue[t][i] \in Deployments
        /\ home[queue[t][i]] = t[1] /\ target[queue[t][i]] = t[2]
        /\ pc[queue[t][i]] \in Waiters \cup Holders
        /\ \A j \in 1 .. Len(queue[t]) : queue[t][i] = queue[t][j] => i = j
    BY <1>5, <2>1 DEF Queued, CacheInv, CacheTypeOK
  <2> QED  BY <1>1, <1>2, <1>4, <2>1, <2>2
<1>6. ASSUME NEW e \in Deployments, pc'[e] \in Waiters
      PROVE  InLine(QueueOf(e), e)' /\ (pc'[e] = "admitted" => HoldsQueue(e)')
  <2>1. e \notin lost /\ pc'[e] = pc[e] /\ target'[e] = target[e]
    BY <1>1, <1>4, <1>6 DEF Waiters
  <2>2. home[e] # w
    BY <1>3, <1>6, <2>1
  <2>3. Table(e, target[e]) \in Tables
    <3>1. target[e] \in Packages /\ home \in [Deployments -> Processes]
      BY <1>6, <2>1 DEF CacheInv, CacheTypeOK, Waiters
    <3> QED  BY <3>1, TableType
  <2>4. queue'[Table(e, target[e])] = queue[Table(e, target[e])]
    BY <1>1, <2>2, <2>3 DEF Table
  <2>5. InLine(queue[Table(e, target[e])], e)
        /\ (pc[e] = "admitted" => First(queue[Table(e, target[e])], e))
    BY <1>6, <2>1 DEF Queued, QueueOf, HoldsQueue
  <2>6. QueueOf(e)' = queue'[Table(e, target[e])]
    BY <1>1, <2>1 DEF QueueOf, Table
  <2> QED  BY <2>1, <2>4, <2>5, <2>6 DEF InLine, HoldsQueue, QueueOf, First
<1>7. \A e \in Deployments : pc'[e] = "admitted" => pc'[e] \in Waiters
  BY DEF Waiters
<1>8. Queued'
  BY <1>5, <1>6, <1>7 DEF Queued
<1>9. ASSUME NEW l \in locks'
      PROVE  \E e \in Deployments : Owns(e, l)'
  <2>1. l \in locks /\ l.process # w
    BY <1>1, <1>9
  <2>2. PICK e \in Deployments : Owns(e, l)
    BY <2>1 DEF Owned
  <2>3. e \notin lost
    BY <1>2, <2>1, <2>2 DEF Owns
  <2>4. /\ pc'[e] = pc[e] /\ target'[e] = target[e]
        /\ UsageFile(e, victim[e])' = UsageFile(e, victim[e])
        /\ \A f : <<e, f>> \in shares => <<e, f>> \in shares'
    BY <1>1, <1>4, <2>3 DEF UsageFile
  <2> QED  BY <1>1, <2>2, <2>4 DEF Owns, LockOf
<1>10. \A r \in readers' : pc'[r[1]] # "done"
  BY <1>1, <1>4 DEF Owned, CacheInv, CacheTypeOK
<1>11. \A s \in shares' : pc'[s[1]] # "done"
  BY <1>1, <1>4 DEF Owned, CacheInv, CacheTypeOK
<1>12. Owned'
  BY <1>9, <1>10, <1>11 DEF Owned
<1> QED  BY <1>8, <1>12

LEMMA LocksInitially == CacheInit => LocksInv
<1> SUFFICES ASSUME CacheInit PROVE LocksInv
  OBVIOUS
<1>1. CacheSafe
  BY CacheInitially
<1>2. \A t \in Tables : Len(queue[t]) = 0
  BY DEF CacheInit
<1>3. Queued
  BY <1>2 DEF CacheInit, Queued, Waiters
<1>4. Owned
  BY DEF CacheInit, Owned
<1> QED  BY <1>1, <1>3, <1>4 DEF LocksInv

LEMMA LocksStep == LocksInv /\ [CacheNext]_vars => LocksInv'
<1> SUFFICES ASSUME LocksInv, [CacheNext]_vars PROVE LocksInv'
  OBVIOUS
<1>1. CacheSafe /\ CacheInv /\ Queued /\ Owned
  BY DEF LocksInv, CacheSafe
<1>2. CacheSafe'
  BY <1>1, CacheStep
<1>3. ASSUME NEW d \in Deployments, Ask(d) \/ AskRefused(d) \/ Load(d) \/ Finish(d)
      PROVE  Queued' /\ Owned'
  BY <1>1, <1>3, QueuedStep, OwnedStep
<1>4. ASSUME NEW w \in Processes, Crash(w)
      PROVE  Queued' /\ Owned'
  BY <1>1, <1>4, CrashLocks
<1>5. ASSUME UNCHANGED vars PROVE Queued' /\ Owned'
  <2>1. UNCHANGED <<home, pc, target, victim, file, queue, readers, shares, locks>>
    BY <1>5 DEF vars, memory, purge
  <2>2. Queued'
    BY <1>1, <2>1 DEF Queued, QueueOf, HoldsQueue, InLine, First, Table
  <2>3. Owned'
    BY <1>1, <2>1 DEF Owned, Owns, LockOf, UsageFile
  <2> QED  BY <2>2, <2>3
<1>6. Queued' /\ Owned'
  BY <1>3, <1>4, <1>5 DEF CacheNext
<1> QED  BY <1>2, <1>6 DEF LocksInv

-----------------------------------------------------------------------------
(* Who can go on *)

\* Nobody waits for a lock of somebody who waits for one: whoever has locked a
\* file downloads, removes a package or waits for nothing but time.
LEMMA SomeoneReady ==
    ASSUME LocksInv, NEW d \in Deployments, pc[d] \notin {"idle", "done"}
    PROVE  \E e \in Deployments : Ready(e)
<1>1. CacheTypeOK /\ Holding /\ Alone /\ Queued /\ Owned
  BY DEF LocksInv, CacheSafe, CacheInv
<1>2. CASE \E e \in Deployments : pc[e] \in Solid
  <2>1. PICK e \in Deployments : pc[e] \in Solid
    BY <1>2
  <2>2. MayRun(e)
    BY <1>1, <2>1 DEF Alone, MayRun
  <2>3. pc[e] = "admitted" => HoldsQueue(e)
    BY <1>1 DEF Queued
  <2> QED  BY <2>1, <2>2, <2>3 DEF Ready, Solid, Waiters
<1>3. CASE \A e \in Deployments : pc[e] \notin Solid
  <2>1. \A e \in Deployments : MayRun(e)
    BY <1>3 DEF MayRun
  <2>2. \A e \in Deployments : pc[e] \in {"downloading", "trying"} => Ready(e)
    BY <2>1 DEF Ready
  <2>3. \A e \in Deployments : pc[e] \in Downloaders => Ready(e)
    BY <1>3, <2>2 DEF Downloaders, Purging, Solid
  <2>4. ASSUME NEW e \in Deployments, pc[e] = "locking"
        PROVE  \E g \in Deployments : Ready(g)
    <3>1. CASE Free(home[e], DownloadFile(e), TRUE)
      BY <2>1, <2>4, <3>1 DEF Ready
    <3>2. CASE ~Free(home[e], DownloadFile(e), TRUE)
      <4>1. PICK l \in locks : l.file = DownloadFile(e)
        BY <3>2 DEF Free
      <4>2. PICK g \in Deployments : Owns(g, l)
        BY <1>1 DEF Owned
      <4>3. l.file[1] = "download"
        BY <4>1 DEF DownloadFile
      <4> QED  BY <2>3, <4>2, <4>3 DEF Owns
    <3> QED  BY <3>1, <3>2
  <2>5. ASSUME NEW e \in Deployments, pc[e] = "sharing"
        PROVE  \E g \in Deployments : Ready(g)
    <3>1. CASE Free(home[e], UsageFile(e, target[e]), FALSE)
      BY <2>1, <2>5, <3>1 DEF Ready
    <3>2. CASE ~Free(home[e], UsageFile(e, target[e]), FALSE)
      <4>1. PICK l \in locks : l.file = UsageFile(e, target[e]) /\ l.exclusive
        BY <3>2 DEF Free
      <4>2. PICK g \in Deployments : Owns(g, l)
        BY <1>1 DEF Owned
      <4>3. l.file[1] # "download"
        BY <4>1 DEF UsageFile
      <4>4. pc[g] = "removing"
        BY <4>1, <4>2, <4>3 DEF Owns
      <4> QED  BY <4>4 DEF Ready
    <3> QED  BY <3>1, <3>2
  <2>6. CASE pc[d] = "queued"
    <3>1. target[d] \in Packages /\ home \in [Deployments -> Processes]
      BY <1>1, <2>6 DEF CacheTypeOK
    <3> DEFINE t == Table(d, target[d])
    <3>2. t \in Tables
      BY <3>1, TableType
    <3>3. InLine(queue[t], d) /\ queue[t] \in Seq(Deployments)
      BY <1>1, <2>6, <3>2 DEF Queued, QueueOf, Waiters, CacheTypeOK
    <3>4. 1 \in 1 .. Len(queue[t]) /\ queue[t] # <<>> /\ Head(queue[t]) = queue[t][1]
      BY <3>3 DEF InLine
    <3>5. PICK e \in Deployments : e = queue[t][1]
      BY <3>3, <3>4
    <3>6. home[e] = t[1] /\ target[e] = t[2] /\ pc[e] \in Waiters \cup Holders
      BY <1>1, <3>2, <3>4, <3>5 DEF Queued
    <3>7. HoldsQueue(e)
      BY <3>4, <3>5, <3>6 DEF HoldsQueue, First, Table
    <3>8. CASE pc[e] \in Waiters
      BY <2>1, <3>7, <3>8 DEF Ready, Waiters
    <3>9. CASE pc[e] \in Downloaders
      BY <2>3, <3>9
    <3>10. CASE pc[e] = "locking"
      BY <2>4, <3>10
    <3>11. pc[e] # "opened"
      BY <1>3 DEF Solid
    <3> QED  BY <3>6, <3>8, <3>9, <3>10, <3>11 DEF Holders, Downloaders
  <2>7. pc[d] \in {"sharing", "queued", "locking", "downloading", "trying"}
    BY <1>1, <1>3 DEF CacheTypeOK, Locations
  <2> QED  BY <2>2, <2>4, <2>5, <2>6, <2>7
<1> QED  BY <1>2, <1>3

\* What the locks belong to (NothingLeftLocked) follows.
LEMMA LocksHaveOwners == LocksInv => NothingLeftLocked
<1> SUFFICES ASSUME LocksInv PROVE NothingLeftLocked
  OBVIOUS
<1>1. CacheTypeOK /\ Queued /\ Owned
  BY DEF LocksInv, CacheSafe, CacheInv
<1>2. ASSUME NEW l \in locks
      PROVE  \E d \in Deployments :
                /\ home[d] = l.process
                /\ IF l.file[1] = "download" THEN target[d] = l.file[2]
                   ELSE IF l.exclusive THEN pc[d] = "removing" /\ victim[d] = l.file[2]
                   ELSE pc[d] # "done" /\ <<d, l.file>> \in shares
  <2>1. PICK d \in Deployments : Owns(d, l)
    BY <1>1 DEF Owned
  <2>2. <<d, l.file>> \in shares => pc[d] # "done"
    BY <1>1 DEF Owned
  <2>3. l = LockOf(home[d], UsageFile(d, victim[d]), TRUE) => victim[d] = l.file[2]
    BY DEF LockOf, UsageFile
  <2> QED  BY <2>1, <2>2, <2>3 DEF Owns
<1>3. \A t \in Tables : \A i \in 1 .. Len(queue[t]) :
          home[queue[t][i]] = t[1] /\ target[queue[t][i]] = t[2]
  BY <1>1 DEF Queued
<1>4. \A r \in readers : pc[r[1]] # "done"
  BY <1>1 DEF Owned
<1> QED  BY <1>2, <1>3, <1>4 DEF NothingLeftLocked

-----------------------------------------------------------------------------
(* Theorems *)

\* The variables of PackageCache keep their types; in particular a deployment
\* never tries to remove the package it is loading (try_cleanup_cache leaves
\* current_id out).
THEOREM CacheTypeCorrect == CacheSpec => []CacheTypeOK
<1>1. CacheSafe => CacheTypeOK
  BY DEF CacheSafe, CacheInv
<1>2. QED
  BY <1>1, CacheInitially, CacheStep, PTL DEF CacheSpec

\* As long as all deployments run in one process, no package one of them uses
\* is removed from disk, whatever downloads, archives and restarts do: the
\* locks in memory protect what the fcntl locks do not.
THEOREM OneProcessKeepsUsed == CacheSpec => []UsedStaysInOneProcess
<1>1. CacheSafe => UsedStaysInOneProcess
  BY DEF CacheSafe
<1>2. QED
  BY <1>1, CacheInitially, CacheStep, PTL DEF CacheSpec

\* One process downloads a package only when it is not in the cache, and never
\* twice at a time: who waited for the download lock looks again.
THEOREM DownloadedOnce == CacheSpec => []DownloadsMissing
<1>1. CacheSafe => DownloadsMissing
  <2> SUFFICES ASSUME CacheSafe, OneProcess PROVE DownloadsMissing
    BY DEF DownloadsMissing
  <2>1. \A d \in Deployments : pc[d] = "downloading" => dir[target[d]] \notin Usable
    BY DEF CacheSafe, Missing
  <2>2. ASSUME NEW d \in Deployments, NEW e \in Deployments, pc[d] = "downloading",
               pc[e] \in {"downloading", "unpacking"}, target[d] = target[e]
        PROVE  d = e
    <3>1. HoldsQueue(d) /\ HoldsQueue(e)
      BY <2>2 DEF CacheSafe, CacheInv, Holding, Holders
    <3>2. QED
      BY <2>2, <3>1 DEF HoldsQueue, First, Table, OneProcess
  <2>3. QED
    BY <2>1, <2>2 DEF DownloadsMissing
<1>2. QED
  BY <1>1, CacheInitially, CacheStep, PTL DEF CacheSpec

\* Every lock of the cache, in memory or of a file, belongs to a deployment
\* that is still at it, whatever fails and whichever process dies; and as long
\* as a deployment loads a package, one of them is not kept waiting
\* (RequestAPIPackageLoader, its usage and download locks, try_cleanup_cache,
\* m_utils.ReaderWriterLock).  So the locks never keep each other waiting, for
\* any number of processes, deployments and packages.  That who is ready can
\* load (ReadyCanLoad) is about ENABLED, and TLC's.
THEOREM LocksGivenUp ==
    CacheSpec => [](NothingLeftLocked /\ SomebodyGoesOn /\ (ReadyCanLoad => LocksAreReleased))
<1>1. LocksInv => SomebodyGoesOn
  BY SomeoneReady DEF SomebodyGoesOn
<1>2. LocksInv => NothingLeftLocked /\ SomebodyGoesOn /\ (ReadyCanLoad => LocksAreReleased)
  BY <1>1, LocksHaveOwners DEF LocksAreReleased
<1> QED  BY <1>2, LocksInitially, LocksStep, PTL DEF CacheSpec
===============================================================================
