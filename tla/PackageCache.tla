----------------------------- MODULE PackageCache -----------------------------
(***************************************************************************)
(* The cache of packages that the engine processes of a host share: each   *)
(* deployment locks the packages it uses, downloads those that are missing *)
(* and then removes the other packages of the same name and version that   *)
(* nobody uses.                                                            *)
(*                                                                         *)
(* Within a process deployments are green threads, kept apart by reader-   *)
(* writer locks; between processes by fcntl locks on files, which belong   *)
(* to the process: a deployment that unlocks a file unlocks it for all     *)
(* deployments of its process.  Lock files are removed and made anew; a    *)
(* file is named by its package and by how often it was removed before.    *)
(***************************************************************************)
EXTENDS Naturals, Sequences, FiniteSets

CONSTANTS
    Deployments,
    Processes,   \* the engine processes of the host
    Packages,    \* packages of one name and version, by their identifiers
    Nothing,     \* no package
    Faults,      \* what may go wrong: a subset of AllFaults
    MaxLoads     \* bound: how many packages each deployment asks for

AllFaults == {"download", "archive", "crash"}

ASSUME CacheAssumption ==
    /\ Nothing \notin Packages
    /\ Faults \subseteq AllFaults
    /\ MaxLoads \in [Deployments -> Nat]

VARIABLES
    home,      \* the process that took each deployment from the queue
    pc,        \* where each deployment is
    target,    \* the package it loads
    victim,    \* the package it tries to remove
    file,      \* which lock file of its target, or victim, it has opened
    todo,      \* the packages it still has to try to remove
    asked,     \* the packages it asked for
    loaded,    \* the packages it uses: their files are read when needed
    shares,    \* the usage files it has locked: <<deployment, file>>
    readers,   \* the usage locks in memory: <<deployment, package>>
    pending,   \* their pending writers
    queue,     \* the download locks in memory: the holder and those who wait
    locks,     \* fcntl locks
    dir,       \* the directory of each package
    removed    \* how often the lock files of each package were removed

memory == <<readers, pending, queue>>
purge == <<victim, todo>>
vars == <<home, pc, target, victim, file, todo, asked, loaded, shares, memory,
          locks, dir, removed>>

Kinds == {"usage", "download"}
Files == Kinds \X Packages \X Nat
FileLocks == [process : Processes, file : Files, exclusive : BOOLEAN]
Tables == Processes \X Packages

\* A directory without a manifest ("partial") is not a package to
\* load_from_dir; one with a manifest is, whatever else it lacks ("damaged").
Directories == {"absent", "partial", "damaged", "full"}
Usable == {"damaged", "full"}

\* Where a deployment cannot be switched: it only works on files and locks.
Solid == {"opening", "reading", "admitted", "opened", "checking", "unpacking",
          "cleaning", "purging", "removing", "unlinking", "unlinked"}
Purging == {"trying", "purging", "removing", "unlinking", "unlinked"}
Locations ==
    Solid \cup {"idle", "sharing", "queued", "locking", "downloading", "trying", "done"}

CacheTypeOK ==
    /\ home \in [Deployments -> Processes]
    /\ pc \in [Deployments -> Locations]
    /\ target \in [Deployments -> Packages \cup {Nothing}]
    /\ victim \in [Deployments -> Packages \cup {Nothing}]
    /\ file \in [Deployments -> Nat]
    /\ todo \in [Deployments -> SUBSET Packages]
    /\ asked \in [Deployments -> SUBSET Packages]
    /\ loaded \in [Deployments -> SUBSET Packages]
    /\ shares \in SUBSET (Deployments \X Files)
    /\ readers \in SUBSET (Deployments \X Packages)
    /\ pending \in [Tables -> Seq(Deployments)]
    /\ queue \in [Tables -> Seq(Deployments)]
    /\ locks \in SUBSET FileLocks
    /\ dir \in [Packages -> Directories]
    /\ removed \in [Kinds \X Packages -> Nat]
    /\ \A d \in Deployments :
          /\ target[d] = Nothing <=> pc[d] \in {"idle", "done"}
          /\ victim[d] # Nothing <=> pc[d] \in Purging
          /\ pc[d] \notin Purging \cup {"cleaning"} => todo[d] = {}
          /\ target[d] \notin todo[d]

\* The cache may hold packages already.
CacheInit ==
    /\ home \in [Deployments -> Processes]
    /\ pc = [d \in Deployments |-> "idle"]
    /\ target = [d \in Deployments |-> Nothing]
    /\ victim = [d \in Deployments |-> Nothing]
    /\ file = [d \in Deployments |-> 0]
    /\ todo = [d \in Deployments |-> {}]
    /\ asked = [d \in Deployments |-> {}]
    /\ loaded = [d \in Deployments |-> {}]
    /\ shares = {} /\ readers = {} /\ locks = {}
    /\ pending = [t \in Tables |-> <<>>]
    /\ queue = [t \in Tables |-> <<>>]
    /\ dir \in [Packages -> {"absent", "full"}]
    /\ removed = [f \in Kinds \X Packages |-> 0]

-----------------------------------------------------------------------------
(* Locks. *)

\* Another deployment of the process has to wait until d can be switched.
MayRun(d) ==
    \A e \in Deployments \ {d} : home[e] = home[d] => pc[e] \notin Solid

\* fcntl: a process is never in its own way.
Free(w, f, exclusive) ==
    \A l \in locks : l.file = f /\ l.process # w => ~exclusive /\ ~l.exclusive

LockOf(w, f, exclusive) == [process |-> w, file |-> f, exclusive |-> exclusive]
Table(d, p) == <<home[d], p>>
UsageFile(d, p) == <<"usage", p, file[d]>>
DownloadFile(d) == <<"download", target[d], file[d]>>

First(waiting, d) == waiting # <<>> /\ Head(waiting) = d

\* The reader-writer lock is free for a writer.
NoReaders_mutant(w, p) == TRUE  \* the write lock does not wait for readers
NoReaders(w, p) == \A e \in Deployments : home[e] = w => <<e, p>> \notin readers

\* d lets go of the download lock of its target: of the file, then in memory.
Unlocked_mutant(w, p) == locks  \* the lock file stays locked
Unlocked(w, p) ==
    {l \in locks : ~(l.process = w /\ l.file[1] = "download" /\ l.file[2] = p)}
Release(d) ==
    /\ locks' = Unlocked(home[d], target[d])
    /\ queue' = [queue EXCEPT ![Table(d, target[d])] = Tail(@)]
    /\ target' = [target EXCEPT ![d] = Nothing]
    /\ file' = [file EXCEPT ![d] = 0]
    /\ pc' = [pc EXCEPT ![d] = "idle"]

-----------------------------------------------------------------------------
(* Locking a package for use and looking for it in the cache. *)

\* The catalog names a package of this name and version; its usage lock is
\* taken in memory and its lock file opened.  (Bound: MaxLoads.)
Ask(d) ==
    /\ pc[d] = "idle" /\ MayRun(d) /\ Cardinality(asked[d]) < MaxLoads[d]
    /\ \E p \in Packages \ asked[d] :
          /\ \A i \in 1 .. Len(pending[Table(d, p)]) : pending[Table(d, p)][i] # d
          /\ asked' = [asked EXCEPT ![d] = @ \cup {p}]
          /\ readers' = readers \cup {<<d, p>>}
          /\ target' = [target EXCEPT ![d] = p]
          /\ file' = [file EXCEPT ![d] = removed[<<"usage", p>>]]
    /\ pc' = [pc EXCEPT ![d] = "opening"]
    /\ UNCHANGED <<home, purge, loaded, shares, pending, queue, locks, dir, removed>>

\* A pending writer gets no read lock but a RuntimeError.
AskRefused(d) ==
    /\ pc[d] = "idle" /\ MayRun(d) /\ Cardinality(asked[d]) < MaxLoads[d]
    /\ \E p \in Packages \ asked[d] :
          /\ \E i \in 1 .. Len(pending[Table(d, p)]) : pending[Table(d, p)][i] = d
          /\ asked' = [asked EXCEPT ![d] = @ \cup {p}]
    /\ UNCHANGED <<home, pc, target, purge, file, loaded, shares, memory, locks,
                   dir, removed>>

\* The usage file is locked, shared: at once, or when a try after a sleep can.
Share(d) ==
    LET f == UsageFile(d, target[d]) IN
    /\ pc[d] \in {"opening", "sharing"} /\ MayRun(d)
    /\ Free(home[d], f, FALSE)
    /\ locks' = locks \cup {LockOf(home[d], f, FALSE)}
    /\ shares' = shares \cup {<<d, f>>}
    /\ pc' = [pc EXCEPT ![d] = "reading"]
    /\ UNCHANGED <<home, target, purge, file, asked, loaded, memory, dir, removed>>

WaitToShare(d) ==
    /\ pc[d] = "opening"
    /\ ~Free(home[d], UsageFile(d, target[d]), FALSE)
    /\ pc' = [pc EXCEPT ![d] = "sharing"]
    /\ UNCHANGED <<home, target, purge, file, asked, loaded, shares, memory, locks,
                   dir, removed>>

ReadCached(d) ==
    /\ pc[d] = "reading" /\ dir[target[d]] \in Usable
    /\ loaded' = [loaded EXCEPT ![d] = @ \cup {target[d]}]
    /\ target' = [target EXCEPT ![d] = Nothing]
    /\ file' = [file EXCEPT ![d] = 0]
    /\ pc' = [pc EXCEPT ![d] = "idle"]
    /\ UNCHANGED <<home, purge, asked, shares, memory, locks, dir, removed>>

\* What is in the way and cannot be loaded is removed, without a lock, and d
\* joins those who want to download.
ReadMissing(d) ==
    /\ pc[d] = "reading" /\ dir[target[d]] \notin Usable
    /\ dir' = [dir EXCEPT ![target[d]] = "absent"]
    /\ queue' = [queue EXCEPT ![Table(d, target[d])] = Append(@, d)]
    /\ pc' = [pc EXCEPT ![d] =
                 IF queue[Table(d, target[d])] = <<>> THEN "admitted" ELSE "queued"]
    /\ UNCHANGED <<home, target, purge, file, asked, loaded, shares, readers, pending,
                   locks, removed>>

-----------------------------------------------------------------------------
(* Downloading, under the download lock. *)

HoldsQueue(d) == First(queue[Table(d, target[d])], d)

OpenDownload(d) ==
    /\ pc[d] \in {"admitted", "queued"} /\ MayRun(d) /\ HoldsQueue(d)
    /\ file' = [file EXCEPT ![d] = removed[<<"download", target[d]>>]]
    /\ pc' = [pc EXCEPT ![d] = "opened"]
    /\ UNCHANGED <<home, target, purge, asked, loaded, shares, memory, locks, dir, removed>>

LockDownload(d) ==
    /\ pc[d] \in {"opened", "locking"} /\ MayRun(d)
    /\ Free(home[d], DownloadFile(d), TRUE)
    /\ locks' = locks \cup {LockOf(home[d], DownloadFile(d), TRUE)}
    /\ pc' = [pc EXCEPT ![d] = "checking"]
    /\ UNCHANGED <<home, target, purge, file, asked, loaded, shares, memory, dir, removed>>

WaitToLock(d) ==
    /\ pc[d] = "opened" /\ ~Free(home[d], DownloadFile(d), TRUE)
    /\ pc' = [pc EXCEPT ![d] = "locking"]
    /\ UNCHANGED <<home, target, purge, file, asked, loaded, shares, memory, locks,
                   dir, removed>>

\* Somebody may have downloaded the package in the meantime.
ArrivedMeanwhile_mutant(p) == FALSE  \* the cache is not looked at again
ArrivedMeanwhile(p) == dir[p] \in Usable

CheckAgain(d) ==
    /\ pc[d] = "checking"
    /\ \/ /\ ArrivedMeanwhile(target[d])
          /\ loaded' = [loaded EXCEPT ![d] = @ \cup {target[d]}]
          /\ Release(d)
          /\ UNCHANGED dir
       \/ /\ ~ArrivedMeanwhile(target[d])
          /\ dir' = [dir EXCEPT ![target[d]] = IF @ = "partial" THEN "absent" ELSE @]
          /\ pc' = [pc EXCEPT ![d] = "downloading"]
          /\ UNCHANGED <<target, file, loaded, queue, locks>>
    /\ UNCHANGED <<home, purge, asked, shares, readers, pending, removed>>

DownloadFails(d) ==
    /\ "download" \in Faults
    /\ pc[d] = "downloading" /\ MayRun(d)
    /\ Release(d)
    /\ UNCHANGED <<home, purge, asked, loaded, shares, readers, pending, dir, removed>>

\* The answer of the catalog is unpacked into the directory of the package.
Unpack(d) ==
    /\ pc[d] = "downloading" /\ MayRun(d)
    /\ dir[target[d]] \in {"absent", "partial"}
    /\ dir' = [dir EXCEPT ![target[d]] = "partial"]
    /\ pc' = [pc EXCEPT ![d] = "unpacking"]
    /\ UNCHANGED <<home, target, purge, file, asked, loaded, shares, memory, locks, removed>>

\* There is something in the directory already: PackageLoadError.
UnpackRefused(d) ==
    /\ pc[d] = "downloading" /\ MayRun(d)
    /\ dir[target[d]] # "absent"
    /\ Release(d)
    /\ UNCHANGED <<home, purge, asked, loaded, shares, readers, pending, dir, removed>>

UnpackManifest(d) ==
    /\ pc[d] = "unpacking" /\ dir[target[d]] = "partial"
    /\ dir' = [dir EXCEPT ![target[d]] = "damaged"]
    /\ UNCHANGED <<home, pc, target, purge, file, asked, loaded, shares, memory, locks, removed>>

\* What is in the directory in the end: all of the package; no manifest, if the
\* archive is bad; any part, if somebody removed the directory meanwhile.
Unpacks(p) ==
    CASE dir[p] = "partial" -> IF "archive" \in Faults THEN {"partial"} ELSE {}
      [] dir[p] = "absent" -> {"partial", "damaged", "full"}
      [] OTHER -> {"full"}

\* The other packages in the cache.
Stale(d) == {q \in Packages \ {target[d]} : dir[q] # "absent"}

Unpacked(d) ==
    /\ pc[d] = "unpacking"
    /\ \E left \in Unpacks(target[d]) \cap Usable :
          dir' = [dir EXCEPT ![target[d]] = left]
    /\ todo' = [todo EXCEPT ![d] = Stale(d)]
    /\ pc' = [pc EXCEPT ![d] = "cleaning"]
    /\ UNCHANGED <<home, target, victim, file, asked, loaded, shares, memory, locks, removed>>

UnpackFails(d) ==
    /\ pc[d] = "unpacking" /\ "partial" \in Unpacks(target[d])
    /\ dir' = [dir EXCEPT ![target[d]] = "partial"]
    /\ Release(d)
    /\ UNCHANGED <<home, purge, asked, loaded, shares, readers, pending, removed>>

-----------------------------------------------------------------------------
(* try_cleanup_cache, still under the download lock: one package at a time. *)

\* The write lock of a package that may be in use is not waited for.
Blocking == FALSE

\* d has the write lock of q's usage, in memory, and opens the usage file.
Claim(d, q) ==
    /\ victim' = [victim EXCEPT ![d] = q]
    /\ file' = [file EXCEPT ![d] = removed[<<"usage", q>>]]
    /\ pc' = [pc EXCEPT ![d] = "purging"]

Skip(d, q) ==
    /\ todo' = [todo EXCEPT ![d] = @ \ {q}]
    /\ victim' = [victim EXCEPT ![d] = Nothing]
    /\ pc' = [pc EXCEPT ![d] = "cleaning"]

\* The usage lock cannot be upgraded: d uses q itself.
SkipOwn(d) ==
    /\ pc[d] = "cleaning"
    /\ \E q \in todo[d] : <<d, q>> \in readers /\ Skip(d, q)
    /\ UNCHANGED <<home, target, file, asked, loaded, shares, memory, locks, dir, removed>>

\* d becomes a pending writer, and the writer if it is the first and nobody
\* reads.
TryWrite(d) ==
    /\ pc[d] = "cleaning"
    /\ \E q \in todo[d] :
          LET writers == Append(pending[Table(d, q)], d)
              now == NoReaders(home[d], q) /\ First(writers, d) IN
          /\ <<d, q>> \notin readers
          /\ \/ /\ now /\ Claim(d, q)
                /\ pending' = [pending EXCEPT ![Table(d, q)] = Tail(writers)]
             \/ /\ ~now
                /\ pending' = [pending EXCEPT ![Table(d, q)] = writers]
                /\ victim' = [victim EXCEPT ![d] = q]
                /\ pc' = [pc EXCEPT ![d] = "trying"]
                /\ UNCHANGED file
    /\ UNCHANGED <<home, target, todo, asked, loaded, shares, readers, queue, locks,
                   dir, removed>>

\* Woken in time: the readers have gone.
Retry(d) ==
    LET t == Table(d, victim[d]) IN
    /\ pc[d] = "trying" /\ MayRun(d)
    /\ NoReaders(home[d], victim[d]) /\ First(pending[t], d)
    /\ pending' = [pending EXCEPT ![t] = Tail(@)]
    /\ Claim(d, victim[d])
    /\ UNCHANGED <<home, target, todo, asked, loaded, shares, readers, queue, locks,
                   dir, removed>>

\* The wait of a write lock that must not block is over; d stays a pending
\* writer.
GiveUp(d) ==
    /\ pc[d] = "trying" /\ MayRun(d) /\ ~Blocking
    /\ Skip(d, victim[d])
    /\ UNCHANGED <<home, target, file, asked, loaded, shares, memory, locks, dir, removed>>

LockUsage(d) ==
    LET f == UsageFile(d, victim[d]) IN
    /\ pc[d] = "purging" /\ Free(home[d], f, TRUE)
    /\ locks' = locks \cup {LockOf(home[d], f, TRUE)}
    /\ pc' = [pc EXCEPT ![d] = "removing"]
    /\ UNCHANGED <<home, target, purge, file, asked, loaded, shares, memory, dir, removed>>

\* A deployment of another process uses the package.
UsedElsewhere(d) ==
    /\ pc[d] = "purging" /\ ~Free(home[d], UsageFile(d, victim[d]), TRUE)
    /\ Skip(d, victim[d])
    /\ UNCHANGED <<home, target, file, asked, loaded, shares, memory, locks, dir, removed>>

\* The directory is removed and the usage file unlocked ...
Remove(d) ==
    /\ pc[d] = "removing"
    /\ dir' = [dir EXCEPT ![victim[d]] = "absent"]
    /\ locks' = locks \ {LockOf(home[d], UsageFile(d, victim[d]), TRUE)}
    /\ pc' = [pc EXCEPT ![d] = "unlinking"]
    /\ UNCHANGED <<home, target, purge, file, asked, loaded, shares, memory, removed>>

\* ... and then the lock files of the package are removed, one by one.
UnlinkUsage(d) ==
    /\ pc[d] = "unlinking"
    /\ removed' = [removed EXCEPT ![<<"usage", victim[d]>>] = @ + 1]
    /\ pc' = [pc EXCEPT ![d] = "unlinked"]
    /\ UNCHANGED <<home, target, purge, file, asked, loaded, shares, memory, locks, dir>>

UnlinkDownload(d) ==
    /\ pc[d] = "unlinked"
    /\ removed' = [removed EXCEPT ![<<"download", victim[d]>>] = @ + 1]
    /\ Skip(d, victim[d])
    /\ UNCHANGED <<home, target, file, asked, loaded, shares, memory, locks, dir>>

EndCleanup(d) ==
    /\ pc[d] = "cleaning" /\ todo[d] = {}
    /\ loaded' = [loaded EXCEPT ![d] = @ \cup {target[d]}]
    /\ Release(d)
    /\ UNCHANGED <<home, purge, asked, shares, readers, pending, dir, removed>>

-----------------------------------------------------------------------------
(* The end of a deployment, and of a process. *)

\* The loader is cleaned up: unlocking a file unlocks it for the process.
Finish(d) ==
    /\ pc[d] = "idle" /\ MayRun(d) /\ asked[d] # {}
    /\ readers' = {r \in readers : r[1] # d}
    /\ locks' = {l \in locks : ~(l.process = home[d] /\ <<d, l.file>> \in shares)}
    /\ shares' = {s \in shares : s[1] # d}
    /\ loaded' = [loaded EXCEPT ![d] = {}]
    /\ pc' = [pc EXCEPT ![d] = "done"]
    /\ UNCHANGED <<home, target, purge, file, asked, pending, queue, dir, removed>>

\* The deployments a process works on end with it, and so do their locks; the
\* directories are left as they are.
Crash(w) ==
    LET lost == {d \in Deployments : home[d] = w /\ asked[d] # {} /\ pc[d] # "done"} IN
    /\ "crash" \in Faults /\ lost # {}
    /\ pc' = [d \in Deployments |-> IF d \in lost THEN "done" ELSE pc[d]]
    /\ target' = [d \in Deployments |-> IF d \in lost THEN Nothing ELSE target[d]]
    /\ victim' = [d \in Deployments |-> IF d \in lost THEN Nothing ELSE victim[d]]
    /\ file' = [d \in Deployments |-> IF d \in lost THEN 0 ELSE file[d]]
    /\ todo' = [d \in Deployments |-> IF d \in lost THEN {} ELSE todo[d]]
    /\ loaded' = [d \in Deployments |-> IF d \in lost THEN {} ELSE loaded[d]]
    /\ readers' = {r \in readers : r[1] \notin lost}
    /\ shares' = {s \in shares : s[1] \notin lost}
    /\ pending' = [t \in Tables |-> IF t[1] = w THEN <<>> ELSE pending[t]]
    /\ queue' = [t \in Tables |-> IF t[1] = w THEN <<>> ELSE queue[t]]
    /\ locks' = {l \in locks : l.process # w}
    /\ UNCHANGED <<home, asked, dir, removed>>

\* What a deployment does once it asked for a package.
Load(d) ==
    \/ Share(d) \/ WaitToShare(d) \/ ReadCached(d) \/ ReadMissing(d)
    \/ OpenDownload(d) \/ LockDownload(d) \/ WaitToLock(d) \/ CheckAgain(d)
    \/ DownloadFails(d) \/ Unpack(d) \/ UnpackRefused(d)
    \/ UnpackManifest(d) \/ Unpacked(d) \/ UnpackFails(d)
    \/ SkipOwn(d) \/ TryWrite(d) \/ Retry(d) \/ GiveUp(d)
    \/ LockUsage(d) \/ UsedElsewhere(d) \/ Remove(d)
    \/ UnlinkUsage(d) \/ UnlinkDownload(d) \/ EndCleanup(d)

CacheNext ==
    \/ \E d \in Deployments : Ask(d) \/ AskRefused(d) \/ Load(d) \/ Finish(d)
    \/ \E w \in Processes : Crash(w)

CacheSpec == CacheInit /\ [][CacheNext]_vars

-----------------------------------------------------------------------------
(* Properties. *)

OneProcess == \A d, e \in Deployments : home[d] = home[e]

\* What a deployment uses is on disk: it is not removed before the deployment
\* is over ("Otherwise, it stays on disk").
UsedStays == \A d \in Deployments : \A p \in loaded[d] : dir[p] \in Usable

\* Among the green threads of one process the locks in memory see to that,
\* whatever fails and whenever the process dies.
UsedStaysInOneProcess == OneProcess => UsedStays

\* One process downloads a package once: who waits for a download finds its
\* result, and only what is not in the cache is downloaded.
DownloadsMissing ==
    OneProcess => /\ \A d \in Deployments :
                        pc[d] = "downloading" => dir[target[d]] \notin Usable
                  /\ \A d, e \in Deployments :
                        pc[d] = "downloading" /\ pc[e] \in {"downloading", "unpacking"}
                            /\ target[d] = target[e] => d = e

\* Every lock belongs to somebody who is still at it, whatever failed: usage to
\* a deployment that is not over, a download to one that loads the package.
NothingLeftLocked ==
    /\ \A l \in locks :
          \E d \in Deployments :
             /\ home[d] = l.process
             /\ IF l.file[1] = "download" THEN target[d] = l.file[2]
                ELSE IF l.exclusive THEN pc[d] = "removing" /\ victim[d] = l.file[2]
                ELSE pc[d] # "done" /\ <<d, l.file>> \in shares
    /\ \A r \in readers : pc[r[1]] # "done"
    /\ \A t \in Tables : \A i \in 1 .. Len(queue[t]) :
          home[queue[t][i]] = t[1] /\ target[queue[t][i]] = t[2]

\* Who can go on without another call, failure or end of a deployment: the
\* guards of Load, place by place.
Ready(d) ==
    \/ pc[d] \in {"opening", "sharing"} /\ MayRun(d) /\ Free(home[d], UsageFile(d, target[d]), FALSE)
    \/ pc[d] = "opening" /\ ~Free(home[d], UsageFile(d, target[d]), FALSE)
    \/ pc[d] \in {"admitted", "queued"} /\ MayRun(d) /\ HoldsQueue(d)
    \/ pc[d] \in {"opened", "locking"} /\ MayRun(d) /\ Free(home[d], DownloadFile(d), TRUE)
    \/ pc[d] = "opened" /\ ~Free(home[d], DownloadFile(d), TRUE)
    \/ pc[d] \in {"downloading", "trying"} /\ MayRun(d)
    \/ pc[d] \in {"reading", "checking", "unpacking", "cleaning", "purging", "removing",
                  "unlinking", "unlinked"}
CanLoad(d) == ENABLED Load(d)
ReadyCanLoad == \A d \in Deployments : Ready(d) <=> CanLoad(d)

\* Nobody waits for ever: while somebody loads a package, somebody can go on.
\* (Every load takes finitely many steps, so with this each of them ends.)
SomebodyGoesOn ==
    (\E d \in Deployments : pc[d] \notin {"idle", "done"}) => \E d \in Deployments : Ready(d)

\* The locks of the cache (m_utils.ReaderWriterLock and the two files of each
\* package): each is given up in the end, and none keeps everybody waiting.
LocksAreReleased == NothingLeftLocked /\ SomebodyGoesOn /\ ReadyCanLoad
===============================================================================
