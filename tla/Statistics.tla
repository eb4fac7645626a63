------------------------------- MODULE Statistics -------------------------------
(***************************************************************************)
(* What Murano counts.  Instances: the engine notifies the API of objects  *)
(* that are deployed and destroyed; notifications are lost, repeated and   *)
(* reordered.  Requests: each API process counts in memory and writes its  *)
(* counts into the row of its host from time to time.                      *)
(***************************************************************************)
EXTENDS Integers

CONSTANTS
    TrackedEnvs, TrackedIds,   \* environments, identifiers of objects
    Units,                     \* unit counts that may be reported
    Hosts,                     \* API processes, each on a host of its own
    MaxNotes, MaxServed, MaxDumps   \* bounds: notifications, requests, writes

VARIABLES
    notes,       \* notifications on their way
    sent,        \* how many there were; the clock of the history
    instances,   \* rows: absent, or unit count, created, destroyed
    lastTracked, \* history: of each row, the notification handled last
    counts,      \* RequestStatisticsCollection of each process
    statsRows,   \* ApiStats
    dumps        \* how many writes there were

counting == <<notes, sent, instances, lastTracked, counts, statsRows, dumps>>
instanceCounting == <<notes, sent, instances, lastTracked>>
requestCounting == <<counts, statsRows, dumps>>

Missing == [there |-> FALSE, units |-> 0, created |-> 0, destroyed |-> 0]
NoNote == [kind |-> "none", env |-> "none", id |-> "none", units |-> 0, at |-> 0]
NoStats == [there |-> FALSE, requests |-> 0, errors |-> 0, rate |-> 0]
NoCounts == [requests |-> 0, errors |-> 0, time |-> 0, timed |-> 0]

StatisticsInit ==
    /\ notes = {} /\ sent = 0
    /\ instances = [k \in TrackedEnvs \X TrackedIds |-> Missing]
    /\ lastTracked = [k \in TrackedEnvs \X TrackedIds |-> NoNote]
    /\ counts = [h \in Hosts |-> NoCounts]
    /\ statsRows = [h \in Hosts |-> NoStats] /\ dumps = 0

-----------------------------------------------------------------------------
(* Instances *)

\* track_application, track_cloud_instance, untrack_...: of an environment
\* whose row exists (a handler without it fails and changes nothing).
Notify ==
    /\ sent < MaxNotes
    /\ sent' = sent + 1
    /\ \E kind \in {"track", "untrack"}, e \in TrackedEnvs, i \in TrackedIds, u \in Units :
          notes' = notes \cup {[kind |-> kind, env |-> e, id |-> i, units |-> u,
                                at |-> sent + 1]}
    /\ UNCHANGED <<instances, lastTracked>>

\* A row that exists is updated.  The condition of the update is
\* `instance_id == .. and environment_id == ..': of the two columns Python
\* keeps the first, so it holds for that object in every environment.
Updated_mutant(n) == {k \in TrackedEnvs \X TrackedIds : k[1] = n.env}
Updated(n) == {k \in TrackedEnvs \X TrackedIds : k[2] = n.id}
TrackInstance(n) ==
    /\ n.kind = "track"
    /\ instances' =
           IF ~instances[<<n.env, n.id>>].there
           THEN [instances EXCEPT ![<<n.env, n.id>>] =
                    [there |-> TRUE, units |-> n.units, created |-> sent, destroyed |-> 0]]
           ELSE [k \in TrackedEnvs \X TrackedIds |->
                    IF k \in Updated(n) /\ instances[k].there
                    THEN [instances[k] EXCEPT !.units = n.units] ELSE instances[k]]
    /\ lastTracked' = [lastTracked EXCEPT ![<<n.env, n.id>>] = n]

DestroyInstance(n) ==
    LET row == instances[<<n.env, n.id>>] IN
    /\ n.kind = "untrack"
    /\ instances' = IF row.there /\ row.destroyed = 0
                    THEN [instances EXCEPT ![<<n.env, n.id>>].destroyed = sent]
                    ELSE instances
    /\ UNCHANGED lastTracked

\* A notification is handled; it may have to be handled again, or is lost.
HandleNote ==
    /\ \E n \in notes :
          /\ TrackInstance(n) \/ DestroyInstance(n)
          /\ notes' \in {notes, notes \ {n}}
    /\ UNCHANGED sent

\* get_aggregated_stats: how long an instance has been; they are summed up.
Duration(e, i) ==
    LET row == instances[<<e, i>>] IN
    IF ~row.there THEN 0 ELSE (IF row.destroyed # 0 THEN row.destroyed ELSE sent) - row.created
\* get_raw_environment_stats
ActiveIn(e) == {i \in TrackedIds : instances[<<e, i>>].there /\ instances[<<e, i>>].destroyed = 0}

-----------------------------------------------------------------------------
(* Requests *)

\* stats_count: a request is answered after t, or with an exception, which
\* counts as taking no time (te - te).  The average is kept as time / timed.
AddRequest(c, t) == [c EXCEPT !.time = @ + t, !.timed = @ + 1, !.requests = @ + 1]
AddError(c, t) == [AddRequest(c, t) EXCEPT !.errors = @ + 1]
Answer ==
    /\ \E h \in Hosts, t \in {1, 2}, fails \in BOOLEAN :
          /\ counts[h].timed < MaxServed
          /\ counts' = [counts EXCEPT ![h] = IF fails THEN AddError(@, t - t)
                                             ELSE AddRequest(@, t)]
    /\ UNCHANGED <<statsRows, dumps>>

\* update_stats: the row is created, or gets the counts of the process and the
\* difference since it was written last.
DumpStats ==
    /\ dumps < MaxDumps /\ dumps' = dumps + 1
    /\ \E h \in Hosts :
          LET row == statsRows[h] IN
          statsRows' = [statsRows EXCEPT ![h] =
              [there |-> TRUE, requests |-> counts[h].requests,
               errors |-> counts[h].errors,
               rate |-> IF row.there THEN counts[h].requests - row.requests ELSE 0]]
    /\ UNCHANGED counts

\* The process is started again: its counts are gone, the row is not.
Restart ==
    /\ \E h \in Hosts :
          /\ counts[h].requests > 0
          /\ counts' = [counts EXCEPT ![h] = NoCounts]
    /\ UNCHANGED <<statsRows, dumps>>

\* The two have nothing in common.
InstancesNext == Notify \/ HandleNote
RequestsNext == Answer \/ DumpStats \/ Restart

StatisticsNext ==
    \/ InstancesNext /\ UNCHANGED requestCounting
    \/ RequestsNext /\ UNCHANGED instanceCounting
StatisticsSpec == StatisticsInit /\ [][StatisticsNext]_counting

-----------------------------------------------------------------------------
\* An object that lives in one environment has the unit count that was
\* handled last for it, and a row exactly if it was tracked; its time never
\* runs backwards.  (Environments made of one template share identifiers, and
\* then an update reaches the rows of the others.)
UnitsOfTheLast ==
    \A e \in TrackedEnvs, i \in TrackedIds :
        (\A f \in TrackedEnvs \ {e} : ~instances[<<f, i>>].there) =>
            /\ instances[<<e, i>>].there <=> lastTracked[<<e, i>>] # NoNote
            /\ instances[<<e, i>>].units = lastTracked[<<e, i>>].units
            /\ Duration(e, i) >= 0
=============================================================================
