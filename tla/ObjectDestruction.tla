---------------------------- MODULE ObjectDestruction ----------------------------
(***************************************************************************)
(* How the engine destroys the objects of MuranoPL that nothing refers to  *)
(* any more, and at the end of a task those that the model does not use:   *)
(* the objects are sorted, the subscribers of each are told, and then each *)
(* runs its method .destroy and is marked as destroyed.  Methods of        *)
(* objects that were sorted into one group run in parallel.  One thread    *)
(* collects garbage at a time; its methods do not collect any themselves.  *)
(***************************************************************************)
EXTENDS Naturals, Sequences, SequencesExt, FiniteSets, FiniteSetsExt

CONSTANTS
    Objects,
    Root,             \* stands for the owner of those without one
    Handlers,         \* of subscriptions; "" for none
    MaxSubscriptions  \* bound: of one object

ASSUME ObjectsAssumption ==
    IsFiniteSet(Objects) /\ Root \notin Objects /\ MaxSubscriptions \in Nat

VARIABLES
    owner,       \* _owner of each object
    subscribed,  \* _destruction_dependencies: subscribers and their handlers
    destroyed,   \* objects that were marked so
    pending,     \* _pending_destruction
    work,        \* the sort that is being carried out
    ran,         \* history: the objects whose .destroy ran since the sort ...
    edges        \* ... and who was to come after whom

objects == <<owner, subscribed, destroyed, pending, work, ran, edges>>

\* `order' are the groups by ascending index; `next' is the one being told or
\* destroyed, `left' those of it that are still to be.  `final' marks the end
\* of the task.
NoWork == [phase |-> "run", order |-> <<>>, next |-> 0, left |-> {}, final |-> FALSE]

OwnersOf(o, own) == LET up[n \in 0..Cardinality(Objects)] ==
                          IF n = 0 THEN own[o]
                          ELSE IF up[n - 1] = Root THEN Root ELSE own[up[n - 1]]
                  IN {up[n] : n \in 0..Cardinality(Objects)}

ObjectsInit ==
    /\ owner = [o \in Objects |-> Root]
    /\ subscribed = [o \in Objects |-> <<>>]
    /\ destroyed = {} /\ pending = {} /\ work = NoWork
    /\ ran = <<>> /\ edges = {}

\* The objects are loaded: who owns whom does not change.
LoadOwners ==
    /\ work = NoWork /\ destroyed = {}
    /\ \A o \in Objects : owner[o] = Root /\ subscribed[o] = <<>>
    /\ owner' \in {own \in [Objects -> Objects \cup {Root}] :
                     \A o \in Objects : o \notin OwnersOf(o, own)}
    /\ UNCHANGED <<subscribed, destroyed, pending, work, ran, edges>>

-----------------------------------------------------------------------------
(* subscribe_destruction, unsubscribe_destruction *)

\* _find_dependency
Subscription(s, h) == [subscriber |-> s, handler |-> h]
Subscribe ==
    /\ work = NoWork
    /\ \E o \in Objects \ destroyed, s \in Objects \ destroyed, h \in Handlers :
          /\ s # o /\ Len(subscribed[o]) < MaxSubscriptions
          /\ ~ Contains(subscribed[o], Subscription(s, h))
          /\ subscribed' = [subscribed EXCEPT ![o] = Append(@, Subscription(s, h))]
    /\ UNCHANGED <<owner, destroyed, pending, work, ran, edges>>

Unsubscribe ==
    /\ work = NoWork
    /\ \E o \in Objects \ destroyed, s \in Objects, h \in Handlers :
       \E n \in DOMAIN subscribed[o] :
          /\ subscribed[o][n] = Subscription(s, h)
          /\ subscribed' = [subscribed EXCEPT ![o] = RemoveAt(@, n)]
    /\ UNCHANGED <<owner, destroyed, pending, work, ran, edges>>

-----------------------------------------------------------------------------
(* _destroy_garbage *)

\* dd_graph: of each sentenced object its owner and its subscribers.  Of one
\* that is there more than once only the first counts.
Followers(o) ==
    <<owner[o]>> \o [n \in DOMAIN subscribed[o] |-> subscribed[o][n].subscriber]
DDGraph(sentenced) == [o \in sentenced |-> Followers(o)]
Repeats(list, n) == \E m \in 1..(n - 1) : list[m] = list[n]

\* topological: a depth-first search that goes to the owner in any case, so
\* that it gets its index first even in a cycle.
Descends_mutant(n, s, visited) == visited[s] = 0
Descends(n, s, visited) == n = 1 \/ visited[s] = 0

\* A call of dfs looks at the followers of its object, the n-th one now;
\* `back' when dfs of that one has returned.
DfsCall(o) == [of |-> o, n |-> 1, back |-> FALSE, max |-> 0]
CallDfs(graph, search, o) ==
    [search EXCEPT !.visited[o] = @ + 1,
                   !.stack = IF o \in DOMAIN graph THEN Append(@, DfsCall(o)) ELSE @]
WithCall(search, call) == [search EXCEPT !.stack = Append(Front(@), call)]

NextKey(graph, search) ==
    LET rest == [search EXCEPT !.keys = Tail(@)]
        o == Head(search.keys)
    IN  IF search.visited[o] = 0 THEN CallDfs(graph, rest, o) ELSE rest
Follow(graph, search, call) ==
    LET s == graph[call.of][call.n]
        done == [call EXCEPT !.n = @ + 1, !.back = FALSE]
    IN  IF Repeats(graph[call.of], call.n) THEN WithCall(search, done)
        ELSE IF ~call.back /\ Descends(call.n, s, search.visited)
        THEN CallDfs(graph, WithCall(search, [call EXCEPT !.back = TRUE]), s)
        ELSE WithCall(search, [done EXCEPT
                 !.max = IF @ < search.index[s] THEN search.index[s] ELSE @])
Finish(search, call) ==
    IF search.visited[call.of] > 2 THEN [search EXCEPT !.stack = Front(@)]
    ELSE [search EXCEPT !.stack = Front(@), !.visited[call.of] = @ + 1,
                        !.index[call.of] = call.max + 1, !.found = @ \cup {call.of}]
DfsStep(graph, search) ==
    IF search.stack = <<>>
    THEN IF search.keys = <<>> THEN search ELSE NextKey(graph, search)
    ELSE LET call == Last(search.stack) IN
         IF call.n <= Len(graph[call.of]) THEN Follow(graph, search, call)
         ELSE Finish(search, call)

\* Each of n objects is entered for the first time once, and then its owners
\* once more, at most n * (n + 1) / 2 calls in all.
MaxDfsSteps == LET n == Cardinality(Objects) IN n * (n + 1) * (MaxSubscriptions + 2)
Topological(graph, keys) ==
    LET none == [o \in Objects \cup {Root} |-> 0]
        search[n \in 0..MaxDfsSteps] ==
            IF n = 0 THEN [visited |-> none, index |-> none, found |-> {}, keys |-> keys,
                           stack |-> <<>>]
            ELSE DfsStep(graph, search[n - 1])
    IN  search[MaxDfsSteps]

\* The groups by index; the dictionary may have any order.
Groups(search) ==
    [n \in 1..Max({0} \cup {search.index[o] : o \in search.found}) |->
        {o \in search.found : search.index[o] = n}]
SortInto(sentenced, final) ==
    /\ \E keys \in SetToSeqs(sentenced) :
          LET order == Groups(Topological(DDGraph(sentenced), keys)) IN
          work' = [phase |-> "tell", order |-> order, next |-> 1,
                   left |-> IF order = <<>> THEN {} ELSE order[1], final |-> final]
    /\ ran' = <<>>
    /\ edges' = {e \in sentenced \X Objects : Contains(Followers(e[1]), e[2])}

\* To the next group: all are told before any is destroyed, in the reverse
\* order.
NextGroup ==
    /\ work.phase \in {"tell", "destroy"} /\ work.left = {}
    /\ work' =
         CASE work.phase = "tell" /\ work.next < Len(work.order) ->
                [work EXCEPT !.next = @ + 1, !.left = work.order[work.next + 1]]
           [] work.phase = "tell" /\ work.next >= Len(work.order) ->
                [work EXCEPT !.phase = "destroy", !.next = Len(work.order),
                             !.left = IF work.order = <<>> THEN {}
                                      ELSE work.order[Len(work.order)]]
           [] work.phase = "destroy" /\ work.next > 1 ->
                [work EXCEPT !.next = @ - 1, !.left = work.order[work.next - 1]]
           [] work.phase = "destroy" /\ work.next <= 1 ->
                [work EXCEPT !.phase = "done"]
    /\ LET gone == IF work.phase = "destroy" /\ ~work.final /\ work.next > 0
                   THEN work.order[work.next] \cap pending ELSE {}
       IN  /\ destroyed' = destroyed \cup gone
           /\ pending' = pending \ gone
    /\ UNCHANGED <<owner, subscribed, ran, edges>>

\* signal_destruction_dependencies: calls the handlers of subscribers that are
\* still there, mutes what they raise, and drops the subscriptions.
Signal(o) ==
    /\ work.phase = "tell" /\ o \in work.left
    /\ subscribed' = IF o \in destroyed THEN subscribed
                     ELSE [subscribed EXCEPT ![o] = <<>>]
    /\ work' = [work EXCEPT !.left = @ \ {o}]
    /\ UNCHANGED <<owner, destroyed, pending, ran, edges>>

\* destroy_objects: methods .destroy of the object's classes, muted as well.
Destroy(o) ==
    /\ work.phase = "destroy" /\ o \in work.left
    /\ ran' = IF o \in destroyed THEN ran ELSE Append(ran, o)
    /\ work' = [work EXCEPT !.left = @ \ {o}]
    /\ UNCHANGED <<owner, subscribed, destroyed, pending, edges>>

-----------------------------------------------------------------------------
(* cleanup and the end of a task *)

\* Nothing refers to these: what they own has nobody else either, since it
\* refers to its owner.
Garbage(G) ==
    /\ G # {} /\ G \subseteq Objects \ destroyed
    /\ \A o \in Objects \ destroyed : owner[o] \in G => o \in G
Collect ==
    /\ work = NoWork
    /\ \E G \in SUBSET Objects :
          /\ Garbage(G)
          /\ pending' = pending \cup G
          /\ SortInto(pending', FALSE)
    /\ UNCHANGED <<owner, subscribed, destroyed>>

\* As long as something was destroyed, again with what is left.
Repeat ==
    /\ work.phase = "done" /\ ~work.final
    /\ IF ran # <<>> /\ pending # {}
       THEN SortInto(pending, FALSE)
       ELSE work' = NoWork /\ UNCHANGED <<ran, edges>>
    /\ UNCHANGED <<owner, subscribed, destroyed, pending>>

\* prepare_finalize: everything that the model does not use.
PrepareFinalize ==
    /\ work = NoWork
    /\ \E used \in SUBSET (Objects \ destroyed) :
          LET sentenced == (Objects \ destroyed) \ used IN
          /\ pending' = pending \cup sentenced
          /\ SortInto(sentenced, TRUE)
    /\ UNCHANGED <<owner, subscribed, destroyed>>

IsDoomed(o) == o \in destroyed \cup pending
\* The model is saved without subscriptions of those that are doomed; then
\* everything is marked as destroyed.
FinalizeStore ==
    /\ work.phase = "done" /\ work.final
    /\ subscribed' = [o \in Objects |->
           LET kept == {n \in DOMAIN subscribed[o] : ~IsDoomed(subscribed[o][n].subscriber)}
               rank(n) == Cardinality({m \in kept : m <= n})
           IN  [r \in 1..Cardinality(kept) |-> subscribed[o][CHOOSE n \in kept : rank(n) = r]]]
    /\ work' = [work EXCEPT !.phase = "closed"]
    /\ destroyed' = Objects /\ pending' = {}
    /\ UNCHANGED <<owner, ran, edges>>

ObjectsNext ==
    \/ LoadOwners \/ Subscribe \/ Unsubscribe \/ Collect \/ Repeat
    \/ \E o \in Objects : Signal(o) \/ Destroy(o)
    \/ NextGroup \/ PrepareFinalize \/ FinalizeStore

ObjectsSpec == ObjectsInit /\ [][ObjectsNext]_objects

-----------------------------------------------------------------------------
\* Whoever has to come after another does, whatever cycles subscriptions form:
\* .destroy of an object runs before that of its owner and, where there is no
\* cycle, before that of its subscribers; and those were told before.
Acyclic == \A set \in SUBSET Objects : set # {} => \E o \in set : \A s \in set : <<o, s>> \notin edges
OwnedFirst ==
    /\ \A i, j \in DOMAIN ran : i < j =>
          /\ owner[ran[j]] # ran[i]
          /\ Acyclic => <<ran[j], ran[i]>> \notin edges
    /\ \A i \in DOMAIN ran : subscribed[ran[i]] = <<>>
=============================================================================
