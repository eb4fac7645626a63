------------------------------- MODULE ObjectModel -------------------------------
(***************************************************************************)
(* The object model between two tasks of an environment, and the objects   *)
(* of MuranoPL during one.  A task loads the tree of objects, and what its *)
(* copy has besides; the program changes references and subscriptions; at  *)
(* the end everything that the model does not use is destroyed, and the    *)
(* rest is serialised: each object where it is met first, references to it *)
(* by its identifier.  Between tasks users remove objects from the model,  *)
(* not from the copy.  Properties, lists and dictionaries are abstracted   *)
(* to the set of objects they refer to; dictionaries have any order.       *)
(***************************************************************************)
EXTENDS Naturals, Sequences, SequencesExt, FiniteSets

CONSTANTS
    Things,     \* identifiers of objects ...
    Top,        \* ... and of the one at the top: the environment
    NotThere,   \* the place of an object that a tree does not hold
    MaxTasks,   \* bound: tasks
    MaxChanges  \* bound: changes in a task, by users and programs

All == Things \cup {Top}

VARIABLES
    model,     \* Objects: place, references and subscriptions of each object
    copy,      \* ObjectsCopy
    loaded,    \* objects in the store of the running task; {} without one
    owns,      \* _owner of each
    refs,      \* the objects that each refers to
    subs,      \* destruction dependencies: <<publisher, subscriber>>
    tasks, changes,
    created,   \* history: objects that were ever loaded or made
    gone,      \* history: those whose .destroy was run
    before     \* history: what the last task saved, as long as nobody edits it

objectModel == <<model, copy, loaded, owns, refs, subs, tasks, changes, created,
                 gone, before>>

\* A tree of objects, and the same for none.
Blank == [place |-> [o \in All |-> NotThere], refs |-> [o \in All |-> {}], subs |-> {}]
In(tree) == {o \in All : tree.place[o] # NotThere}
\* The place of Top, which is in none.
Outside == NotThere

NothingSaved == [refs |-> [o \in All |-> {}], owns |-> [o \in All |-> NotThere],
                 reached |-> {}, held |-> {}]

ModelInit ==
    /\ model = [Blank EXCEPT !.place = [o \in All |-> IF o = Top THEN Top ELSE NotThere]]
    /\ copy = Blank
    /\ loaded = {} /\ owns = [o \in All |-> NotThere] /\ refs = [o \in All |-> {}]
    /\ subs = {} /\ tasks = 0 /\ changes = 0
    /\ created = {} /\ gone = {} /\ before = NothingSaved

Orders == SetToSeqs(Things)
Times == [n \in 1..Cardinality(All) |-> n]

-----------------------------------------------------------------------------
(* collect_objects, serialize_model *)

\* The objects that some others lead to.
Reachable(from, next(_)) ==
    FoldLeft(LAMBDA near, n : near \cup UNION {next(o) : o \in near}, from, Times)
Used == IF model = Blank THEN {} ELSE Reachable({Top}, LAMBDA o : refs[o])

\* The first pass puts an object where its owner refers to it ...
RECURSIVE Pass1(_, _, _)
Pass1(place, o, order) ==
    LET Put(p, r) == IF r \in refs[o] /\ owns[r] = o /\ p[r] = NotThere
                     THEN Pass1([p EXCEPT ![r] = o], r, order) ELSE p
    IN  FoldLeft(Put, place, order)

\* ... and the others put whatever is left where they meet it first: the
\* owner that it must be nested in is that of the tree, none.
IsNestedIn_mutant(r, o) == owns[r] = o
IsNestedIn(r, o) == TRUE
RECURSIVE Pass2(_, _, _, _)
Pass2(place, was, o, order) ==
    LET Put(p, r) ==
            IF r \notin refs[o] THEN p
            ELSE IF was[r] = o THEN Pass2(p, was, r, order)
            ELSE IF p[r] = NotThere /\ IsNestedIn(r, o)
            THEN Pass1([p EXCEPT ![r] = o], r, order)
            ELSE p
    IN  FoldLeft(Put, place, order)

Placed(order) ==
    FoldLeft(LAMBDA place, n : Pass2(place, place, Top, order),
             Pass1([Blank.place EXCEPT ![Top] = Top], Top, order), Times)

\* The last pass drops references to what is in no place.  Subscriptions of
\* those that are doomed are not saved.
Serialized(order, doomed) ==
    LET place == Placed(order)
        in == {o \in All : place[o] # NotThere}
    IN  [place |-> place,
         refs |-> [o \in All |-> IF o \in in THEN refs[o] \cap in ELSE {}],
         subs |-> {<<p, s>> \in subs : p \in in /\ s \notin doomed}]

-----------------------------------------------------------------------------
(* load *)

\* The objects of a tree in the order they are met, owners first.
RECURSIVE Met(_, _, _)
Met(tree, o, order) ==
    LET Add(list, r) == IF tree.place[r] = o /\ r # o
                        THEN list \o Met(tree, r, order) ELSE list
    IN  FoldLeft(Add, <<o>>, order)

\* The store after a tree was loaded.  Objects that exist are kept as they
\* are.  References are resolved when all objects are there, subscriptions
\* when their publisher is created: of later subscribers they are dropped.
WithTree(store, tree, order) ==
    LET met == IF Top \in In(tree) THEN Met(tree, Top, order) ELSE <<>>
        new == ToSet(met) \ store.loaded
        Known(n) == store.loaded \cup {met[m] : m \in 1..(n - 1)}
    IN  [loaded |-> store.loaded \cup new,
         owns |-> [o \in All |->
             IF o \notin new THEN store.owns[o]
             ELSE IF o = Top THEN Outside ELSE tree.place[o]],
         refs |-> [o \in All |-> IF o \in new THEN tree.refs[o] ELSE store.refs[o]],
         subs |-> store.subs \cup
             {<<p, s>> \in tree.subs :
                 \E n \in DOMAIN met : met[n] = p /\ p \in new /\ s \in Known(n)}]

\* References to what is not there fail the task, which changes nothing.
Dangling(store) == \E o \in store.loaded : ~ store.refs[o] \subseteq store.loaded

NoStore == [loaded |-> {}, owns |-> [o \in All |-> NotThere],
            refs |-> [o \in All |-> {}], subs |-> {}]
LoadModel ==
    /\ loaded = {} /\ tasks < MaxTasks /\ Top \in In(model) \cup In(copy)
    /\ tasks' = tasks + 1
    /\ \E order \in Orders :
          LET store == WithTree(WithTree(NoStore, model, order), copy, order) IN
          IF Dangling(store) THEN UNCHANGED <<loaded, owns, refs, subs, changes, created>>
          ELSE /\ loaded' = store.loaded /\ owns' = store.owns
               /\ refs' = store.refs /\ subs' = store.subs /\ changes' = 0
               /\ created' = created \cup store.loaded
    /\ UNCHANGED <<model, copy, gone, before>>

-----------------------------------------------------------------------------
(* The program *)

Change == changes < MaxChanges /\ changes' = changes + 1

\* new() of an object in another, which refers to it or not.
New ==
    /\ loaded # {} /\ Change
    /\ \E o \in loaded, n \in Things \ created, r \in BOOLEAN :
          /\ loaded' = loaded \cup {n} /\ created' = created \cup {n}
          /\ owns' = [owns EXCEPT ![n] = o]
          /\ refs' = IF r THEN [refs EXCEPT ![o] = @ \cup {n}] ELSE refs
    /\ UNCHANGED <<model, copy, subs, tasks, gone, before>>

Assign ==
    /\ loaded # {} /\ Change
    /\ \E o \in loaded, r \in loaded \ {Top} :
          refs' = [refs EXCEPT ![o] = IF r \in @ THEN @ \ {r} ELSE @ \cup {r}]
    /\ UNCHANGED <<model, copy, loaded, owns, subs, tasks, created, gone, before>>

SubscribeDestruction ==
    /\ loaded # {} /\ Change
    /\ \E p, s \in loaded : p # s /\ subs' = subs \cup {<<p, s>>}
    /\ UNCHANGED <<model, copy, loaded, owns, refs, tasks, created, gone, before>>

-----------------------------------------------------------------------------
(* finalize *)

\* Held by its owner, and that by its own, up to the top.
HeldByOwners == Reachable({Top}, LAMBDA o : {r \in refs[o] : owns[r] = o})

FinishTask ==
    /\ loaded # {}
    /\ LET sentenced == loaded \ Used IN
       /\ \E order \in Orders :
             model' = IF model = Blank THEN Blank ELSE Serialized(order, sentenced)
       /\ copy' = model'
       /\ gone' = gone \cup sentenced
       /\ before' = IF model = Blank THEN NothingSaved
                    ELSE [refs |-> refs, owns |-> owns, reached |-> Used,
                          held |-> HeldByOwners]
    /\ loaded' = {} /\ owns' = NoStore.owns /\ refs' = NoStore.refs /\ subs' = {}
    /\ changes' = 0
    /\ UNCHANGED <<tasks, created>>

-----------------------------------------------------------------------------
(* Users *)

\* An object is removed from the model with all that is in it; the top too,
\* when the environment is deleted.
Within(o) == Reachable({o}, LAMBDA p : {r \in All : model.place[r] = p})
RemoveFromModel ==
    /\ loaded = {} /\ Change
    /\ \E o \in In(model) :
          model' = IF o = Top THEN Blank ELSE
              [model EXCEPT
                  !.place = [r \in All |-> IF r \in Within(o) THEN NotThere ELSE @[r]],
                  !.refs = [r \in All |->
                      IF r \in Within(o) THEN {}
                      ELSE IF r = model.place[o] THEN @[r] \ {o} ELSE @[r]],
                  !.subs = {<<p, s>> \in @ : p \notin Within(o)}]
    /\ before' = NothingSaved
    /\ UNCHANGED <<copy, loaded, owns, refs, subs, tasks, created, gone>>

ModelNext ==
    \/ LoadModel \/ New \/ Assign \/ SubscribeDestruction \/ FinishTask
    \/ RemoveFromModel

ModelSpec == ModelInit /\ [][ModelNext]_objectModel

-----------------------------------------------------------------------------
\* No object is forgotten: between tasks each one that there ever was is in the
\* model or its copy or has run its .destroy, whichever users have removed and
\* however references, owners and the order of dictionaries fall together; and
\* none that was destroyed is in the model.
NothingIsForgotten ==
    loaded = {} => /\ created \subseteq gone \cup In(model) \cup In(copy)
                   /\ gone \cap In(model) = {}

\* What a task has saved the next one finds: the same objects with the same
\* references, and with the same owner those that their owners hold, up to the
\* environment.  (Others get the owner that the order of dictionaries gives
\* them.)
Fresh == loaded # {} /\ changes = 0 /\ before # NothingSaved
SavedIsLoaded ==
    Fresh => /\ before.reached \subseteq loaded
             /\ \A o \in before.reached : refs[o] = before.refs[o]
             /\ \A o \in before.held : owns[o] = before.owns[o]

\* What serialize, load and the garbage collector do to a model together, over
\* several tasks and edits of users: nothing is lost that was not destroyed,
\* and what a task saves is what the next one works on.
ModelIsKept == NothingIsForgotten /\ SavedIsLoaded
=============================================================================
