-------------------------- MODULE EnvironmentTemplates --------------------------
(***************************************************************************)
(* Environment templates, and the services that requests put into them or  *)
(* into the description of a session.  A request for services reads the    *)
(* description in one transaction, changes it by TraverseHelper and saves  *)
(* all of it in another.  A description is abstracted to its services.     *)
(***************************************************************************)
EXTENDS Naturals, Sequences, SequencesExt, FiniteSets, FiniteSetsExt

CONSTANTS
    TemplateIds,
    Owners,         \* the tenants
    ServiceIds,     \* identifiers of services; no numbers, as uuids are not
    Editors,        \* requests for services served at the same time
    MaxServices,    \* bound: services in a description
    MaxEdits        \* bound: requests

Indices == [k \in {"0", "1"} |-> IF k = "0" THEN 0 ELSE 1]
Session == "session"            \* the description of a session being edited
Documents == TemplateIds \cup {Session}

ASSUME TemplatesAssumption ==
    /\ ServiceIds \cap DOMAIN Indices = {} /\ Session \notin TemplateIds
    /\ MaxServices \in Nat /\ MaxEdits \in Nat

VARIABLES
    templates,   \* rows: absent, or the tenant and whether it is public
    described,   \* the services of each description, or Absent
    editor,      \* what each request for services has read and wants to do
    edits,       \* requests so far
    intended,    \* history: the services as the requests one by one ask for
    overlapped,  \* history: descriptions saved after another request's save
    misplaced    \* history: templates in which another service was replaced

templating == <<templates, described, editor, edits, intended, overlapped, misplaced>>

NoTemplate == [there |-> FALSE, tenant |-> "none", public |-> FALSE]
Absent == <<[id |-> "absent", value |-> "none"]>>
NoEdit == [op |-> "none", doc |-> Session, path |-> <<>>, data |-> <<>>,
           read |-> <<>>, stale |-> FALSE]
Service(id, value) == [id |-> id, value |-> value]

TemplatesInit ==
    /\ templates = [t \in TemplateIds |-> NoTemplate]
    /\ described = [d \in Documents |-> IF d = Session THEN <<>> ELSE Absent]
    /\ editor = [e \in Editors |-> NoEdit] /\ edits = 0
    /\ intended = described /\ overlapped = {} /\ misplaced = {}

-----------------------------------------------------------------------------
(* TraverseHelper *)

Dict(fields) == [kind |-> "dict", fields |-> fields]
List(items) == [kind |-> "list", items |-> items]
Leaf(value) == [kind |-> "leaf", value |-> value]
NoNode == [kind |-> "none"]
Malformed == [kind |-> "error"]

ServiceNode(s) == Dict([x \in {"value"} |-> Leaf(s.value)])
DescriptionNode(services) ==
    Dict([x \in IF services = Absent THEN {} ELSE {"services"} |-> List(services)])

\* The item of a list with that identifier, else the one at that index, else
\* none; an index that is too large is an error.
First_mutant(services, k) == {n \in DOMAIN services : services[n].id # k}
First(services, k) == {n \in DOMAIN services : services[n].id = k}
Position(services, k) ==
    IF First(services, k) # {} THEN Min(First(services, k))
    ELSE IF k \in DOMAIN Indices THEN Indices[k] + 1 ELSE 0

Step(node, k) ==
    LET n == Position(node.items, k) IN
    CASE node.kind = "list" /\ n = 0 -> NoNode
      [] node.kind = "list" /\ n \in DOMAIN node.items -> ServiceNode(node.items[n])
      [] node.kind = "dict" /\ k \in DOMAIN node.fields -> node.fields[k]
      [] node.kind = "leaf" -> node
      [] OTHER -> Malformed

\* Of the paths of requests two parts are followed at most.
Follow(node, path, n) == IF n \in DOMAIN path THEN Step(node, path[n]) ELSE node
TraverseGet(path, services) == Follow(Follow(DescriptionNode(services), path, 1), path, 2)

\* The change of a node in the list of services, or in one of them.  `Fail'
\* stands for the exceptions.
Fail == <<[id |-> "fail", value |-> "none"]>>

TraverseUpdate(path, data, services) ==
    LET node == TraverseGet(Front(path), services)
        key == Last(path)
        n == Position(services, path[2])
    IN  CASE node.kind = "dict" /\ Len(path) = 1 -> data
          [] node.kind = "dict" /\ Len(path) = 3 ->
               [services EXCEPT ![n].value = Head(data).value]
          [] node.kind = "list" /\ key \in DOMAIN Indices
                 /\ Indices[key] < Len(services) ->
               [services EXCEPT ![Indices[key] + 1] = Head(data)]
          [] OTHER -> Fail

TraverseExtend(path, data, services) ==
    IF TraverseGet(path, services).kind = "list" THEN services \o data ELSE Fail

TraverseRemove(path, services) ==
    LET node == TraverseGet(Front(path), services)
        n == Position(services, Last(path))
    IN  CASE node.kind = "dict" /\ Len(path) = 1 /\ services # Absent -> Absent
          [] node.kind = "list" /\ n \in DOMAIN services -> RemoveAt(services, n)
          [] OTHER -> Fail

-----------------------------------------------------------------------------
(* CoreServices: what a request makes of the description it has read *)

Opened(services) == IF services = Absent THEN <<>> ELSE services
\* post_data, post_application_data: other paths change nothing.
Posted(services, path, data) ==
    IF path = <<"services">> THEN TraverseExtend(path, data, Opened(services))
    ELSE Opened(services)
\* put_data
PutInSession(services, path, data) == TraverseUpdate(path, data, services)
\* put_application_data counts the services before the one of that name, but
\* the count stays at zero.
CountBefore(services, id) == "0"
PutInTemplate(services, path, data) ==
    IF services = Absent THEN Fail
    ELSE TraverseUpdate(<<"services", CountBefore(services, Last(path))>>, data, services)

Edited(e) ==
    CASE e.op = "post" -> Posted(e.read, e.path, e.data)
      [] e.op = "put" /\ e.doc = Session -> PutInSession(e.read, e.path, e.data)
      [] e.op = "put" /\ e.doc # Session -> PutInTemplate(e.read, e.path, e.data)
      [] e.op = "delete" -> TraverseRemove(e.path, e.read)

\* What the request means, said of the services themselves.
Renamed(services, k, s) ==
    [n \in DOMAIN services |-> IF n = Position(services, k) THEN s ELSE services[n]]
\* Those with another identifier, in their order.
Without(services, k) ==
    LET kept == {n \in DOMAIN services : services[n].id # k}
        rank(n) == Cardinality({m \in kept : m <= n})
    IN  [r \in 1..Cardinality(kept) |-> services[CHOOSE n \in kept : rank(n) = r]]
Meant(e, services) ==
    CASE e.op = "post" /\ e.path = <<"services">> -> Opened(services) \o e.data
      [] e.op = "post" /\ e.path # <<"services">> -> Opened(services)
      [] e.op = "put" /\ Len(e.path) = 1 -> e.data
      [] e.op = "put" /\ Len(e.path) = 2 -> Renamed(services, e.path[2], e.data[1])
      [] e.op = "put" /\ Len(e.path) = 3 ->
           [n \in DOMAIN services |->
               IF services[n].id = e.path[2] THEN [services[n] EXCEPT !.value = e.data[1].value]
               ELSE services[n]]
      [] e.op = "delete" /\ Len(e.path) = 1 -> Absent
      [] e.op = "delete" /\ Len(e.path) = 2 /\ e.path[2] \in ServiceIds ->
           Without(services, e.path[2])
      [] e.op = "delete" /\ Len(e.path) = 2 /\ e.path[2] \notin ServiceIds ->
           RemoveAt(services, Indices[e.path[2]] + 1)

-----------------------------------------------------------------------------
(* Requests for services *)

Exists(d) == d = Session \/ (d \in TemplateIds /\ templates[d].there)
\* verify_env_template and verify_session; a new service has a new identifier.
Paths == {<<"services">>} \cup {<<"services", k>> : k \in ServiceIds \cup {"0"}}
         \cup {<<"services", k, "value">> : k \in ServiceIds}
BeginEdit(e) ==
    /\ editor[e].op = "none" /\ edits < MaxEdits
    /\ edits' = edits + 1
    /\ \E d \in Documents, op \in {"post", "put", "delete"}, path \in Paths,
          id \in ServiceIds, value \in {"old", "new"} :
          /\ Exists(d)
          /\ op = "delete" => value = "old" /\ id = CHOOSE x \in ServiceIds : TRUE
          /\ op = "post" => /\ Len(path) < 3 /\ value = "old"
                            /\ Len(described[d]) < MaxServices
                            /\ \A f \in Editors : editor[f].op = "none"
                            /\ First(described[d], id) = {}
          /\ op = "put" => /\ value = "new"
                           /\ Len(path) = 2 /\ path[2] \in ServiceIds => id = path[2]
                           /\ First(described[d], id) \subseteq {Position(described[d], Last(path))}
                           /\ d # Session => Len(path) = 2
          /\ editor' = [editor EXCEPT ![e] =
                 [op |-> op, doc |-> d, path |-> path,
                  data |-> <<Service(id, value)>>,
                  read |-> described[d], stale |-> FALSE]]
    /\ UNCHANGED <<templates, described, intended, overlapped, misplaced>>

SaveEdit(e) ==
    LET r == editor[e]
        after == Edited(r)
        fails == after = Fail \/ ~Exists(r.doc)
    IN  /\ r.op # "none"
        /\ IF fails
           THEN /\ editor' = [editor EXCEPT ![e] = NoEdit]
                /\ UNCHANGED <<described, intended, overlapped, misplaced>>
           ELSE /\ described' = [described EXCEPT ![r.doc] = after]
                /\ intended' = [intended EXCEPT ![r.doc] = Meant(r, @)]
                /\ overlapped' = overlapped \cup IF r.stale THEN {r.doc} ELSE {}
                /\ misplaced' = misplaced \cup
                       IF r.op = "put" /\ r.doc # Session
                          /\ Position(r.read, r.path[2]) # 1
                       THEN {r.doc} ELSE {}
                /\ editor' = [f \in Editors |->
                       IF f = e THEN NoEdit
                       ELSE [editor[f] EXCEPT !.stale =
                                    @ \/ (editor[f].op # "none" /\ editor[f].doc = r.doc)]]
        /\ UNCHANGED <<templates, edits>>

-----------------------------------------------------------------------------
(* Templates *)

Counted == edits < MaxEdits /\ edits' = edits + 1
\* _validate_request
MayUse(tenant, t) == templates[t].there /\ (templates[t].public \/ templates[t].tenant = tenant)

NewTemplate(t, tenant, public, services, meant) ==
    /\ ~templates[t].there
    /\ templates' = [templates EXCEPT ![t] = [there |-> TRUE, tenant |-> tenant, public |-> public]]
    /\ described' = [described EXCEPT ![t] = services]
    /\ intended' = [intended EXCEPT ![t] = meant]
    /\ UNCHANGED <<editor, overlapped, misplaced>>

\* The body may hold services.
CreateTemplate ==
    /\ Counted
    /\ \E t \in TemplateIds, tenant \in Owners, public \in BOOLEAN,
          services \in {Absent} \cup {<<Service(id, "old")>> : id \in ServiceIds} :
          NewTemplate(t, tenant, public, services, services)

\* Of a public template, whoever owns it.
CloneTemplate ==
    /\ Counted
    /\ \E t, old \in TemplateIds, tenant \in Owners, public \in BOOLEAN :
          /\ templates[old].there /\ templates[old].public
          /\ old \notin overlapped \cup misplaced
          /\ NewTemplate(t, tenant, public, described[old], intended[old])

UpdateTemplate ==
    /\ Counted
    /\ \E t \in TemplateIds, tenant \in Owners, public \in BOOLEAN :
          /\ MayUse(tenant, t)
          /\ templates' = [templates EXCEPT ![t].public = public]
    /\ UNCHANGED <<described, editor, intended, overlapped, misplaced>>

DeleteTemplate ==
    /\ Counted
    /\ \E t \in TemplateIds, tenant \in Owners :
          /\ MayUse(tenant, t)
          /\ templates' = [templates EXCEPT ![t] = NoTemplate]
          /\ described' = [described EXCEPT ![t] = Absent]
          /\ intended' = [intended EXCEPT ![t] = Absent]
          /\ overlapped' = overlapped \ {t} /\ misplaced' = misplaced \ {t}
          /\ editor' = [e \in Editors |->
                 [editor[e] EXCEPT !.stale =
                      @ \/ (editor[e].op # "none" /\ editor[e].doc = t)]]

\* A new environment and session with the services of the template, if any.
\* (The session edited so far is given up.)
CreateEnvironment ==
    /\ Counted
    /\ \A e \in Editors : editor[e].op = "none"
    /\ \E t \in TemplateIds, tenant \in Owners :
          /\ MayUse(tenant, t) /\ t \notin overlapped \cup misplaced
          /\ described' = [described EXCEPT ![Session] = Opened(described[t])]
          /\ intended' = [intended EXCEPT ![Session] = Opened(intended[t])]
          /\ overlapped' = overlapped \ {Session}
    /\ UNCHANGED <<templates, editor, misplaced>>

TemplatesNext ==
    \/ \E e \in Editors : BeginEdit(e) \/ SaveEdit(e)
    \/ CreateTemplate \/ CloneTemplate \/ UpdateTemplate \/ DeleteTemplate
    \/ CreateEnvironment

TemplatesSpec == TemplatesInit /\ [][TemplatesNext]_templating

-----------------------------------------------------------------------------
\* Where no request saved over what another had saved since it read, each
\* description is what the requests for services asked for, one by one: only
\* the service addressed changes, through clones and new environments too.
\* (Services of a template that were put in place of another are excepted.)
EditsAddUp ==
    \A d \in Documents \ (overlapped \cup misplaced) : described[d] = intended[d]
=============================================================================
