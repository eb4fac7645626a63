--------------------------------- MODULE RestApi ---------------------------------
(***************************************************************************)
(* A request on its way through the pipeline of the API: version, token,   *)
(* context, route, body, type of the answer, handler, answer.  The         *)
(* handlers themselves are external here: other modules model them.        *)
(***************************************************************************)
EXTENDS Naturals, Sequences, SequencesExt

CONSTANT Calls   \* the requests that may arrive

\* Of a request: `pipeline' ("api" or "broker"), `login' (of the broker's
\* basic authentication: "none", "wrong", "right"), `token' (whether Keystone
\* accepts it), `roles' (whether policy.json lets this user do it), `method',
\* `path' (its segments), `suffix' (what follows the last dot), `type' (of the
\* body; "" without the header), `form' (of the body: "empty", "good",
\* "garbled", "dtd"), `changes' (of a patch), `accept' (types, best first).
VARIABLES
    call,     \* the request
    stage,    \* where it is: the filter or the step of Resource that is next
    route,    \* of the routes that match, the first one
    accept,   \* the type of the answer
    result,   \* of the handler, when it returned
    done,     \* history: how much of its work the handler did
    answer    \* the status, 0 until there is one

handling == <<call, stage, route, accept, result, done, answer>>

NotRouted == [method |-> "", path |-> <<>>, controller |-> "", action |-> "", body |-> "no"]
NoCallYet == [pipeline |-> "", login |-> "none", token |-> FALSE, roles |-> FALSE, method |-> "",
              path |-> <<>>, suffix |-> "", type |-> "", form |-> "empty", changes |-> <<>>,
              accept |-> <<>>]

HandlingInit ==
    /\ call = NoCallYet /\ stage = "idle" /\ route = NotRouted /\ accept = ""
    /\ result = "" /\ done = "nothing" /\ answer = 0

-----------------------------------------------------------------------------
(* The routes: "*" is one segment, "**" any number of further ones.        *)

Connect(method, path, controller, action, body) ==
    [method |-> method, path |-> path, controller |-> controller, action |-> action, body |-> body]

ServicesRoutes ==
    LET Of(m, a, b) == <<Connect(m, <<"environments", "*", "services">>, "services", a, b),
                         Connect(m, <<"environments", "*", "services", "**">>, "services", a, b)>>
    IN  Of("GET", "get", "no") \o Of("POST", "post", "may")
          \o Of("PUT", "put", "may") \o Of("DELETE", "delete", "no")

EnvironmentsRoutes ==
    LET Of(m, p, a, b) == Connect(m, <<"environments">> \o p, "environments", a, b) IN
    << Of("GET", <<>>, "index", "no"), Of("POST", <<>>, "create", "must"),
       Of("PUT", <<"*">>, "update", "must"), Of("GET", <<"*">>, "show", "no"),
       Of("DELETE", <<"*">>, "delete", "no"), Of("GET", <<"*", "lastStatus">>, "last", "no") >>

TemplatesRoutes ==
    LET Of(m, p, a, b) == Connect(m, <<"templates">> \o p, "templates", a, b)
        App(m, p, a, b) == Connect(m, <<"templates", "*", "services">> \o p, "template_applications", a, b)
    IN  << Of("GET", <<>>, "index", "no"), Of("POST", <<>>, "create", "must"),
           Of("PUT", <<"*">>, "update", "must"), Of("GET", <<"*">>, "show", "no"),
           Of("DELETE", <<"*">>, "delete", "no"),
           Of("POST", <<"*", "create-environment">>, "create_environment", "must"),
           Of("POST", <<"*", "clone">>, "clone", "must"),
           App("GET", <<>>, "index", "no"), App("GET", <<"**">>, "show", "no"),
           App("POST", <<>>, "post", "must"), App("PUT", <<"**">>, "put", "must"),
           App("DELETE", <<"**">>, "delete", "no") >>

SessionsRoutes ==
    LET Of(m, p, c, a, b) == Connect(m, <<"environments", "*">> \o p, c, a, b) IN
    << Of("GET", <<"deployments">>, "deployments", "index", "no"),
       Of("GET", <<"deployments", "*">>, "deployments", "statuses", "no"),
       Of("POST", <<"configure">>, "sessions", "configure", "no"),
       Of("GET", <<"sessions", "*">>, "sessions", "show", "no"),
       Of("DELETE", <<"sessions", "*">>, "sessions", "delete", "no"),
       Of("POST", <<"sessions", "*", "deploy">>, "sessions", "deploy", "no"),
       Of("GET", <<"instance-statistics", "raw", "*">>, "instance_statistics", "get_for_instance", "no"),
       Of("GET", <<"instance-statistics", "raw">>, "instance_statistics", "get_for_environment", "no"),
       Of("GET", <<"instance-statistics", "aggregated">>, "instance_statistics", "get_aggregated", "no"),
       Of("POST", <<"actions", "*">>, "actions", "execute", "must"),
       Of("GET", <<"actions", "*">>, "actions", "get_result", "no"),
       Connect("POST", <<"actions">>, "static_actions", "execute", "must") >>

CatalogRoutes ==
    LET Of(m, p, a, b) == Connect(m, <<"catalog">> \o p, "catalog", a, b)
        Get(part, a) == Of("GET", <<"packages", "*", part>>, a, "no")
    IN  << Of("GET", <<"packages", "categories">>, "show_categories", "no"),
           Of("GET", <<"packages", "*">>, "get", "no"), Of("DELETE", <<"packages", "*">>, "delete", "no"),
           Of("PATCH", <<"packages", "*">>, "update", "must"), Of("GET", <<"packages">>, "search", "no"),
           Of("POST", <<"packages">>, "upload", "may"), Get("ui", "get_ui"), Get("logo", "get_logo"),
           Get("supplier_logo", "get_supplier_logo"), Get("download", "download"),
           Of("GET", <<"categories">>, "list_categories", "no"),
           Of("GET", <<"categories", "*">>, "get_category", "no"),
           Of("POST", <<"categories">>, "add_category", "may"),
           Of("DELETE", <<"categories", "*">>, "delete_category", "no"),
           Connect("GET", <<"stats">>, "request_statistics", "get", "no"),
           Connect("GET", <<"schemas", "*", "*">>, "schemas", "get_schema", "no"),
           Connect("GET", <<"schemas", "*">>, "schemas", "get_schema", "no") >>

BrokerRoutes ==
    LET Of(m, p, a) == Connect(m, <<"v2", "service_instances", "*">> \o p, "broker", a,
                         IF m = "PUT" THEN "must" ELSE "no")
    IN  << Connect("GET", <<"v2", "catalog">>, "broker", "list", "no"), Of("PUT", <<>>, "provision"),
           Of("DELETE", <<>>, "deprovision"), Of("PUT", <<"service_bindings", "*">>, "bind"),
           Of("DELETE", <<"service_bindings", "*">>, "unbind"),
           Of("GET", <<"last_operation">>, "get_last_operation") >>

Routes == IF call.pipeline = "broker" THEN BrokerRoutes
          ELSE ServicesRoutes \o EnvironmentsRoutes \o TemplatesRoutes \o SessionsRoutes \o CatalogRoutes

RouteMatches(r, path) ==
    /\ r.method = call.method
    /\ LET rest == r.path # <<>> /\ Last(r.path) = "**"
           head == IF rest THEN Front(r.path) ELSE r.path
       IN  /\ IF rest THEN Len(path) > Len(head) ELSE Len(path) = Len(head)
           /\ \A n \in DOMAIN head : head[n] \in {"*", path[n]}

\* Most handlers ask the policy first; these do not.
Unchecked == {<<"environments", "last">>, <<"template_applications", "index">>,
              <<"template_applications", "show">>, <<"template_applications", "post">>,
              <<"template_applications", "delete">>}
Checks(r) == /\ r.controller \notin {"services", "sessions", "request_statistics", "broker"}
             /\ <<r.controller, r.action>> \notin Unchecked

-----------------------------------------------------------------------------
(* The filters                                                             *)

Answers(code) == /\ answer' = code /\ stage' = "answered"
                 /\ UNCHANGED <<call, route, accept, result, done>>
GoOn(next) == /\ stage' = next /\ UNCHANGED <<call, route, accept, result, done, answer>>

Arrive(c) ==
    /\ stage = "idle" /\ call' = c
    /\ stage' = IF c.pipeline = "api" THEN "negotiate" ELSE "external"
    /\ UNCHANGED <<route, accept, result, done, answer>>

\* Everything but /v1 gets the list of versions, whoever asks.
VersionsApp == Answers(300)
Negotiate ==
    /\ stage = "negotiate"
    /\ IF call.path # <<>> /\ Head(call.path) = "v1" THEN GoOn("authtoken") ELSE VersionsApp

\* The broker asks Keystone for a token with the name and the password of the
\* request; what is not Unauthorized and no KeyError leaves the pipeline.
ExternalContext ==
    /\ stage = "external"
    /\ \/ call.login = "right" /\ GoOn("authtoken")
       \/ call.login \in {"none", "wrong"} /\ Answers(401)
       \/ call.login = "garbled" /\ Answers(500)

\* keystonemiddleware, with the token of the request or of ExternalContext
Known == IF call.pipeline = "api" THEN call.token ELSE call.login = "right"
AuthToken ==
    /\ stage = "authtoken"
    /\ IF Known THEN GoOn("context") ELSE Answers(401)

\* The context takes the roles from headers that authtoken has set.
MakeContext == stage = "context" /\ GoOn("route")

\* FaultWrapper is outside of Router: it turns exceptions into answers by the
\* name of their class or of the first of its bases that it knows.  For a
\* request in XML Fault fails itself, and the server answers.
Base(class) ==
    CASE class \in {"KeyError", "IndexError"} -> "LookupError"
      [] class = "UnicodeError" -> "ValueError"
      [] OTHER -> "Exception"
ErrorMap == [class \in {"ValueError", "PackageClassLoadError", "PackageUILoadError",
                        "PackageLoadError", "PackageFormatError", "LookupError"} |->
                IF class = "LookupError" THEN 404 ELSE 400]
ExceptionClasses == DOMAIN ErrorMap \cup {"KeyError", "IndexError", "UnicodeError", "TypeError",
                                          "HTTPConflict", "DBError", "Exception"}
MapException[class \in ExceptionClasses] ==
    IF class = "Exception" THEN 500
    ELSE IF class \in DOMAIN ErrorMap THEN ErrorMap[class] ELSE MapException[Base(class)]
FaultCode(class) == IF call.type = "application/xml" THEN 500 ELSE MapException[class]
Faults(class) == IF call.pipeline = "broker" THEN 500 ELSE FaultCode(class)

RouteRequest ==
    /\ stage = "route"
    /\ LET path == IF call.pipeline = "api" THEN Tail(call.path) ELSE call.path
           matching == SelectSeq(Routes, LAMBDA r : RouteMatches(r, path))
       IN  IF matching = <<>> THEN Answers(404)
           ELSE /\ route' = Head(matching) /\ stage' = "deserialize"
                /\ UNCHANGED <<call, accept, result, done, answer>>

-----------------------------------------------------------------------------
(* Resource: the body                                                      *)

BodyTypes == {"application/json", "application/xml", "application/murano-packages-json-patch",
              "multipart/form-data"}
AllowedOperations ==
    [name \in {"categories", "tags", "is_public", "enabled", "description", "name"} |->
        IF name \in {"categories", "tags"} THEN {"add", "replace", "remove"} ELSE {"replace"}]

\* A change of a patch: `object' (whether it is one), `op' and `path' (""
\* when missing; "/" stands for pointers that are not well-formed, "a/b" for
\* nested ones), `value' ("missing", "fits", "unfit").
ChangeError(ch) ==
    IF ~ch.object \/ ch.op = "" \/ ch.path \in {"", "/", "a/b"} \/ ch.value = "missing" THEN 400
    ELSE IF ch.path \notin DOMAIN AllowedOperations THEN 403
    ELSE IF ch.op \notin AllowedOperations[ch.path] THEN 403
    ELSE IF ch.value = "unfit" THEN 400 ELSE 0

\* What the parsers answer, 0 when they can read the body.
JsonError == IF call.form = "good" THEN 0 ELSE 400
PatchError ==
    LET wrong == SelectSeq(call.changes, LAMBDA ch : ChangeError(ch) # 0)
    IN  IF call.form # "good" THEN 400
        ELSE IF wrong = <<>> THEN 0 ELSE ChangeError(Head(wrong))
Protected == call.form = "dtd"   \* the parser refuses those with ValueError
XmlError == IF Protected THEN Faults("ValueError") ELSE IF call.form = "garbled" THEN 400 ELSE 0
FormError == 0                   \* text that is no JSON stays text

HasBody == call.form # "empty" /\ call.type # ""
BodyError ==
    IF ~HasBody THEN 0
    ELSE CASE call.type \notin BodyTypes -> 415
           [] call.type = "application/json" -> JsonError
           [] call.type = "application/murano-packages-json-patch" -> PatchError
           [] call.type = "application/xml" -> XmlError
           [] call.type = "multipart/form-data" -> FormError

-----------------------------------------------------------------------------
(* Resource: the type of the answer                                        *)

DefaultTypes == <<"application/json", "application/xml", "application/octet-stream">>
SpecificTypes(r) ==
    CASE r.controller = "catalog" /\ r.action = "get_ui" -> <<"text/plain">>
      [] r.controller = "catalog" /\ r.action \in {"download", "get_logo", "get_supplier_logo"} ->
            <<"application/octet-stream">>
      [] OTHER -> DefaultTypes

\* What follows the last dot of the path goes before the header; "" if
\* nothing is acceptable.
ExpectedType ==
    LET offered == SpecificTypes(route)
        liked == SelectSeq(call.accept, LAMBDA t : t = "*" \/ Contains(offered, t))
    IN  IF call.suffix = "json" THEN "application/json"
        ELSE IF call.suffix = "xml" THEN "application/xml"
        ELSE IF liked = <<>> THEN ""
        ELSE IF Head(liked) = "*" THEN Head(offered) ELSE Head(liked)

\* Resource.__call__: deserialize_request ends with the type of the answer.
After_mutant(step) ==
    CASE step = "deserialize" -> "execute" [] step = "execute" -> "accept" [] step = "accept" -> "serialize"
After(step) ==
    CASE step = "deserialize" -> "accept" [] step = "accept" -> "execute" [] step = "execute" -> "serialize"

Deserialize ==
    /\ stage = "deserialize"
    /\ IF BodyError # 0 THEN Answers(BodyError) ELSE GoOn(After(stage))

ExpectType ==
    /\ stage = "accept"
    /\ IF ExpectedType = "" THEN Answers(406)
       ELSE /\ accept' = ExpectedType /\ stage' = After(stage)
            /\ UNCHANGED <<call, route, result, done, answer>>

-----------------------------------------------------------------------------
(* Resource: the handler and the answer                                    *)

\* A handler that gets a body it has no argument for, or misses one, raises
\* TypeError like any other it raises later on.
TakesBody == \/ HasBody /\ route.body \in {"may", "must"}
             \/ ~HasBody /\ route.body \in {"no", "may"}

Execute ==
    /\ stage = "execute"
    /\ \/ ~TakesBody /\ Answers(400)
       \/ TakesBody /\ Checks(route) /\ ~call.roles /\ Answers(403)
       \/ /\ TakesBody /\ (call.roles \/ ~Checks(route))
          /\ \E kind \in {"nothing", "one", "several", "none", "list", "bytes"} :
                /\ result' = kind /\ done' = "all" /\ stage' = After(stage)
                /\ UNCHANGED <<call, route, accept, answer>>
       \/ /\ TakesBody /\ (call.roles \/ ~Checks(route))
          /\ \E class \in {"TypeError", "KeyError", "ValueError", "PackageFormatError",
                           "HTTPConflict", "DBError"}, part \in {"nothing", "part"} :
                /\ answer' = CASE class = "TypeError" -> 400 [] class = "HTTPConflict" -> 409
                               [] OTHER -> Faults(class)
                /\ done' = part /\ stage' = "answered"
                /\ UNCHANGED <<call, route, accept, result>>

\* What cannot be serialised is returned as it is: a dictionary or a list is
\* no application that WSGI could call.  Results: "nothing" is None, "one" and
\* "several" are dictionaries with as many keys, "none" has no key.
JsonTakes(kind) == TRUE
XmlTakes(kind) == kind \in {"one", "several"}   \* and shows the first key only
BlankTakes(kind) == kind = "bytes"
Serializes(kind, type) ==
    \/ kind = "nothing"
    \/ type = "application/json" /\ JsonTakes(kind)
    \/ type = "application/xml" /\ XmlTakes(kind)
    \/ type \in {"text/plain", "application/octet-stream"} /\ BlankTakes(kind)
Serialize ==
    /\ stage = "serialize"
    /\ Answers(IF Serializes(result, accept) \/ result = "bytes" THEN 200 ELSE Faults("TypeError"))

NextRequest ==
    /\ stage = "answered"
    /\ call' = NoCallYet /\ stage' = "idle" /\ route' = NotRouted /\ accept' = ""
    /\ result' = "" /\ done' = "nothing" /\ answer' = 0

HandlingNext ==
    \/ \E c \in Calls : Arrive(c)
    \/ Negotiate \/ ExternalContext \/ AuthToken \/ MakeContext \/ RouteRequest
    \/ Deserialize \/ ExpectType \/ Execute \/ Serialize \/ NextRequest

HandlingSpec == HandlingInit /\ [][HandlingNext]_handling

-----------------------------------------------------------------------------
\* An answer that blames the request itself, its version, token, path, type
\* or what it accepts, comes before the handler did anything; and what was
\* answered with success was done, for a caller that Keystone knows and, where
\* the handler asks the policy, that the policy lets do it
\* (wsgi.Resource.__call__, RequestDeserializer.deserialize, policy.check).
AnswersTellTruth ==
    stage = "answered" =>
        /\ answer \in {300, 401, 406, 415} => done = "nothing"
        /\ answer = 200 => done = "all" /\ Known /\ (call.roles \/ ~Checks(route))
===================================================================================
