------------------------------- MODULE MCServices -------------------------------
(* The services around an environment, on small instances.  They have no     *)
(* state in common, so each behaviour is one of one of them: `part' says of  *)
(* which, and the others rest in a state they may start in.                  *)
EXTENDS PackageCatalog, CatalogSearch, EnvironmentTemplates, ServiceBroker,
        Statistics, HeatStacks, RestApi, PolicyRules, ModelModification,
        TaskExecution, PackageVersions, HotPackages, TLC

CONSTANT ServiceParts
VARIABLE part

ServicesInit ==
    /\ part \in ServiceParts
    /\ CatalogInit /\ SearchInit /\ TemplatesInit /\ BrokerInit /\ StatisticsInit
    /\ HeatInit /\ HandlingInit /\ PolicyInit /\ TasksInit
    /\ VersionsInit /\ (part # "versions" => published = {})
    /\ ModificationInit /\ (part # "modification" => references = CHOOSE f \in Firsts : TRUE)
    /\ HotPackagesInit /\ (part # "packages" => hot.parameters = <<>> /\ hot.groups = <<>> /\ hot.environments)

\* The variables of each part.
catalogs == <<catalog, searching>>
counted == <<templating, brokering, counting>>
policies == <<policy, modification>>
engines == <<heat, tasking, versions, packaging>>

ServicesNext ==
    /\ part' = part
    /\ \/ part = "catalog" /\ CatalogNext /\ UNCHANGED <<searching, counted, handling, policies, engines>>
       \/ part = "search" /\ SearchNext /\ UNCHANGED <<catalog, counted, handling, policies, engines>>
       \/ part = "templates" /\ TemplatesNext
          /\ UNCHANGED <<catalogs, brokering, counting, handling, policies, engines>>
       \/ part = "broker" /\ BrokerNext
          /\ UNCHANGED <<catalogs, templating, counting, handling, policies, engines>>
       \/ part = "instances" /\ InstancesNext
          /\ UNCHANGED <<catalogs, templating, brokering, requestCounting, handling, policies, engines>>
       \/ part = "requests" /\ RequestsNext
          /\ UNCHANGED <<catalogs, templating, brokering, instanceCounting, handling, policies, engines>>
       \/ part = "api" /\ HandlingNext /\ UNCHANGED <<catalogs, counted, policies, engines>>
       \/ part = "policy" /\ PolicyNext
          /\ UNCHANGED <<catalogs, counted, handling, modification, engines>>
       \/ part = "modification" /\ ModificationNext
          /\ UNCHANGED <<catalogs, counted, handling, policy, engines>>
       \/ part = "heat" /\ HeatNext
          /\ UNCHANGED <<catalogs, counted, handling, policies, tasking, versions, packaging>>
       \/ part = "tasks" /\ TasksNext
          /\ UNCHANGED <<catalogs, counted, handling, policies, heat, versions, packaging>>
       \/ part = "versions" /\ VersionsNext
          /\ UNCHANGED <<catalogs, counted, handling, policies, heat, tasking, packaging>>
       \/ part = "packages" /\ HotPackagesNext
          /\ UNCHANGED <<catalogs, counted, handling, policies, heat, tasking, versions>>

ServicesSpec ==
    ServicesInit /\ [][ServicesNext]_<<part, catalogs, counted, handling, policies, engines>>

-----------------------------------------------------------------------------
(* Archives: two of one package, with a class that the third has too *)
MCContent == [a \in {"a1", "a2", "a3"} |->
    CASE a = "a1" -> [fqn |-> "f", classes |-> {"c"}, tags |-> <<"x", "y">>, category |-> "k"]
      [] a = "a2" -> [fqn |-> "g", classes |-> {"c"}, tags |-> <<"y", "x">>, category |-> "k"]
      [] a = "a3" -> [fqn |-> "f", classes |-> {"d"}, tags |-> <<>>, category |-> "k"]]

(* Rows of the search, requests for a page and patches *)
ShelfRow(m, p, n) == [mine |-> m, public |-> p, enabled |-> TRUE, name |-> n, created |-> 1, tags |-> {"x"}]
MCTableRows == {[r EXCEPT !.public = b, !.enabled = c, !.tags = t] :
                   r \in {ShelfRow(m, TRUE, n) : m \in BOOLEAN, n \in 1..2},
                   b \in BOOLEAN, c \in BOOLEAN, t \in SUBSET {"x", "y"}}
MCShelfRows == {ShelfRow(m, ~m, n) : m \in BOOLEAN, n \in 1..2}
Param(k, i, v) == [key |-> k, in |-> i, value |-> v]
Searching(c, ps) == [catalog |-> c, admin |-> FALSE, managePublic |-> FALSE, params |-> ps]
MCSearches ==
    <<Searching(TRUE, <<Param("limit", FALSE, 1)>>),
      Searching(TRUE, <<Param("limit", FALSE, 2), Param("sort_dir", FALSE, "desc")>>),
      Searching(FALSE, <<Param("limit", FALSE, 1), Param("order_by", FALSE, "bogus")>>),
      [Searching(FALSE, <<Param("order_by", FALSE, "created"), Param("order_by", FALSE, "name"),
                          Param("tag", TRUE, <<"x", "y">>)>>) EXCEPT !.admin = TRUE],
      [Searching(FALSE, <<Param("limit", FALSE, 0)>>) EXCEPT !.managePublic = TRUE],
      [Searching(FALSE, <<Param("limit", FALSE, 1), Param("include_disabled", FALSE, TRUE),
                          Param("tag", FALSE, "x"), Param("other", FALSE, "x")>>)
          EXCEPT !.managePublic = TRUE]>>
Patched(o, p, v) == [op |-> o, path |-> p, value |-> v]
MCPatches ==
    <<<<Patched("replace", "name", 2)>>, <<Patched("replace", "public", FALSE)>>,
      <<Patched("replace", "enabled", FALSE)>>,
      <<Patched("add", "tags", <<"y">>), Patched("remove", "tags", <<"x">>)>>,
      <<Patched("replace", "tags", <<"y", "x">>), Patched("remove", "tags", <<"y", "y">>)>>>>

(* Requests: some good ones, and each of them with one thing wrong *)
Incoming(m, p) == [NoCallYet EXCEPT !.pipeline = "api", !.token = TRUE, !.roles = TRUE,
                                   !.method = m, !.path = <<"v1">> \o p, !.accept = <<"*">>]
WithBody(r, t, f) == [r EXCEPT !.type = t, !.form = f]
JsonPatch(changed) ==
    [WithBody(Incoming("PATCH", <<"catalog", "packages", "p">>),
              "application/murano-packages-json-patch", "good") EXCEPT !.changes = changed]
Alteration(o, p, v) == [object |-> TRUE, op |-> o, path |-> p, value |-> v]
GoodRequests ==
    {Incoming("GET", <<"environments">>), Incoming("GET", <<"catalog", "packages", "p", "ui">>),
     Incoming("GET", <<"catalog", "packages", "categories">>),
     Incoming("GET", <<"catalog", "packages", "p", "download">>),
     Incoming("DELETE", <<"environments", "e", "services", "s", "t">>),
     Incoming("PUT", <<"templates", "t", "services">>), Incoming("POST", <<"templates">>),
     WithBody(Incoming("POST", <<"environments">>), "application/json", "good"),
     WithBody(Incoming("POST", <<"catalog", "packages">>), "multipart/form-data", "good")}
MCCalls ==
    GoodRequests
    \cup {[r EXCEPT !.path = <<"v2">>] : r \in GoodRequests}
    \cup {[r EXCEPT !.token = FALSE] : r \in GoodRequests}
    \cup {[r EXCEPT !.roles = FALSE] : r \in GoodRequests}
    \cup {[r EXCEPT !.suffix = "xml"] : r \in GoodRequests}
    \cup {[r EXCEPT !.accept = a] : r \in GoodRequests,
             a \in {<<"text/html">>, <<"application/xml", "*">>, <<"text/html", "application/octet-stream">>}}
    \cup {WithBody(r, t, f) : r \in GoodRequests,
             t \in {"", "text/plain", "application/json", "application/xml"},
             f \in {"good", "garbled", "dtd"}}
    \cup {JsonPatch(<<Alteration("replace", "name", "fits"), Alteration(o, p, v)>>) :
             o \in {"", "add"}, p \in {"/", "tags", "name", "other"}, v \in {"missing", "fits", "unfit"}}
    \cup {[WithBody(Incoming("PUT", <<>>), "application/json", f)
              EXCEPT !.pipeline = "broker", !.login = l, !.path = <<"v2", "service_instances", "i">>] :
             l \in {"none", "wrong", "right", "garbled"}, f \in {"empty", "good"}}

MCClassesOf == [o \in Parts |-> {"app"}]

(* Models that an answer of the policy changes *)
Refers(a, f, s, b) == [of |-> a, field |-> f, as |-> s, to |-> b]
MCFirsts ==
    {{Refers("env", "p", "item", "a"), Refers("env", "q", s, "b"), Refers("a", "p", t, "b")} :
        s \in {"value", "entry", "nested"}, t \in {"key", "item"}}
    \cup {{Refers("env", "p", "value", "a"), Refers("a", "q", "entry", "env")}}

(* Versions in the catalog and in the directory, and what is asked for *)
MCCatalogs == {[version |-> <<1, 0>>, owner |-> "public"], [version |-> <<1, 1>>, owner |-> "public"],
               [version |-> <<2, 0>>, owner |-> "own"]}
MCInstalled == {<<1, 1>>}
Asked(k, n, partly) == [kind |-> k, major |-> 1, minor |-> n, partial |-> partly]
MCVersionSpecs == {Asked("==", 0, TRUE), Asked(">=", 0, FALSE), Asked(">", 0, TRUE),
                   Asked("!=", 0, TRUE), Asked("<=", 0, TRUE), Asked("<", 1, FALSE)}

(* Parameters of Heat templates *)
Ranged(a) == [on |-> "range", at |-> a]
Sized(a) == [on |-> "length", at |-> a]
Typed(t, d, c) == [type |-> t, default |-> d, constraints |-> c]
MCParameterSpecs ==
    {Typed("number", FALSE, {Ranged([min |-> -3]), Ranged([max |-> 1])}),
     Typed("number", TRUE, {Ranged([min |-> 1, max |-> 3]), [on |-> "values", at |-> {0, 1}]}),
     Typed("number", TRUE, {}),
     Typed("string", FALSE, {Sized([min |-> 0, max |-> 2]), Sized([max |-> 4])}),
     Typed("secret", FALSE, {})}
MCGroupLists == {<<>>, <<{"q", "r"}, {"p"}>>}
=============================================================================
