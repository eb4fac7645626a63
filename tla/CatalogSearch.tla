----------------------------- MODULE CatalogSearch -----------------------------
(***************************************************************************)
(* Lists of packages: a client asks for what it may deploy or edit and     *)
(* follows the markers from page to page, while packages are patched.      *)
(* Handlers are atomic here; PackageCatalog cuts them at their database    *)
(* statements.                                                             *)
(***************************************************************************)
EXTENDS Naturals, Sequences, FiniteSets, SequencesExt, FiniteSetsExt

CONSTANTS
    Shelf,        \* identifiers of the packages
    TableRows,    \* the rows that the table may hold ...
    ShelfRows,    \* ... and those that they may have at first
    Searches,     \* list of requests: the parameters of the URL, and who asks
    Patches,      \* list of the bodies of updates
    ApiLimit,     \* limit_param_default and api_limit_max
    MaxPatches    \* bound: updates

ASSUME SearchAssumption ==
    /\ Shelf \subseteq Nat \ {0} /\ MaxPatches \in Nat /\ ApiLimit \in Nat \ {0}
    /\ ShelfRows \subseteq TableRows
    /\ \A row \in TableRows : row.name \in Nat /\ row.created \in Nat

VARIABLES
    shelf,      \* the rows of the table `package'
    search,     \* the client: its request, the marker, what it was shown ...
    patches     \* updates so far

searching == <<shelf, search, patches>>

\* ... and, as history, the packages that it should see all the time (steady)
\* and whether a marker was changed before it was used (moved).
NoSearch == [pc |-> "off", request |-> <<>>, marker |-> 0, shown |-> <<>>,
             steady |-> {}, moved |-> FALSE]

SearchInit ==
    /\ shelf = <<>> /\ search = NoSearch /\ patches = 0

\* The packages uploaded before.
Stock ==
    /\ shelf = <<>>
    /\ shelf' \in [Shelf -> ShelfRows]
    /\ UNCHANGED <<search, patches>>

-----------------------------------------------------------------------------
(* The request *)

SUPPORTED_PARAMS == {"order_by", "tag", "limit", "owned", "include_disabled",
                     "sort_dir", "name", "marker"}
LIST_PARAMS == {"tag", "order_by"}
ORDER_VALUES == {"name", "created"}
OPERATOR_VALUES == {"tag"}

With(f, k, v) == [x \in DOMAIN f \cup {k} |-> IF x = k THEN v ELSE f[x]]
Given(f, k, default) == IF k \in DOMAIN f THEN f[k] ELSE default

\* A parameter is [key, in, value]; `in' marks "in:" and then the value is a
\* list.  Parameters and orders that are not supported are skipped.
AddFilter(filters, param) ==
    LET k == param.key
        listed == IF param.in THEN param.value ELSE Append(Given(filters, k, <<>>), param.value)
    IN  IF k \notin SUPPORTED_PARAMS THEN filters
        ELSE IF k = "order_by"
        THEN With(filters, k, SelectSeq(listed, LAMBDA v : v \in ORDER_VALUES))
        ELSE IF k \in LIST_PARAMS THEN With(filters, k, listed)
        ELSE With(filters, k, param.value)
Filters(params) == FoldLeft(AddFilter, <<>>, params)

\* _validate_limit, and the limits of the configuration.
ValidLimit(filters) == Given(filters, "limit", ApiLimit) > 0
Limit(filters) == Min({ApiLimit, Given(filters, "limit", ApiLimit)})

\* What the loop over the parameters makes of them.
ASSUME FiltersAssumption == \A n \in DOMAIN Searches :
    LET filters == Filters(Searches[n].params) IN
    /\ Given(filters, "order_by", <<"name">>) \in Seq(ORDER_VALUES)
    /\ Given(filters, "limit", ApiLimit) \in Int

-----------------------------------------------------------------------------
(* package_search *)

Scoped(r, row) ==
    IF r.catalog THEN row.mine \/ row.public
    ELSE r.admin \/ row.mine \/ (r.managePublic /\ row.public)

Matches(r, filters, row) ==
    /\ Scoped(r, row)
    /\ Given(filters, "include_disabled", FALSE) \/ row.enabled
    /\ Given(filters, "owned", FALSE) => row.mine
    /\ "tag" \in DOMAIN filters => row.tags \cap ToSet(filters["tag"]) # {}
    /\ "name" \in DOMAIN filters => row.name = filters["name"]

\* The last key is the identifier: the order is total.
SortKeys_mutant(filters) == Given(filters, "order_by", <<"name">>)
SortKeys(filters) == Append(Given(filters, "order_by", <<"name">>), "id")

Sorted(filters, i, j) ==
    LET keys == SortKeys(filters)
        value(id, k) == IF k = "id" THEN id ELSE shelf[id][k]
        less(a, b) == IF Given(filters, "sort_dir", "asc") = "desc" THEN a > b ELSE a < b
    IN  \E n \in DOMAIN keys :
            /\ \A m \in 1..(n - 1) : value(i, keys[m]) = value(j, keys[m])
            /\ less(value(i, keys[n]), value(j, keys[n]))

\* The marker is replaced by the package, where it is sorted by now.
Selection(r, filters, marker) ==
    {i \in Shelf : Matches(r, filters, shelf[i]) /\ (marker # 0 => Sorted(filters, marker, i))}

\* The first packages of those found, as many as the limit allows.
IsPage(page, found, filters) ==
    /\ IsInjective(page)
    /\ \A m, n \in DOMAIN page : m < n => ~Sorted(filters, page[n], page[m])
    /\ \A i \in found : (\A n \in DOMAIN page : page[n] # i) =>
          /\ Len(page) = Limit(filters)
          /\ \A n \in DOMAIN page : ~Sorted(filters, i, page[n])

BeginSearch ==
    /\ shelf # <<>> /\ search.pc = "off"
    /\ \E n \in DOMAIN Searches : LET r == Searches[n] IN
          search' = [NoSearch EXCEPT
                        !.request = r,
                        !.pc = IF ValidLimit(Filters(r.params)) THEN "on" ELSE "refused",
                        !.steady = {i \in Shelf : Matches(r, Filters(r.params), shelf[i])}]
    /\ UNCHANGED <<shelf, patches>>

\* A full page names its last package as the next marker.
TurnPage ==
    LET r == search.request
        filters == Filters(r.params)
        found == Selection(r, filters, search.marker)
    IN  /\ search.pc = "on"
        /\ \E size \in 0..Limit(filters) : \E page \in [1..size -> found] :
              /\ IsPage(page, found, filters)
              /\ search' = [search EXCEPT
                     !.shown = @ \o page,
                     !.pc = IF size = Limit(filters) THEN "on" ELSE "done",
                     !.marker = IF size = Limit(filters) THEN Last(page) ELSE @,
                     !.moved = @ \/ search.marker \notin search.steady \cup {0}]
        /\ UNCHANGED <<shelf, patches>>

-----------------------------------------------------------------------------
(* package_update: a list of changes, all or none *)

\* _do_replace, _do_add, _do_remove.  Tags are associated at most once.
DoReplace(row, change) ==
    IF change.path # "tags" THEN [row EXCEPT ![change.path] = change.value]
    ELSE LET duplicates == row.tags \cap ToSet(change.value)
             added == SelectSeq(change.value, LAMBDA x : x \notin duplicates)
         IN  [row EXCEPT !.tags = (@ \cap duplicates) \cup ToSet(added)]
DoAdd(row, change) == [row EXCEPT !.tags = @ \cup ToSet(change.value)]
\* A value that is not there, or not any more, fails the request.
Removable(row, change) ==
    /\ ToSet(change.value) \subseteq row.tags
    /\ IsInjective(change.value)
DoRemove(row, change) == [row EXCEPT !.tags = @ \ ToSet(change.value)]

Failed == [failed |-> TRUE]
DoChange(row, change) ==
    CASE row = Failed -> Failed
      [] row # Failed /\ change.op = "replace" -> DoReplace(row, change)
      [] row # Failed /\ change.op = "add" -> DoAdd(row, change)
      [] row # Failed /\ change.op = "remove" ->
           IF Removable(row, change) THEN DoRemove(row, change) ELSE Failed

\* The columns have types.
ASSUME PatchAssumption ==
    \A row \in TableRows, n \in DOMAIN Patches :
        FoldLeft(DoChange, row, Patches[n]) \in TableRows \cup {Failed}

PatchPackage ==
    /\ shelf # <<>> /\ patches < MaxPatches
    /\ patches' = patches + 1
    /\ \E i \in Shelf, n \in DOMAIN Patches :
          LET row == FoldLeft(DoChange, shelf[i], Patches[n]) IN
          IF row = Failed THEN UNCHANGED <<shelf, search>>
          ELSE /\ shelf' = [shelf EXCEPT ![i] = row]
               /\ search' = [search EXCEPT !.steady = @ \ {i}]

SearchNext == Stock \/ BeginSearch \/ TurnPage \/ PatchPackage

SearchSpec == SearchInit /\ [][SearchNext]_searching

-----------------------------------------------------------------------------
\* Who follows the markers to the end gets every package that matched all the
\* time, exactly once, whatever others were patched between two pages, unless
\* a marker itself was patched before it was used.
ListedOnce ==
    search.pc = "done" /\ ~search.moved =>
        \A i \in search.steady :
            Cardinality({k \in DOMAIN search.shown : search.shown[k] = i}) = 1
=============================================================================
