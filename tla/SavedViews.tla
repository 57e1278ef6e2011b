------------------------------ MODULE SavedViews ------------------------------
(***************************************************************************)
(* Saved views: named filters of listings, analyses and the catalogue.     *)
(* A filter is saved from the texts of a web request, from the fields of   *)
(* the catalogue page's button or from the JSON of a command, validated by *)
(* its kind, edited and cloned in two steps, the read and the write, and   *)
(* run from the web pages, which turn it into texts again, or from the     *)
(* command line.  A value is a list or not, of items with the type Python  *)
(* gives them and the text str() makes of them.                            *)
(***************************************************************************)
EXTENDS Integers, Sequences

CONSTANTS
  SwitchTexts,        \* text -> "True" or "False", for the texts lower() makes a switch of
  NumberTexts,        \* text -> the integer it is, for the texts str() writes
  FloatTexts,         \* text -> what the page writes of the float it is, for other numbers
  PointTexts,         \* those of the floats' texts that have a point
  NegativeFloats,     \* those below zero
  ViewUsers,          \* web requests that may be under way at once
  ViewNames,          \* the names operators give, the catalogue's own included
  CatalogueRequests,  \* the queries the catalogue page is opened with
  WebSaves,           \* [name, kind, query] of /views/save-current
  CliSaves,           \* [name, kind, params] of `views save`
  ViewEdits           \* the queries of /views/<name>/edit, but for the name

VARIABLES
  saved_views,        \* name -> [kind, params], what it was meant for included
  viewRequest         \* user -> the catalogue page it sees, the refusal of its button,
                      \* or the write to come

viewVars == <<saved_views, viewRequest>>

CATALOG_DEFAULT_VIEW == "catalog-markets-default"

NoView == [kind |-> "none"]
NoViewRequest == [at |-> "idle"]
NoFilter == [scope |-> "none"]

ViewsInit ==
  /\ saved_views = [name \in ViewNames |-> NoView]
  /\ viewRequest = [u \in ViewUsers |-> NoViewRequest]

-------------------------------------------------------------------------------
(* Texts and values.                                                       *)

Whole == DOMAIN NumberTexts
Numbers == Whole \cup DOMAIN FloatTexts
BelowZero == {text \in Whole : NumberTexts[text] < 0} \cup NegativeFloats

\* float() of a text, as what the page's button writes of it: a whole number
\* without its point, others as str() does, 0.00001 as 1e-05.
AsFloat(text) == IF text \in Whole THEN text ELSE FloatTexts[text]

TextOf(n) == CHOOSE text \in DOMAIN NumberTexts : NumberTexts[text] = n

Item(type, text) == [type |-> type, text |-> text]
One(type, text) == [list |-> FALSE, items |-> <<Item(type, text)>>]

\* _coerce_query_value: isdigit() knows no sign, and a number without a point is
\* not taken for a float.
Coerced(text) ==
  IF text \in DOMAIN SwitchTexts THEN Item("bool", SwitchTexts[text])
  ELSE IF text \in Whole \ BelowZero THEN Item("int", text)
  ELSE IF text \in PointTexts THEN Item("float", AsFloat(text))
  ELSE Item("str", text)

\* The value of a key that a request gives one or several texts.
QueryParam(texts) ==
  [list |-> Len(texts) > 1, items |-> [i \in DOMAIN texts |-> Coerced(texts[i])]]

query_value(query, key, default) ==
  IF key \in DOMAIN query THEN query[key][Len(query[key])] ELSE default

ParamKey(kind, key) ==
  CASE kind = "markets_catalog" /\ key = "category" -> "categories"
    [] kind = "markets_catalog" /\ key = "limit" -> "page_size"
    [] OTHER -> key

\* The later of two keys that mean one parameter wins; no request here has both.
QueryParams(kind, query) ==
  [param \in {ParamKey(kind, key) : key \in DOMAIN query} |->
     QueryParam(query[CHOOSE key \in DOMAIN query : ParamKey(kind, key) = param])]

-------------------------------------------------------------------------------
(* SavedViewService.                                                        *)

GroupKinds == {"market", "category", "source_type", "confidence_band", "verdict_type"}
ListSorts == {"updated_desc", "updated_asc", "created_desc", "created_asc", "status"}

Schema(required, optional, choices) ==
  [required |-> required, optional |-> optional, choices |-> choices]

SCHEMAS ==
  [proposals_list |-> Schema({"scope"}, {"limit", "offset", "sort"},
     [scope |-> {"all", "active", "approved"}, sort |-> ListSorts]),
   intents_list |-> Schema({"scope"}, {"limit", "offset", "sort"},
     [scope |-> {"all", "active", "terminal"}, sort |-> ListSorts]),
   alerts_list |-> Schema({}, {"watchlist_only", "state"},
     [state |-> {"open", "acknowledged", "dismissed", "resolved"}]),
   analysis_outcomes |-> Schema({"group_by"}, {"since_hours"}, [group_by |-> GroupKinds]),
   analysis_learning |-> Schema({"group_by"}, {"since_hours"}, [group_by |-> GroupKinds]),
   markets_catalog |-> Schema({},
     {"scope", "categories", "search", "min_liquidity", "orderbook_only", "sort", "limit",
      "page", "page_size"},
     [scope |-> {"active", "closed", "all"},
      sort |-> {"liquidity_desc", "volume_desc", "ending_soon", "newest"}])]

\* Python's True and False are integers too; only a zero is asked of a float.
AtLeast(item, least) ==
  CASE item.type = "int" -> NumberTexts[item.text] >= least
    [] item.type = "bool" -> item.text = "True" \/ least = 0
    [] item.type = "float" -> item.text \notin BelowZero

ValidParam(kind, key, value) ==
  LET item == value.items[1]
      type == IF value.list THEN "list" ELSE item.type
  IN  CASE key \in DOMAIN SCHEMAS[kind].choices ->
             type = "str" /\ item.text \in SCHEMAS[kind].choices[key]
        [] key \in {"watchlist_only", "orderbook_only"} -> type = "bool"
        [] key = "search" -> type = "str"
        [] key = "categories" ->
             type = "list" /\ \A i \in DOMAIN value.items : value.items[i].type = "str"
        [] key = "min_liquidity" -> type \in {"int", "float", "bool"} /\ AtLeast(item, 0)
        [] OTHER ->
             type \in {"int", "bool"} /\ AtLeast(item, IF kind = "markets_catalog" THEN 1 ELSE 0)

validate(kind, params) ==
  /\ SCHEMAS[kind].required \subseteq DOMAIN params
  /\ DOMAIN params \subseteq SCHEMAS[kind].required \cup SCHEMAS[kind].optional
  /\ \A key \in DOMAIN params : ValidParam(kind, key, params[key])

\* INSERT OR REPLACE by the name: whatever had it is gone.
SaveView(name, kind, params, meant) ==
  saved_views' = [saved_views EXCEPT ![name] = [kind |-> kind, params |-> params, meant |-> meant]]

-------------------------------------------------------------------------------
(* A view's parameters as texts again, and what the pages make of them.    *)

Texts(value) == [i \in DOMAIN value.items |-> value.items[i].text]

\* Mutant: the catalogue's categories keep the parameter's name.
ViewQuery_KeepsCategories(view) ==
  [key \in DOMAIN view.params |-> Texts(view.params[key])]

\* _params_query; the pages' string defaults are ignored, the pages have their own.
ViewQuery(view) ==
  LET queryKey(param) ==
        IF view.kind = "markets_catalog" /\ param = "categories" THEN "category" ELSE param
  IN  [key \in {queryKey(param) : param \in DOMAIN view.params} |->
         Texts(view.params[CHOOSE param \in DOMAIN view.params : queryKey(param) = key])]

\* A zero counts as no size at all.
page_size(query) ==
  LET given(key) == IF key \in DOMAIN query THEN NumberTexts[query_value(query, key, "")] ELSE 0
      size == IF given("page_size") # 0 THEN given("page_size")
              ELSE IF given("limit") # 0 THEN given("limit") ELSE 20
  IN  IF size <= 0 THEN 20 ELSE IF size > 100 THEN 100 ELSE size

CatalogueFilter(query) ==
  LET scope == query_value(query, "scope",
                 IF query_value(query, "active", "1") \in {"0", "false", "no"}
                   THEN "closed" ELSE "active")
      sort == query_value(query, "sort", "liquidity_desc")
  IN  [scope |-> IF scope \in SCHEMAS.markets_catalog.choices.scope THEN scope ELSE "active",
       sort |-> IF sort \in SCHEMAS.markets_catalog.choices.sort THEN sort ELSE "liquidity_desc",
       page_size |-> page_size(query),
       categories |-> IF "category" \in DOMAIN query THEN query.category ELSE <<>>,
       search |-> query_value(query, "search", ""),
       min_liquidity |-> IF "min_liquidity" \in DOMAIN query
                         THEN AsFloat(query_value(query, "min_liquidity", "")) ELSE "",
       orderbook_only |-> query_value(query, "orderbook_only", "false") \in {"1", "true", "yes"}]

\* A catalogue opened without a filter takes the one saved under its name.
ResolvedQuery(query) ==
  LET saved == saved_views[CATALOG_DEFAULT_VIEW]
      filters == {"scope", "category", "search", "min_liquidity", "orderbook_only", "sort",
                  "limit", "page", "page_size"}
  IN  IF query_value(query, "reset", "") \in {"1", "true", "yes"} THEN <<>>
      ELSE IF DOMAIN query \cap filters = {} /\ saved.kind = "markets_catalog" THEN ViewQuery(saved)
      ELSE query

\* The fields of the page's button, without the name and the kind.
SavedViewFields(filter) ==
  LET given == {"scope", "sort", "page_size"}
                 \cup {key \in {"search", "min_liquidity"} : filter[key] # ""}
                 \cup {key \in {"orderbook_only"} : filter[key]}
                 \cup {key \in {"category"} : filter.categories # <<>>}
  IN  [key \in given |->
         CASE key = "category" -> filter.categories
           [] key = "orderbook_only" -> <<"true">>
           [] key = "page_size" -> <<TextOf(filter.page_size)>>
           [] OTHER -> <<filter[key]>>]

\* int() of a text that is none fails the page.
PageError == [failed |-> TRUE]

\* What a listing or an analysis shows for a query of the web.
WebListing(kind, query) ==
  CASE kind \in {"proposals_list", "intents_list"} -> [scope |-> query_value(query, "scope", "all")]
    [] kind = "alerts_list" ->
         [state |-> query_value(query, "state", "any"),
          watchlist_only |-> query_value(query, "watchlist_only", "0") = "1"]
    [] OTHER ->
         IF "since_hours" \in DOMAIN query /\ query_value(query, "since_hours", "") \notin Whole
         THEN PageError
         ELSE [scope |-> query_value(query, "scope", "outcomes"),
               group_by |-> query_value(query, "group_by", "market"),
               since_hours |-> query_value(query, "since_hours", "ever")]

\* An hour count may be a switch, which the page cannot read back.
SwitchOfHours(view) ==
  "since_hours" \in DOMAIN view.params /\ view.params.since_hours.items[1].type = "bool"

\* What `views run` lists: it takes the parameters as they are, True for an hour.
CliListing(view) ==
  LET given(key, default) ==
        IF key \in DOMAIN view.params THEN view.params[key].items[1].text ELSE default
  IN  CASE view.kind \in {"proposals_list", "intents_list"} -> [scope |-> given("scope", "all")]
        [] view.kind = "alerts_list" ->
             [state |-> given("state", "any"),
              watchlist_only |-> given("watchlist_only", "False") = "True"]
        [] OTHER ->
             [scope |-> IF view.kind = "analysis_outcomes" THEN "outcomes" ELSE "learning_summary",
              group_by |-> given("group_by", "market"),
              since_hours |-> IF SwitchOfHours(view)
                              THEN TextOf(IF given("since_hours", "") = "True" THEN 1 ELSE 0)
                              ELSE given("since_hours", "ever")]

-------------------------------------------------------------------------------
(* The requests: a field that is a number is given one, under one name.    *)

TextsOK(query) ==
  \A key \in DOMAIN query :
    /\ query[key] \in Seq(STRING) \ {<<>>}
    /\ \A i \in DOMAIN query[key] :
         /\ key \in {"page_size", "limit"} => query[key][i] \in Whole
         /\ key = "min_liquidity" => query[key][i] \in Numbers

RequestOK(query) ==
  /\ TextsOK(query)
  /\ "categories" \notin DOMAIN query /\ ~({"page_size", "limit"} \subseteq DOMAIN query)

\* A value of a command's JSON.
ValueOK(value) ==
  /\ value.list \in BOOLEAN
  /\ value.items \in Seq([type : {"bool", "int", "float", "str"}, text : STRING])
  /\ ~value.list => Len(value.items) = 1
  /\ \A i \in DOMAIN value.items :
       /\ value.items[i].type = "bool" => value.items[i].text \in {"True", "False"}
       /\ value.items[i].type = "int" => value.items[i].text \in Whole

\* A word in quotes is a text; the provers do not know it by themselves.
ASSUME WordsAreTexts ==
  {"", "true", "True", "false", "False", "active", "closed", "all", "liquidity_desc", "volume_desc",
   "ending_soon", "newest"} \subseteq STRING

ASSUME ViewsAssumption ==
  /\ \A text \in Whole : NumberTexts[text] \in Int
  /\ \A n \in {0, 1, 20, 100} : \E text \in Whole : NumberTexts[text] = n
  /\ DOMAIN SwitchTexts \cup Numbers \subseteq STRING
  /\ \A text \in DOMAIN SwitchTexts : SwitchTexts[text] \in {"True", "False"}
  /\ {"true", "True", "false", "False"} \subseteq DOMAIN SwitchTexts
  /\ SwitchTexts["True"] = "True" /\ SwitchTexts["true"] = "True"
  /\ SwitchTexts["False"] = "False" /\ SwitchTexts["false"] = "False"
  /\ \A text \in DOMAIN SwitchTexts \cup Numbers :
       text \notin {""} \cup UNION {SCHEMAS.markets_catalog.choices[key] : key \in {"scope", "sort"}}
  /\ Numbers \cap DOMAIN SwitchTexts = {} /\ Whole \cap DOMAIN FloatTexts = {}
  /\ PointTexts \cup NegativeFloats \subseteq DOMAIN FloatTexts
  /\ \A text \in DOMAIN FloatTexts :
       /\ AsFloat(text) \in Numbers /\ AsFloat(AsFloat(text)) = AsFloat(text)
       /\ text \in BelowZero <=> AsFloat(text) \in BelowZero
  /\ CATALOG_DEFAULT_VIEW \in ViewNames
  /\ \A query \in CatalogueRequests \cup ViewEdits : RequestOK(query)
  /\ \A save \in WebSaves : save.kind \in DOMAIN SCHEMAS /\ RequestOK(save.query)
  /\ \A save \in CliSaves :
       /\ save.kind \in DOMAIN SCHEMAS \ {"markets_catalog"}
       /\ \A key \in DOMAIN save.params : ValueOK(save.params[key])

-------------------------------------------------------------------------------
Page(filter) == [at |-> "page", filter |-> filter]
Refusal(filter) == [at |-> "refused", filter |-> filter]

OpenCatalogue(u) ==
  /\ viewRequest[u].at # "write"
  /\ \E query \in CatalogueRequests :
       viewRequest' = [viewRequest EXCEPT ![u] = Page(CatalogueFilter(ResolvedQuery(query)))]
  /\ UNCHANGED saved_views

\* Running a view of the catalogue opens the catalogue's page with its filter.
RunCatalogueView(u, name) ==
  /\ viewRequest[u].at # "write"
  /\ saved_views[name].kind = "markets_catalog"
  /\ LET query == ResolvedQuery(ViewQuery(saved_views[name]))
     IN  viewRequest' = [viewRequest EXCEPT ![u] = Page(CatalogueFilter(query))]
  /\ UNCHANGED saved_views

\* The page's button: the filter on the page becomes the default view.
PressSave(u) ==
  /\ viewRequest[u].at = "page"
  /\ LET filter == viewRequest[u].filter
         params == QueryParams("markets_catalog", SavedViewFields(filter))
     IN  IF validate("markets_catalog", params)
           THEN /\ SaveView(CATALOG_DEFAULT_VIEW, "markets_catalog", params, filter)
                /\ viewRequest' = [viewRequest EXCEPT ![u] = NoViewRequest]
           ELSE /\ viewRequest' = [viewRequest EXCEPT ![u] = Refusal(filter)]
                /\ UNCHANGED saved_views

\* /views/save-current with the filter a link or a form names.
SaveCurrent(save) ==
  /\ LET params == QueryParams(save.kind, save.query)
     IN  /\ validate(save.kind, params)
         /\ SaveView(save.name, save.kind, params,
              IF save.kind = "markets_catalog" THEN CatalogueFilter(save.query) ELSE NoFilter)
  /\ UNCHANGED viewRequest

\* `views save` of the command line.
SaveFromCli(save) ==
  /\ validate(save.kind, save.params)
  /\ SaveView(save.name, save.kind, save.params, NoFilter)
  /\ UNCHANGED viewRequest

Overlaid(new, old) ==
  [key \in DOMAIN new \cup DOMAIN old |-> IF key \in DOMAIN new THEN new[key] ELSE old[key]]

\* An edit reads the row and merges its fields in; a clone has none.
ReadView(u, name) ==
  /\ viewRequest[u].at # "write"
  /\ saved_views[name] # NoView
  /\ LET view == saved_views[name]
     IN  \E query \in ViewEdits \cup {<<>>}, target \in ViewNames :
           LET given == QueryParams(view.kind, query)
               kept == [key \in {key \in DOMAIN SavedViewFields(view.meant) :
                                   ParamKey(view.kind, key) \notin DOMAIN given} |->
                          SavedViewFields(view.meant)[key]]
           IN  viewRequest' = [viewRequest EXCEPT ![u] =
                 [at |-> "write", name |-> target, kind |-> view.kind,
                  params |-> Overlaid(given, view.params),
                  meant |-> IF view.kind = "markets_catalog"
                            THEN CatalogueFilter(Overlaid(query, kept))
                            ELSE NoFilter]]
  /\ UNCHANGED saved_views

\* Its write: another's save of the view in between is overwritten.
WriteView(u) ==
  LET r == viewRequest[u]
  IN  /\ r.at = "write"
      /\ IF validate(r.kind, r.params)
           THEN SaveView(r.name, r.kind, r.params, r.meant)
           ELSE UNCHANGED saved_views
      /\ viewRequest' = [viewRequest EXCEPT ![u] = NoViewRequest]

ViewsNext ==
  \/ \E u \in ViewUsers : OpenCatalogue(u) \/ PressSave(u) \/ WriteView(u)
  \/ \E u \in ViewUsers, name \in ViewNames : RunCatalogueView(u, name) \/ ReadView(u, name)
  \/ \E save \in WebSaves : SaveCurrent(save)
  \/ \E save \in CliSaves : SaveFromCli(save)

ViewsSpec == ViewsInit /\ [][ViewsNext]_viewVars

(***************************************************************************)
(* SavedViewsKeepTheirFilter: a view run from the pages shows the filter   *)
(* it was saved, edited or cloned with: the catalogue's what was on the    *)
(* page or in the request, a listing or an analysis what `views run` lists *)
(* (the pages show no order and no limit).  Texts, typed values and texts  *)
(* again lose only: a switch, which comes back as "True" and is read as    *)
(* off; an hour count that is a switch, which fails the page; the scope of *)
(* a learning view, whose default the pages drop; all of a catalogue view  *)
(* without parameters, which shows the default one.  And the page's button *)
(* is refused only for one category alone, which is not a list, for a text *)
(* that reads as a number or a switch, or for a minimum below zero or      *)
(* written without a point, as 1e-05, both of which the page takes.        *)
(***************************************************************************)
SavedViewsKeepTheirFilter ==
  /\ \A name \in ViewNames :
       LET view == saved_views[name]
       IN  /\ view.kind = "markets_catalog" /\ DOMAIN view.params # {} =>
                CatalogueFilter(ResolvedQuery(ViewQuery(view)))
                  = [view.meant EXCEPT !.orderbook_only = FALSE]
           /\ view.kind = "alerts_list" =>
                WebListing(view.kind, ViewQuery(view)) = [CliListing(view) EXCEPT !.watchlist_only = FALSE]
           /\ view.kind \in {"analysis_outcomes", "analysis_learning"} /\ SwitchOfHours(view) =>
                WebListing(view.kind, ViewQuery(view)) = PageError
           /\ view.kind = "analysis_learning" /\ ~SwitchOfHours(view) =>
                WebListing(view.kind, ViewQuery(view)) = [CliListing(view) EXCEPT !.scope = "outcomes"]
           /\ \/ view.kind \in {"proposals_list", "intents_list"}
              \/ view.kind = "analysis_outcomes" /\ ~SwitchOfHours(view)
              => WebListing(view.kind, ViewQuery(view)) = CliListing(view)
  /\ \A u \in ViewUsers :
       viewRequest[u].at = "refused" =>
         LET filter == viewRequest[u].filter
         IN  \/ Len(filter.categories) = 1
             \/ \E i \in DOMAIN filter.categories : Coerced(filter.categories[i]).type # "str"
             \/ Coerced(filter.search).type # "str"
             \/ filter.min_liquidity \in BelowZero \cup (DOMAIN FloatTexts \ PointTexts)
==============================================================================
