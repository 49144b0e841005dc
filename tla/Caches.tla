-------------------------------- MODULE Caches --------------------------------
(***************************************************************************)
(* Two caches of what was computed or fetched before: the summaries of the *)
(* trends, kept in a database for a month under a key of their items and   *)
(* their model, and the figures of the model hub, which a task refreshes   *)
(* every six hours for the models of the catalogue while that may be       *)
(* replaced.                                                               *)
(***************************************************************************)
EXTENDS Naturals, FiniteSets

CONSTANTS Asks,    \* calls of summarize_trends
          Entries,  \* ids of the catalogue
          Repos,   \* repositories of the hub
          MaxHub   \* changes of the hub's figures (a bound)

ASSUME RepoAssumption == "direct" \notin Repos /\ MaxHub \in Nat
ASSUME AsksAreCalls == "before" \notin Asks /\ "nobody" \notin Asks

VARIABLES rows,   \* TrendsSummaryStore: the row of each key
          asks    \* the calls

summaryVars == <<rows, asks>>

NoRow == [by |-> "nobody", old |-> FALSE, readable |-> TRUE]
Summarizers == {"ollama", "lm-studio", "mock"}
Bundles == {"none", "some"}
Questions == [items : Bundles, runtime : {"ollama", "lm-studio", "other"}, named : BOOLEAN,
              force : BOOLEAN]

\* A runtime it knows and the name of a model, or the mock.
Summarizer(q) == IF q.named /\ q.runtime \in Summarizers THEN q.runtime ELSE "mock"
TrendKey(q) == <<q.items, Summarizer(q)>>

\* A row of an earlier run may hold sections that this version cannot read.
SummariesInit ==
  /\ rows \in {[k \in Bundles \X Summarizers |-> IF k = <<"some", "ollama">> THEN r ELSE NoRow] :
                 r \in {NoRow} \cup [by : {"before"}, old : BOOLEAN, readable : BOOLEAN]}
  /\ asks = [c \in Asks |-> [at |-> "none"]]

AskGoes(c, at) == asks' = [asks EXCEPT ![c].at = at]
Answer(c, by, old) ==
  asks' = [asks EXCEPT ![c] = [at |-> "ok", q |-> asks[c].q, by |-> by, old |-> old]]

Ask(c, q) ==
  /\ asks[c].at = "none"
  /\ asks' = [asks EXCEPT ![c] = [at |-> IF q.force THEN "summarize" ELSE "look", q |-> q]]
  /\ UNCHANGED rows

\* (fault) a row is found however old it is
LookAtAny(c) ==
  /\ asks[c].at = "look" /\ UNCHANGED rows
  /\ LET row == rows[TrendKey(asks[c].q)]
     IN \/ AskGoes(c, "summarize")
        \/ row # NoRow /\ Answer(c, row.by, row.old)

\* get: a row older than thirty days is not found, nor one when the query fails;
\* sections that cannot be read fail the call, and the next one.
Look(c) ==
  /\ asks[c].at = "look" /\ UNCHANGED rows
  /\ LET row == rows[TrendKey(asks[c].q)]
     IN \/ AskGoes(c, "summarize")
        \/ row # NoRow /\ ~row.old /\ ~row.readable /\ AskGoes(c, "error")
        \/ row # NoRow /\ ~row.old /\ row.readable /\ Answer(c, row.by, row.old)

\* summarize_bundle: nothing to summarize, a model that fails or is cut off, or an
\* answer without a known header fail the call.
Summarize(c, by) ==
  /\ asks[c].at = "summarize" /\ Summarizer(asks[c].q) = by /\ UNCHANGED rows
  /\ \/ asks[c].q.items = "some" /\ AskGoes(c, "put")
     \/ (asks[c].q.items = "none" \/ by # "mock") /\ AskGoes(c, "error")

\* A chat of a runtime whose deltas are put together; the mock answers what it is
\* given under the headers it is known by.
ByOllama(c) == Summarize(c, "ollama")
ByLmStudio(c) == Summarize(c, "lm-studio")
ByMock(c) == Summarize(c, "mock")

\* A summary that cannot be kept is not returned either.
Put(c) ==
  /\ asks[c].at = "put"
  /\ \/ /\ rows' = [rows EXCEPT ![TrendKey(asks[c].q)] = [by |-> c, old |-> FALSE, readable |-> TRUE]]
        /\ Answer(c, c, FALSE)
     \/ AskGoes(c, "error") /\ UNCHANGED rows

\* Thirty days go by.
GrowStale(k) ==
  /\ rows[k] # NoRow /\ ~rows[k].old
  /\ rows' = [rows EXCEPT ![k].old = TRUE]
  /\ UNCHANGED asks

SummariesNext ==
  \/ \E c \in Asks : \/ \E q \in Questions : Ask(c, q)
                     \/ Look(c) \/ ByOllama(c) \/ ByLmStudio(c) \/ ByMock(c) \/ Put(c)
  \/ \E k \in Bundles \X Summarizers : GrowStale(k)

-----------------------------------------------------------------------------
VARIABLES catalog,  \* CatalogState: the repository of each model
          meta,     \* HfMetaCache: whose figures each model has, and how new
          hub,      \* the edition of the figures of all repositories, a number
          cron,     \* the task that refreshes them
          settled   \* models fetched in a round that no new catalogue met (history)

metaVars == <<catalog, meta, hub, cron, settled>>

NoMeta == [repo |-> "none", n |-> 0]
Catalogs == [Entries -> Repos \cup {"direct"}]

MetaInit ==
  /\ catalog \in Catalogs
  /\ meta = [m \in Entries |-> NoMeta]
  /\ hub = 1
  /\ cron = [at |-> "sleep", todo |-> {}, got |-> {}, met |-> FALSE, since |-> hub]
  /\ settled = [m \in Entries |-> 0]

HubChanges ==
  /\ hub <= MaxHub /\ hub' = hub + 1
  /\ UNCHANGED <<catalog, meta, cron, settled>>

\* swap: another catalogue is in force; the task knows nothing of it.
SwapCatalog ==
  /\ \E c \in Catalogs \ {catalog} : catalog' = c
  /\ cron' = [cron EXCEPT !.met = cron.at # "sleep"]
  /\ settled' = [m \in Entries |-> 0]
  /\ UNCHANGED <<meta, hub>>

\* refresh_all over a snapshot of the catalogue: the models with a repository.
BeginRefresh ==
  /\ cron.at = "sleep"
  /\ cron' = [at |-> "fetch", todo |-> {<<m, catalog[m]>> : m \in {n \in Entries : catalog[n] \in Repos}},
              got |-> {}, met |-> FALSE, since |-> hub]
  /\ UNCHANGED <<catalog, meta, hub, settled>>

\* fetch_one, in any order; a model without an answer is left out.
FetchOne(p) ==
  /\ cron.at = "fetch" /\ p \in cron.todo
  /\ \E got \in {{}, {<<p[1], [repo |-> p[2], n |-> hub]>>}} :
       cron' = [cron EXCEPT !.todo = @ \ {p}, !.got = @ \cup got]
  /\ UNCHANGED <<catalog, meta, hub, settled>>

\* Only when all have ended are the answers kept, one after the other.
KeepOne(g) ==
  /\ cron.at = "fetch" /\ cron.todo = {} /\ g \in cron.got
  /\ meta' = [meta EXCEPT ![g[1]] = g[2]]
  /\ settled' = [settled EXCEPT ![g[1]] = IF cron.met THEN 0 ELSE cron.since]
  /\ cron' = [cron EXCEPT !.got = @ \ {g}]
  /\ UNCHANGED <<catalog, hub>>

EndRefresh ==
  /\ cron.at = "fetch" /\ cron.todo = {} /\ cron.got = {}
  /\ cron' = [cron EXCEPT !.at = "sleep", !.met = FALSE, !.since = 1]
  /\ UNCHANGED <<catalog, meta, hub, settled>>

MetaNext ==
  \/ HubChanges \/ SwapCatalog \/ BeginRefresh \/ EndRefresh
  \/ \E p \in cron.todo : FetchOne(p)
  \/ \E g \in cron.got : KeepOne(g)

-----------------------------------------------------------------------------
\* A summary that is returned is of the items and by the model that were asked for,
\* was not a month old when it was found, and is its caller's own if that insisted;
\* what the store holds was returned to the call that made it, so that nothing that
\* was told as failed is found later; and what a call made is there, but for what a
\* later call of its key made.
SummariesFit ==
  /\ \A c \in Asks : asks[c].at = "ok" =>
       LET a == asks[c] IN
         /\ a.q.items # "none" /\ ~a.old
         /\ a.q.force => a.by = c
         /\ a.by # "before" => TrendKey(asks[a.by].q) = TrendKey(a.q)
         /\ a.by = c => rows[TrendKey(a.q)] # NoRow /\ rows[TrendKey(a.q)].by # "before"
  /\ \A k \in DOMAIN rows : rows[k] # NoRow /\ rows[k].by # "before" =>
       LET d == asks[rows[k].by] IN d.at = "ok" /\ TrendKey(d.q) = k

\* get_catalog: an entry comes with the figures that are kept under its id.
Shown(m) == meta[m]

\* After a round of the refresh that no new catalogue met, each model that was fetched
\* shows the figures of the repository it has in the catalogue, as new as the round.
FiguresFit ==
  \A m \in Entries : settled[m] > 0 =>
    Shown(m).repo = catalog[m] /\ Shown(m).n >= settled[m]

\* What the caches give out is what they were asked for.
CachesFit == SummariesFit /\ FiguresFit
=============================================================================
