# Fly Desk: a verification project

Fly Desk is a private flight-search desk written in TypeScript for Bun. A React
page talks to a web unit; the web unit delegates searches to a runner; the
runner asks two flight providers (Agil, and Click and Book Plus, which the code
calls Costamar) through worker processes, keeps the jobs it runs in memory and
in SQLite, and a third unit answers the purchase links `/r/<id>` from that file.
This directory holds TLA+ models of the parts whose correctness lies in the
order of events, the TLC configurations that check them on small instances, and
theorems that TLAPS checks for every value of the constants.

Paths below are relative to the repository (`src/...` is its `src` directory).

- [Inventory](#inventory): the system, its parts and what is hard about each
- [Plan](#plan): what is done and what is left
- [Modules](#modules): which module models what, and how its state maps to the code
- [Runs](#runs): what TLC checks, the bounds and the fairness
- [What the runs found](#what-the-runs-found)
- [Proofs](#proofs): what is proved, from what, along which argument
- [Not modelled](#not-modelled)

## Inventory

| Part | Source | State it keeps | What is hard | Modules |
|---|---|---|---|---|
| Search admission | `src/search-admission.ts`, `src/unit-memory.ts` | queue, searches that hold capacity, who was served last, a memory timer, a revision | order and fairness, two limits at once, memory as a third, departures in the middle of a turn | `SearchAdmission`, `SearchLease` |
| Job lifecycle | `src/http-router.ts`, `src/index.ts` | live jobs with their abort signal, pending syncs, the closures of each run | a stop at any await, late answers, timers that outlive their job, exactly one release | `SearchJob` |
| Session store | `src/session-store.ts`, `src/runtime.ts` | jobs, purchase paths, deferred jobs, persisted versions, jobs only on disk, waiters, two timers; the SQLite rows | refused writes, deferral, eviction against stale rows, crash and restart | `SessionStore` |
| Search worker pool | `src/search-worker-client.ts`, `src/search-worker.ts` | one process per provider, pending jobs, a retiring flag | answers in the pipe when a process exits, recycling with a new worker beside the old one | `WorkerPool`, `ProviderCall` |
| Price reuse | `src/session-store.ts`, `src/http-router.ts` | finished jobs as a cache | a fare's age against a renewed `completedAt` | `PriceReuse` |
| Result aggregation | `src/http-router.ts`, `src/core` | offers of each provider, matrix cells | answers in any order over a cached list, equal prices, failures | `OfferList`, `MatrixBoard` |
| Provider fetch | `src/provider-fetch.ts` | one deadline, one resend | an answer that arrives as the request is given up | `ProviderFetch` |
| Provider status, prewarm | `src/provider-status.ts`, `src/provider-prewarm.ts` | last evidence for each provider | a prewarm that ends after a search | `ProviderStatus` |
| Runner proxy | `src/search-service-client.ts`, `src/server.ts` | none between requests | a write must not be sent twice, a search counted once | `RunnerProxy` |
| Redirect unit | `src/redirect-service.ts`, `src/redirect-index.ts` | reads the runner's file | a row that is not written yet, a token that must be renewed, two deadlines | `RedirectUnit` |
| Login admission | `src/login-admission.ts` | failures in a window for each client, bounded | eviction inside the window | `LoginAdmission` |
| Web session | `src/web-auth.ts` | cookies, in the browser | answers that overlap with each other and with a logout | `WebSession` |
| Locations | `src/location-suggestion-cache.ts`, `src/location-usage-store.ts` | entries of each unit, shared rows, counters | two units over one file | `LocationCache`, `LocationUsage` |
| Airline marks | `src/airline-mark-store.ts` | downloads in flight, negative answers, files | shared failure, two units that overlap, a staging file | `AirlineMarks` |
| Provider context | `src/provider-context.ts` | tokens of a file, the environment, the process and browsers | caches of each, two times in a token | `BrandedToken` |
| Quotations | `src/http-router.ts`, `src/quotation-exchange-rate.ts` | validations in flight, the rate of the day | a list that goes on changing, shared lookups | `Quotation` |
| Agil client | `src/local-agil.ts` | the shared session, slots, the storage of a browser | one load for many, stops and renewals, sources that mix | `AgilSession`, `AgilSearch`, `AgilStorage`, `DateSweep` |
| Costamar client | `src/local-costamar.ts` | warm-ups, browsers, pages, what a person gave | launches and drivers nobody waits for | `CostamarSession`, `B2bPage`, `DateSweep` |
| Browser leftovers | `src/browser-targets.ts`, `src/temp-artifacts.ts` | open tabs, temporary profiles | a worker that stops, a sweep beside a living process | `BrowserTabs`, `TempProfiles` |
| Request contract | `src/http-search-contract.ts`, `src/core` | none | two ways of counting dates | `FlexibleDates` |
| Page | `frontend/src/hooks`, `frontend/src/lib/api.ts` | the run in front, its job, its polls, months, station fields | answers after a stop, a replaced search, a list of older text | `SearchPage`, `MonthSweep`, `StationField` |

How they interact. The page posts a request (`SearchPage`, `MonthSweep`) to the
web unit, which normalizes it (`FlexibleDates`) and hands it to the runner
(`RunnerProxy`). `handleSearchRequest` creates a job in the store, seeded by an
earlier one (`PriceReuse`), and calls `admitAndRunJob`, which asks admission for
a lease; admission calls back and resolves or rejects a promise. The run asks
the pool, one call per provider; a worker asks its provider date by date
(`DateSweep`) and GDS by GDS (`AgilSearch`), with a session (`AgilSession`,
`CostamarSession`) found in storage, tokens and pages. Progress merges into the
closure of the run (`OfferList`, `MatrixBoard`) and reaches the store through a
trailing timer. The page long-polls the store; a stop, a page that went silent,
or the shutdown aborts the job's signal, which both leaves the admission queue
and hangs up on the workers. The store writes by a debounce, and the redirect
unit reads the file.

What makes each correct is the property of its run, below; the hazard each one
is for is in `PROJECT.json` (`hazards`), at the line where it bites.

## Plan

Done: every part of the table above is modelled and checked; two components are
shown to implement an abstract specification (`SearchAdmission` implements
`SearchLease`, which `SearchJob` extends; `WorkerPool` implements
`ProviderCall`); and every safety property of the passing runs is proved, with
the inductive invariants of [Proofs](#proofs).

Left: what no proof here can reach, the liveness properties.

The modules to prove about have no recursive operators; sums over sets of
searches are cardinalities of token sets for that reason.

## Modules

An action is one run of JavaScript to its end: a handler, a timer, the
continuation of an await. What lies between two awaits is one action; what an
await separates are two. A component that owns a clock has its own (`now`,
`tick`, `hour`, ...) with a bound, and time passes only while no deadline of the
code is due, where the code has one.

Components that share no state are composed side by side: `MCSearches`,
`MCPage`, `MCProviders` and `MCDesk` hold several of them with a variable `part`
that says which one a behaviour moves. That is no restriction of any of them,
and it is proved: `SearchesAreTheirParts`, `ProvidersAreTheirParts` and
`DeskIsItsParts` say that a behaviour of the whole is one of each part.

`MCSearchAdmission` gives admission its searches, their costs and the sessions
they belong to; `MCSearchJob` gives a job's run its providers and capacity for one
search at a time (`OneAtATime`).

### Searches in the runner

**SearchAdmission.** One action for each call of the controller. `startQueued`
starts waiting searches one at a time inside such a call: `turn` is `rest`
between calls and names the call in progress, during which only `StartExact`,
`StartHeavy` and `EndTurn` are enabled.

| Code | Model |
|---|---|
| `queued`, `active` | the same names: a sequence, and a set |
| `lastHeavyAdmission` | `served` (its keys) and `servedBefore` (the order of its values) |
| `memoryRecheck`, gauge | `recheck`, `memoryUsed`, moved by `MemoryMoves` |
| `revision`, the capacity poll | `parked`, `upToDate`, `shown` |
| `pickNext` | `ExactCanStart`, `HeavyCanStart` over `IsFairest`, `HeavyFits`, `MemoryAllows` |
| `acquire`, `leave`, `release`, `stopAccepting` | `Acquire`, `Leave`, `Release`, `StopAccepting` |

**SearchLease** says what admission promises with no queue order and no units: a
request waits, is granted beside a compatible set, gives up, is turned away or
returns what it holds. `ImplementsLease` is the refinement, with `Compatible`
the sets whose heavy units fit the limit.

**SearchJob** extends `SearchLease`, so a job's admission is the abstract one,
and adds the record of what `http-router.ts` keeps of each job in the live job,
the pending sync, the stored job and the closures of the run: `phase` (where the
promise chain stands), `status`, `queued`, `aborted`, `found` and `published`
(the offers known to the run and to the store), `dirty`, `timer`, `registered`
(the trailing sync), and whether a page follows it. Offers of one provider are
levels. A matrix job runs the same control; what it aggregates is `MatrixBoard`.

**WorkerPool** is the pool of one provider, the processes it spawns one after
the other, and the two pipes of each. `client` is `PooledWorker`, `current` the
entry of the pool's map, `process` what `search-worker.ts` keeps, `inbox` and
`outbox` the lines in the pipes; a process that stopped or exited drops what is
written to it, and its output is read to the end. `Submit`, `Cancel`, `Deliver`,
`ExitSeen` and `RejectLeft` are the callbacks of the runner; `Reads`,
`Progress`, `Answer`, `InputEnds`, `SignalArrives`, `GraceEnds`, `StopExits` and
a `Crash` at any moment those of a worker. **ProviderCall** says what the caller
is promised with none of this: progress only while the call is open, and one
end. `stopped` blocks calls because the shutdown stops what submits before it
stops the pool (`src/index.ts:172-187`).

**SessionStore** has one record `store` for the maps of the process and one
`disk` for the file. A job stands for a search or a matrix; an offer for itself
and its purchase path. `known` abstracts the persisted versions: `none`,
`stale`, `current`. `Write` is `persistNow`, accepted or refused by the disk,
with the enforcement of the resident budget at its end; `Update` is
`updateSearchJob`; the actions above it are the callers in the router. `Sweep` is
the maintenance of every minute in the order of `runtime.ts`. `Crash` loses the
process at any moment, `Stop` is the orderly stop, and both end in a boot. A
SQLite transaction is atomic. Equal times of use leave the order of eviction and
of restoring open.

**PriceReuse** (`made`: the searches in memory in the order of their creation)
is `findRecentCompletedSearchJob` with what the router does of its result: a
search begins with the fares of another, each provider replaces its own, a stop
may keep what is shown and dates it anew, a read renews it, memory drops it. A
fare is when it was said and whether it is the search's own.
**ProviderStatus** is `ProviderStatusTracker` under searches and prewarms that
overlap. **ProviderFetch** is `fetchProvider`: a deadline, at most one resend,
the stop of a search; `Owner` says whose a request is, `Shared` that it is
outside any search.
### Talking to the providers

| Module | Code | State and steps |
|---|---|---|
| `AgilSession` | `local-agil.ts`, the shared session | `cached`, `load` (`pendingSessionPromise`), `file`, `chrome` and `account` are whose identity each has; callers ask, prewarm, renew a refused token, stop; `LoadStep` is one await of the load |
| `AgilSearch` | `local-agil.ts`, `searchEveryGds` and the progressive search | `query` (phase, round), `task` of each search, round and GDS, `inFlight` and `waiters` of the limiter; a token may expire and a job stop at any step |
| `DateSweep` | `local-agil.ts`, `local-costamar.ts`, `mapConcurrent` | `unit` for each day or cell, `seed` of a Click and Book Plus matrix, `asked` and `refusals`; an exact search is how it ends |
| `AgilStorage` | `extractBrowserStorageSnapshot` | `extraction` walks the sources, origins, files and the launched Chrome; `gathered` has each field with whom it is of |
| `CostamarSession` | `local-costamar.ts`, the warm-up | `attempt`, `launch`, `profile` of each warm-up, `pending` and `recent` (the cooldown), `asker` for each search; a launch may arrive after it was given up |
| `B2bPage` | `local-costamar.ts`, the pages of a sign-in | `screen` and `driver` of each page, whether it is `heard`, the questions and answers at the terminal |
| `BrandedToken` | `provider-context.ts` | the token file, which may become unreadable, and its cache, the environment, what the process obtained, three folders of browsers and their cache |
| `BrowserTabs` | `browser-targets.ts` | Chrome's tabs against `openTargets`, with answers on the way, time-outs and the stop of the worker |
| `TempProfiles` | `temp-artifacts.ts` | copies on disk, their markers and `activeSet`, sweeps in two steps, processes that are killed and whose numbers return |

### Between a request and the page

| Module | Code | State and steps |
|---|---|---|
| `FlexibleDates` | `http-search-contract.ts`, `core/flexible-search.ts`, `core/matrix.ts` | a posted request is prepared, validated and drafted into date pairs |
| `OfferList` | both clients, `http-router.ts`, `core/offer-grouping.ts`, `ranking.ts`, `offer-schedule-groups.ts` | `results` of each provider over a cached list, from `answers` in any order; the list is an operator of them |
| `MatrixBoard` | `http-router.ts`, the matrix | `drafts` of each provider, the `earlier` board, the `board` shown |
| `WebSession` | `web-auth.ts`, login and logout | the browser's two cookies, and requests that carry one and bring another, in any order |
| `LoginAdmission` | `login-admission.ts` | `guesses`, the failures of each client, `came`, the order a Map keeps its entries in, and its limit; `CrowdedOut` says when forgetting a client is due |
| `RedirectUnit` | `redirect-service.ts`, `resolveCostamarRedirectForRequest` | requests that look for a row, wait for a renewal, try a token, and end by a deadline or the unit's stop |
| `RunnerProxy`, `LocationUsage` | `search-service-client.ts`, `service-auth.ts`, `location-usage-store.ts` | hops of a request over connections that die, one pause and retry of a refused read, who counts it; the rows it counts in |
| `Quotation` | the quotation of `http-router.ts`, `quotation-exchange-rate.ts` | an offer in the list, in the running search and in the clicks on it; the shared validation and the rate |
| `SearchPage` | `useSearch.ts`, `lib/api.ts` | runs, one of them in front; the jobs of the server they learn of and the cancels they send |
| `MonthSweep` | `startMigrationSearch` of `lib/api.ts` | months claimed in turn, asked, followed; a stop, failures |
| `StationField` | `useAutocomplete.ts`, `suggestLocations` | text, the debounce that is due (undone by a new text only, `Undone`), callers that wait with their sequence number |
| `LocationCache` | `location-suggestion-cache.ts`, `sqlite.ts` | entries of each unit, loads in flight, the shared rows; each statement may be refused (`HitRefused`, `MissRefused`, `RowRefused`, `TrimRefused`, `PurgeRefused`), which leaves what memory did until then |
| `AirlineMarks` | `airline-mark-store.ts` | the file and each process's harvest and staging file |

A history variable (`heard` of `ProviderStatus`, `toldUntil`, `signIns`, `served`,
`picked`, `spelled`, `untrimmed` and those marked so in their modules) is read by properties only.

## Runs

Every property of a passing run is broken by a plausible defect of the code
(`mutants` in `PROJECT.json`, each an operator kept in its module beside what it
changes).

| Run | Instance | Shows |
|---|---|---|
| `admission_safety` | six searches of two agents: exact, months, matrix, short range; memory at two levels; a page on the capacity poll | `ReserveServesExact`, `NoIdleCapacity`, `BooksAreTrue`, `StartsInOrder`, `ImplementsLease` |
| `admission_live` | six requests of three agents at the heavy limit, an exact one among them; memory that is nearly full | a waiting exact search starts whoever keeps asking, a heavy one unless two other sessions keep asking for heavy work (`WaitingStarts`); a stop drains (`StopDrains`) |
| `job_safety` | two jobs, one provider, capacity of one, a seeded job; three searches that reuse fares; two askers and two prewarms; three requests | the lifecycle, `ReusedPriceIsRecent`, `StatusIsLatestEvidence`, `ResendsAreSafe` |
| `page_live` | two jobs, two runs of a page, two months; providers that may hang for ever | `EverySearchEnds`: stop, silence and shutdown free everything, the page stops loading, a sweep ends |
| `store_safety` | two jobs, one offer, budgets of one job, clock to 1 with TTL 0 | the truth of the persisted maps, crash, stop, no revival |
| `pool_calls` | a search and a prewarm, two generations of a worker recycled after one job | `WorkersAreSafe`, `ImplementsCall`, and that who leaves exits (`LeavingEnds`) |
| `providers` | two of each actor of the nine provider components | tokens, storage, profiles, browsers, sessions, the slots and what a search says |
| `providers_live` | the four of them that have to end | `EverybodyIsAnswered` |
| `desk` | the thirteen components between a request and the page, two or three of each actor | dates, list, board, access, links, hops, quotations, stops, months, shared loads, late answers |
| `admission_starvation`, `job_shutdown`, `agil_expired` | small ones | three sentences of the documents that the code does not keep |

Bounds, and why they are enough. Admission depends on costs 1, 2, 3 and 5
against 7 and 2: the instances hold every cost, enough of each to pass each
limit, and two sessions for the safety of the turns. `WaitingStarts` needs three:
two sessions that come and go can keep the largest search of a third waiting for
ever, which is `admission_starvation`, and in the instance of `admission_live` the
unconditional sentence fails too. Its condition (`AtMostOneRival`) excludes just
that. Memory moves in `admission_safety`; in `admission_live` it is held at 35 of
40, where it delays every second heavy search. `SearchJob` needs two
jobs for capacity to change hands and a delta pending beside a published one
(`MaxUpdates`). `WorkerPool` needs a second generation for a recycled worker to
have a successor, and a prewarm beside a call that is not one, which a signal
treats apart. `SessionStore` needs two jobs for one to be evicted while the other
stays, and a clock that reaches past the TTL (`Followed` limits the jobs that
pages poll; revisions are what a parked poll has seen). `PriceReuse` needs three
searches for a chain (`MaxSearches`). The provider components need two callers
for each thing that is shared, a third token to be issued while two places still
hold older ones (`MaxTokens`), three sources for one to lie between two others,
one slot for two queries to queue, and clocks that reach past the longest life
they compare. `MatrixBoard` needs two prices to compare and two cells to be
ended apart; `OfferList` two parts of an answer and three fares, each a hazard of
the list (`MCFare`); `LoginAdmission` three clients over a table of two;
`LocationCache` two lookups of a session and one of another over limits of one,
two loads at a time (`MaxLoading`), one refused statement (`MaxRefused`) and a clock
past the TTL (`MaxCacheTime`);
`SearchPage` three runs for one to be replaced twice (`MaxRuns`); `MonthSweep`
three months over two runners. `MaxKeys`, `MaxAnswers`, `MaxPrewarms` and the
`Max...` of each clock only bound the state. Of the runs only `desk` uses
symmetry, of the two units that share the rows of stations (`Alike`): no
definition tells one from the other. On two workers a run takes up to four
minutes; `job_safety` and `providers`, the largest, have about three million
states.
Deadlock is not checked where the bounds or the end of a stop end the behaviour.

The parts of `desk` and `providers` share no state, so their behaviours are
enumerated beside and not across each other. That costs a sum of states and
not a product, and loses nothing, as the theorems of composition say.

Fairness. Admission: `Release` and the memory recheck are strongly fair, because
work that was granted ends and its timer fires again while something waits for
memory. Jobs (`JobFairness` of `MCPage`, which is `Fairness` of `SearchJob`):
continuations, timers and the shutdown's own steps are weakly fair, which is
what the event loop gives; an aborted request ends. Nothing is assumed of the
grant of a lease: a job may wait for ever, as `admission_starvation` shows, and
still gives up its place when it is stopped, no longer followed or shut down. No
provider has to answer, no page has to follow and nobody has to stop a job. Page
(`PagesFairness`, `MonthsFairness`): a request is answered or fails in the end,
and the server's jobs end: what runs is held to its providers' deadlines, what
nobody follows is stopped (`EverySearchEnds`) and what waits starts, as far as
`WaitingStarts` goes (the page of a heavy search that two other sessions keep
passing goes on loading). Pool: lines are read, exits and signals arrive, and a
search that was hung up on ends, as a prewarm does by its own time-outs; a
search that nobody hung up on may hang. Providers (`ProvidersFairness`):
requests have deadlines, launches end, questions are answered or dismissed, and
the clock moves; nobody has to stop or to ask.

## What the runs found

Documents and code disagree in three places that a run refutes, each an entry of
`PROJECT.json`:

- `admission_starvation`: the largest search can be starved by sessions that come
  and go, each forgotten when idle and served as new;
- `job_shutdown`: the shutdown flushes before its drain and not after it, so what
  arrives in those three seconds may not be in the partial result;
- `agil_expired`: a progressive Agil search whose token expires after it was
  started fails without the renewal that its comments promise, because each GDS
  catches the error that the renewal is for.

Noticed while modelling, with no run of their own. About admission, jobs and the
store:

- the units held can pass 7, since a long range starts beside three exact
  searches, and an exact search can wait (two of them and a long range hold all);
- the links of a search that starts from an earlier one and waits are on disk
  without the row they need; an evicted job expires by the last access that was
  written, not by its last use; failed and cancelled jobs are not on disk,
  although `src/README.md:91` says that every terminal state is;
- a stop that keeps what is shown dates cached fares anew, so that a chain of
  stops shows fares beyond the TTL of `README.md:89` (what does hold is
  `ReusedPriceIsRecent`, which counts the time a search may take);
- a worker with no search, signalled with the unit, stops at once
  (`src/search-worker.ts:96-100`), so a job written to it meanwhile is rejected,
  which `src/README.md:93` rules out; what a worker had begun is not rejected by
  that signal (`WorkersAreSafe`);
- a stopped search leaves its provider as "checking" until the status expires.

About the units between a request and the page:

- a redirect sends the browser on without a token when none can be shown;
- `src/README.md:63-64` says that the `/r` cookie "never outlives" the session's,
  and `src/test/e2e/session-security.e2e.ts:118` checks it of one renewal. It may: an
  answer to `GET /api/auth/session` that arrives after the logout sets it alone
  (`src/http-router.ts:3105-3119`), and the one a sign-in sets lasts the whole TTL
  where the maximal life is shorter (`src/http-router.ts:1716`,
  `src/web-auth.ts:382-386`). So `SessionsEnd` bounds it by the last work and by
  the cap or a TTL of some sign-in, and not by the session beside it. In the same
  way a logout crossed by a slower renewal leaves the session that one renewed;
- a client that was told to wait is forgotten when enough clients fail after it to
  fill the table (`src/login-admission.ts:84-90`); `BlockedUntilTold` says that
  nothing less forgets it;
- `selectSuggestion` leaves the debounce armed where the label that is picked is
  the text already (`src/frontend/src/hooks/useAutocomplete.ts:106-112`), and 180 ms
  later the matches of that label are listed over the pick; the form keeps it;
- a location whose row is refused fails its load for all who wait, but stays in
  memory, where the next load is answered from it, and beyond the limits until
  another load of its session ends well (`src/location-suggestion-cache.ts:125-129`);
- the mark of a live fare's prepared price moves with each sync, and an offer of
  Click and Book Plus that is quoted later keeps the rate of its search;
- an expiry or a trim of one unit deletes a location row that the other unit has
  just refreshed;
- a disk failure is remembered as a missing airline mark for a day, and staging
  files of processes that died are never removed;
- a page that is hidden into the back-forward cache returns with `loading` set
  and no run; a month whose polls fail leaves its job registered, to be dropped
  uncancelled as the run ends.

About the providers: an opaque token is hidden by dated ones that expired; the
retry of a day asks again though another day was refused for all of them
meanwhile; a cell shown from an earlier board gives way to the first provider's
answer, even one with no price; a tab whose opener gave up before Chrome answered
is left; pages whose drivers overlap may type the same refused answer twice; and
a driver that nobody hears any more goes on over its closed page.
## Proofs

Eight modules hold the proofs. A theorem is about the specification of a
component (`Spec`, `WebSpec`, ...) for every value of its constants; the
assumptions are those the module names, which TLC evaluates on every run. They
say that numbers are numbers, that sets are finite and special values are none of
the others, and, where the code's own constants are ordered, that order:
`UnitsAssumption` (a heavy limit of at least 3), `AgilAssumption` (a load ends
within the buffer by which a token is renewed early, and tokens live a positive
time), `CostamarAssumption` (a warm-up does not outlast its cooldown),
`TempAssumption` (a copy is not used for longer than a sweep spares it),
`RedirectAssumption` (draining fits the exit).

Each safety theorem has the same three steps: the initial states satisfy an
inductive invariant, every action keeps it (one lemma per action, or per group
that changes one record), and it implies the property. What the invariant adds
to the property is what makes the code right:

| Theorems | Inductive invariant and argument |
|---|---|
| `SearchAdmissionProofs`: `WorkConserving`, `ExactReserve`, `BooksHold`, `StartsAreInOrder`, `HeavyLimit`, `LeaseRefined` | types, `OnePlaceEach`, `HeavyWithinLimit`, `NoIdleCapacity`, `ServedAreWorking`, `WatchersSawLast`: a turn can only leave nothing startable if queue and active sets are disjoint and the units are within the limit. Units are cardinalities of sets of tokens. |
| `SearchJobProofs`: `CapacityFollows`, `EndsWithWork`, `EndsOnce`, `EndKeeps` and the parts of the lifecycle | a soundness condition of each job's record, tying `phase` to `status`, to the pending sync and to what was found, and phases to the sets of the lease. One lemma per group of actions, each changing one job, and one for the shutdown, which changes all. |
| `SessionStoreProofs`: `StoreIsCoherent`, `StoreKnows`, `CrashLosesNothing`, `StopLosesNothing`, `OverIsFinal` | for each job, `Coherent`: what the store believes of its rows is on disk (`KnowsRow`), what left memory is whole on disk (`EvictedWhole`), what is nowhere left no trace (`NoTrace`), a row is of a finished job with its offers (`RowIsWhole`); and what is owed is scheduled. The sums of the budgets stay uninterpreted: which jobs are evicted, or read at a boot, is any choice, so the theorems do not depend on the policy. |
| `WorkerPoolProofs`: `PoolIsCoherent`, `WorkersSafe`, `CallsAreKept` | the pool's record of a worker against its process and both pipes: processes are born in order, lines are of jobs of that worker, a job is run once, what a worker has written for a pending job is in the pipe, and who was rejected by an exit had not been answered. |
| `EvidenceProofs`: `ReusedIsRecent` | a fare of a running search is no older than the search, one it took over no older than the TTL and the time a search takes, through any chain |
| `StatusIsLatest` | what is recorded of a provider against the last answer heard and who still asks |
| `ResendsSafe` | a request's stage against its first sending, its deadline and its owner's stop |
| `ProviderSessionProofs`: `SweepsAreSafe` | a copy in use is one process's, on disk since its use began, and what a sweep has chosen was abandoned |
| `SessionIsOfOne` | sources that were passed were tried, what is gathered is of the one being read, and files come after browsers |
| `LastTokenUsed` | what is remembered of the file is what it held at that look |
| `BrowsersClosed` | only the pending warm-up is not at rest (`OnePending`), and a launch that was given up is closed by whoever finds it; a tab in use is recorded, or its close was sent |
| `SessionsKept` | what a page shows against where its driver is and whether anybody waits (`PageIsRight`); a load is no older than its deadlines, so that a session that is handed out has not expired; a warm-up starts when none is pending |
| `GdsToldTruly` | the slots are held by requests in flight, none is free while one waits, and each search, round and GDS has its one task, whose end is what the search says of it |
| `SweepTellsTruly` | a day is asked, asked again or given up by one worker, and the refusals counted are those of days |
| `AnswersTold` | both, for every record of the sessions they use |
| `PageProofs`: `SweepToldTruly` | months go in turns, what was recorded of one is what the server said, a stop is whole |
| `StopsReach` | each run's task against its job in the server, the cancel it owes and the chain that a new search waits for |
| `LateIsNotShown`, `FieldKeepsItsPick` | what is shown is of the run in front; callers of a field have numbers up to the field's, and only the last one's text is wanted; what is listed over a pick, or will be, is of its own label (`ListMayShow`) |
| `ListIsWhole` | what is shown of a provider that reported is, of each fare it said, the best by its rule and nothing else (`IsKept`), with that provider's path; in a range the parts are of different days, so that one day's report takes nothing of another's away. The list keeps one offer of each key with the paths of all, and its order is the rank of the key, so it depends on the keys alone (`ShownAlike`), and the best of the same answers have the same keys (`BestAlike`). |
| `DeskProofs`: `SessionsEndInTime` | every session cookie, in the browser or on its way, is of a sign-in, within its cap and within a window of the last work; every links' cookie is within that window, and the cap or a window of some sign-in (`LinkIsRight`) |
| `LinksAreOurs` | a request is of our row, in time, and shows a token only if it may |
| `AnswersAreRight` | entries and shared rows are sound (expire a TTL after they were loaded), a load in flight has no entry, and what is beyond the limits is of loads that were refused (`UnitKeepsLimits`: each trim takes as many as are too many of the rest); a mark is whole or absent, and a refused one is not asked for before its time |
| `QuotesHold` | an offer's price against when its provider said it, in the list, in the search and in each click; nobody waits past a deadline |
| `BoardImproves` | a live cell of this search is matched by a draft that is no dearer, cells of a provider that ended are resolved; nothing is said of cached cells until the board is complete |
| `HopsCount` | of each request: how often its search ran, on which connection, and who has counted it; of the counters: rows are those of stations that were counted, trimmed to the first rows of a total order |
| `ToldToWait`, `AccessIsKept` | who was told to wait has as many failures as it takes, the first of them in the window until then, so that time does not take them away; the limit does only where its room is of clients that came later |
| `DatesKept` | a request that was prepared is normal (normalizing it again is no change), one that was accepted was not refused, and a draft is its pairs in order. The lemmas say what the lists are made of: the days of a window, each useful pair once, and the same ones after the waves |

Refinement: `LeaseRefined` and `CallsAreKept` show that initial states map to
initial states and every step to a step of the abstract specification or a
stutter, from the inductive invariant.

Composition: `SearchesAreTheirParts`, `ProvidersAreTheirParts` and
`DeskIsItsParts` show that a step of `MCSearches`, `MCProviders` or `MCDesk` is,
for each component, a step of it or a stutter; so the promises of the components
hold together of the specifications that the runs check
(`SearchesKeepTheirPromises`, `ProvidersKeepTheirPromises`,
`DeskKeepsItsPromises`).

Lists. What a recursive definition computes for every input is out of reach as a
general fact, but not what one function of the library does over an index: that a
recursive function on `1..n` exists and what holds of its values is shown by the
least index at which it would fail (`UpTo`), and so what flattening a list of
lists yields (`FlattenHolds`), that sorting one keeps its elements (`WavesHold`
and `SortedIs`, by places counted in a finite order, `PlacesAreTaken`), and what is
left of offers that join one another one after the other (`KeptIs`).

Proving changed the model in some places. `KeptOnStop` of `MonthSweep` had
overlapping cases; `StationField` had to say which labels name a station, and that
leaving a field with what it resolved to asks for nothing; `MatrixBoard` has
finitely many cells; tokens of `AgilSession` live a positive time. In each the code
decides, and the module now says it. Others say the same thing in another form:
the queue that is filtered in `AgilSearch` is a recursive function, the order of
the rows of `LocationUsage` is written out instead of a rank, the offers kept by
`OfferList` are a recursive function of how many were seen, the table of
`LoginAdmission` is a function with its order beside it, and the lists of
`FlexibleDates` are flattened and sorted by definitions that can be reasoned
about. Stations and client addresses are finite sets.

Only model-checked: liveness and `ENABLED`, which are out of the prover's reach
(`WaitingStarts`, `StopDrains`, `EverySearchEnds`, `LeavingEnds`,
`EverybodyIsAnswered`).

## Not modelled

The fallback that spawns a process for each search when the pool is off; the reuse
of a matrix, which is the code of `PriceReuse` over cells; `findStations`, a read
over the location cache; the vacuum, the schema and the migrations of the file;
diagnostics, timing and logs; payloads, JSON and SQL text; the mapping of fares
out of the providers' answers, the ranking weights, filters and texts of
quotations, which are functions of data with no order of events; the components
that draw the page and the state of its overlays; signatures of cookies and
codes.

Narrower than the code: all tokens of `BrandedToken` live equally long, so a
longer token of the environment that another terminal was issued is not there;
texts of `StationField` that are too short to be asked for are not typed. Two
processes opening the same file for writing does not happen in the session store:
the web unit is lazy and the redirect unit reads. It does in the location cache,
which is modelled with both.
