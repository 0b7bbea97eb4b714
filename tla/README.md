# Formal models of aoeo-market

TLA+ specifications of `aoeo_market`, the client, store and web site for the
market of an online game: what the parts promise each other, checked with TLC
on small instances and, where it matters most, proved with TLAPS for every
instance. Paths are relative to the repository's root.

    tlc -config WebApp.cfg WebApp.tla            # any run: a .cfg and its module
    tlapm SnapshotStoreProofs.tla                # any *Proofs module

## 1. The system

One command logs in to the game (first at its login service, then at the game
service), asks for the market and parses what comes back; a capture of the same
connection can be parsed offline. Each sweep becomes a *snapshot* (its listings, each with the seconds left
to its expiry), which is stored in a DuckDB file, locally or by a POST to the
web site, and diffed against the previous one by an observer. The web site
serves a dozen views computed from the stored snapshots to a dashboard.

| Component | Source | State | Operations |
|---|---|---|---|
| Snapshot database | `aoeo_market/store.py` | `snapshots`, `listings`, the id sequence, a transaction | `open_store`, `record_snapshot`, `backfill_expires_at` |
| Read views | `store.py` | none (functions of the stored rows and `since`) | `overview`, `active_listings`, `recently_removed`, `not_on_sale`, `best_sellers`, `crafting_value`, `search_items`, `item_detail`, `recipe_detail`, the market history |
| View cache | `store.py`, `SnapshotCache` | the id it is valid for, values by key | `get`, `put`, `clear` |
| Web application | `aoeo_market/web/server.py` | `_connection`, `_in_memory`, `_lock`, `since`, `_views` | `handle`, `handle_post`, `data_validator`, `_conn`, `_open_file_connection` |
| Live observer | `aoeo_market/observer.py` | `_tracked` | `observe` |
| Market client, watch loop | `client.py`, `live_probe.py`, `cli.py` | `_rx`, the message counter, the socket | `login`, `request_market`, `_drain_listings`, `_watch`, `_record_snapshot` |
| Dashboard | `web/static/app.js` | `apiCache`: bodies by URL; the open tab | `api`, loads, renders |
| Celeste login | `auth.py` | a socket, the session | `login`, `register_session`, `receive_manifest` |
| Wire protocol | `protocol.py`, `pcap_source.py` | none (functions of a buffer or a capture) | `iter_zlib_members`, `_reassemble`, message builders |
| Listing parser | `market.py` | none | `parse_listings` |
| Catalog, OpenAPI, argument parsing, scripts | `catalog.py`, `web/openapi.py`, `cli_args.py`, `scripts/` | none | lookups, documents |

How they interact: the watch loop calls the client, then the store (or a POST),
then the observer, in one thread. The web application runs one thread per
connection on two listeners; they share one database connection under one
lock. Other processes (the command line) open the same file, which DuckDB lets
only one process have at a time. Clients revalidate their copies of views by an
ETag that names the latest snapshot; the dashboard also keeps every body it
got, by URL, until it is loaded anew. The rows of a memoized view are the same
objects for every request that finds it, and requests redact them in place after
they have left the lock.

What is hard here: statements that fail, or a process that dies, in the middle
of a write; a connection that is opened late, swapped and closed under
concurrent requests; values memoized outside the lock that guards the memo;
validators taken in one locked section and used in another; rows shared by
requests that overwrite them; a login service that refuses, sends nonsense or
falls silent; sweeps cut short and replies that arrive in a later poll; posts
given up by the client that the server still commits; captures with segments
lost, repeated or out of order; departures the server never announces,
derived separately by the observer and by three views; capture times that need
not follow the ids. `PROJECT.json` lists these hazards line by line with the
properties aimed at them.

What makes each part correct: the store is an append-only log of whole
snapshots; a cached view is the view of the snapshot it is filed under; every
answer of the site is a state of the log current during the request; the views
agree with one another on what left the market, when, and on what things cost;
the event stream is a consistent diff; what is on sale is never reported gone,
and no expiry is dated too early; a command exits with the status it earned;
live and offline reading find the same listings; no answer shows a seller's id.

## 2. The modules

| Module | Models | State ↔ code |
|---|---|---|
| `SnapshotLog` | abstract: an append-only log | `log`: what any reader sees of `snapshots` |
| `SnapshotStore` | the two write transactions, statement by statement | `db`: committed rows; `seq`: `snapshots_id_seq`; `sess`: the open transaction and how far it got; `asked`, `returned`: history |
| `MarketViews` | the read views as operators (no state) | `d`: id ↦ [at, rows]; one operator per view or subquery; `Items` and `Keys`: item ids as stored and in lower case |
| `MarketHistory` | the views over every history `record_snapshot` can build, whoever the clients are | `db`: the committed rows, as in `SnapshotStore` |
| `RecordedWatch` | a watch loop whose store may fail, with the observer and the store on clocks of their own | `db`; the observer's variables; `now`: its clock; `recorded`: history, the latest polls stored in a row |
| `SnapshotCache` | `get` / compute / `put` / `clear` by concurrent threads | `snapshot_id`, `values`, and per caller what it asked for |
| `Dashboard` | a page and the read requests it makes, down to the shared rows, over `SnapshotCache` | `rows`, `kept`: which row objects a request and the memo hold; `hidden`: those redacted; `apiCache`, `shown`: the page's; `abandoned`: requests of an earlier load |
| `MarketService` | abstract: the read API as a linear log | per client: pending, answered, failed |
| `WebApp` | `web/server.py` with its clients and the rest of the world | `conn`, `inMemory`, `lock`, `since`, `cache` are the fields of `WebApp`; `stage`, `pc`, `validator`, `answer` are where each thread is; `file`, `stored`, `foreign` are the disk and other processes; `copy` is the browser's |
| `MarketObserver` | `MarketObserver.observe` | `tracked`: `_tracked`; `events`: its result; `mirror`: history, a consumer's copy |
| `ObservedMarket` | the observer polling a market where listings are sold, withdrawn and time out | `now`, `expiry`, `fate`: the game server's, known only as far as the code relies on it |
| `MarketWatch` | `fetch --watch --store`: the client's buffer and the loop, over `ObservedMarket`, and the store at the other end | `rx`: `_rx` as `parse_listings` finds it, the UTF-8 records before the UTF-16 ones; `wire`, `owed`: the connection and the game server; `phase`: where the loop is; `log`, `late`: what the web server stored and still works on; `reported`: what the loop said of it |
| `GameStream` | the bytes of one connection, read from the socket and from a capture | `stream`; `segments`: how TCP cut it; `capture`: what a sniffer saw; `Listings`: `iter_zlib_members` and the parser; `Reassembled`: `_reassemble` |
| `LiveSession` | one run of `probe`, `probe --game` or `fetch`: both logins, one sweep, the exit status, over `GameStream` | `at`: where the program is; `sockets`, `sentBy`, `rx`; `verdict`, `admitted`: what the servers answered |
| `MC*` | instances for TLC | |
| `*Proofs` | theorems and their proofs | |

Two refinements tie them together: `SnapshotStore` implements `SnapshotLog`
(`AppendOnlyLog`), and `WebApp`, which takes a store to be such a log,
implements `MarketService` (`ServesTheLog`). The other compositions
extend a component with what it meets: `ObservedMarket` puts the observer in
front of a market, `MarketWatch` puts the connection and the store between them,
`RecordedWatch` feeds the observer and a `MarketHistory` the same polls, `Dashboard` adds
the page and its rows to the cache's callers, and `LiveSession` reads a
`GameStream`.

Granularity. One action is what runs without another actor in between: a
statement of a write transaction, one locked step of a request thread, one
critical section of the cache, one chunk read from a connection, one call to a
server, one redaction of a view's rows, one call of `observe()` (its docstring:
"drive it from one loop"). Requests that call `_conn` pass through `Enter`, `Resolve`, `Open`/`OpenFails` and a query action
that leaves the lock, so that a file may appear, a process may take it, or a
connection may be found closed, between any two of them.

Data. A listing is its transaction and its countdown; its item, its kind (type
and level) and its price are constants of the transaction. Item ids come in the
server's spelling, the catalog is keyed in lower case, and the queries of
`store.py` use both: some compare `lower(item_id)`, others the spelling they have
found. The operators of `MarketViews` do the same, query by query. That a key has
one stored spelling is assumed by the code (it "adopts the stored one") and by
name here (`OneSpelling`); with two, the current listings of an item page and
the price in best value would be of one of them only. Prices have two code paths, in Python (`_material_prices`,
`_recipe_payload`, `search_items`) and in SQL (`crafting_value`, with DuckDB's
median), and so they have here. A view in `WebApp` is the set of snapshots it was
computed from, since only that decides whether an answer is stale or mixed; in `Dashboard` it is
the snapshot and the identity of its rows. A cell of `GameStream` is what a reader
can tell apart: a header, a status, the head of a zlib member, a listing.
Definitions whose comment starts with "Mutant" are faulty variants of the
definition that follows them; nothing uses them, they are kept to confirm that
each property can fail.

## 3. The runs

| Run | Question | Bounds, and why they suffice |
|---|---|---|
| `SnapshotStore` | do failures and crashes between any two statements leave whole snapshots, exact expiries and an append-only log? | ids to 3, batches of 0, 1 and 2 listings and one repeating a transaction, one old row without expiry: a failed or crashed write, a retry, a reused sequence value and a backfill all fit; the theorems lift the bounds |
| `WebApp` | is every answer, 304s included, a state of the log current during the request? are acknowledged snapshots durable? does every request end? | 2 clients (one on a memoized route), 4 requests, 2 snapshots per database, a cutoff that hides one of two capture times, failing opens, crash and restart: a copy, a write, a revalidation and a concurrent reader fit in 4 requests |
| `Dashboard` | can requests on cold keys of different ids mix them, or show a seller while they redact, memoize and write out the same rows? can a page show something older than its load? | 2 requests at once, 2 URLs (one memoized), 3 ids, 5 row objects (one more than requests and URLs can hold): an overtaken `put` needs two ids, a third one lets the cache move on between `get` and `put`. The lock of the application is left out, so the run checks what the class `SnapshotCache` promises, `clear` included, which is more than this use needs |
| `ObservedMarket` | given complete and fresh sweeps, at any interval, are the events well formed and true? | clock to 5, countdowns 1 to 4, window 2: countdowns on both sides of the window, polls further apart than the window; theorems for all values |
| `MarketWatch` | do late or cut replies, or old bytes parsed again, report live listings gone or date an expiry early? can a sweep be stored twice, or one reported stored be missing? can two neighbouring stored snapshots show a live listing as gone? | 2 categories, 2 polls after the login bundle, countdowns 1 and 2, clock to 1: a reply of one poll can arrive in the next, after the clock moved, and a post of the first commit after the second; theorems for all values |
| `LiveSession` | does every command end, with a status it has earned, whatever the servers do? does reading live find what a capture of the connection holds? | 2 messages of 1 and 2 listings, segments of up to 3 cells, 2 troubles (a segment missed, swapped or repeated), sequence numbers from 5 modulo 12, so that the longest stream (7 cells) ends at the last number before the wrap: cuts inside and between members, a repeat of a repeated segment; theorems for all values, with no bound on segments or troubles |
| `MarketHistory` | do the views agree with one another, on prices too, and with the cutoff? | every history of 3 snapshots over 3 listings of 2 items, one an ingredient of the other, one listed as two kinds, capture times free to go backwards: first, previous and latest are distinct, a listing may vanish and come back, and there are medians of one and of two prices; theorems for all catalogs, cutoffs, windows and histories |

Five runs are expected to violate one statement of the repository each; each
has a `findings` entry that quotes it:

- `DeparturesUnseen`: the client parses the whole receive buffer at every poll
  and never empties it (`client.py:243`), so under `--watch` a listing that was
  seen once is seen for ever and REMOVED is not emitted. `MarketWatch` shows the
  other side: the same buffer keeps a cut-off sweep from being read as
  departures (mutant `RequestAfresh` empties it and violates
  `CutSweepsAreHarmless`), so a fix has to tell a complete sweep from a cut one.
  `ObservedMarket` states what the observer does with complete and fresh
  sweeps, which is what `observe()` is written for and the watch loop never gets.
- `ObserverReason`: the store classifies a departure by the countdown of the
  last sighting, the observer by the time left when the absence is noticed. The
  run (`RecordedWatch`) compares them only when the last two polls were both stored.
- `StaleAfterRestart`: the ETag is the latest visible id only, so after a
  restart with another `--since` a 304 confirms a view of the old window.
- `UnreportedFailure`: `data_validator` runs outside the handlers of `handle`,
  so a file that cannot be opened ends in a connection closed without a status.
- `EmptyStateErrors`: a POST that cannot create the file closes the in-memory
  connection first and leaves it in place, so later reads of the empty state
  raise.

On account of what those runs show, the passing `WebApp` run keeps one value of
`--since`, and in the module `Remove` takes only a database that was created and
never used, while the server is not at it. A file removed with its snapshots
loses them, of course; one removed under an open connection may also lose
acknowledged snapshots, which no document rules out.

What no property says, and why. That every departure is eventually reported
would need the complete sweeps the watch loop never gets (`DeparturesUnseen`), and
`replay` polls exactly twice. That the observer and the store name the same
departures is false once a store has failed: the loop reports it and observes all
the same (`cli.py:195-199`), and from then on the two compare different sweeps.
`ExitStatusIsEarned` asks of a status 0 that the handshake read no refusal, not
that none came: one that is read only while `fetch` drains its sweep is not
looked at, and the command reports an empty market and exits 0.
`docs/live-client.md:58` says that such a reply, a 1510 (0xF2) whose payload
starts with 0x00, is surfaced as `LoginRejected`; that holds during the handshake
only. `LiveSession` has these behaviours; they have no run of their own.
`SweepsAreStoredOnce` allows a sweep its client gave up to be stored after a later
one, as happens; `StoredDeparturesAreTrue` says what may follow from that: only at
such a snapshot does the history show a live listing as gone.

Two comments are contradicted without a run, for nothing follows from it: rows
are not "fresh dicts per request" (`web/server.py:133-135`) when the view is
memoized, and a second request for a URL whose fetch is under way is not "served
from memory" (`web/static/app.js:25-28`) but fetched again. `Dashboard` models
what the code does, and no seller is shown for it.

Deadlock is checked in `ObservedMarket` and `Dashboard`. The other systems stop
at their bounds (ids, requests, polls, snapshots) or because the program ends,
and say `CHECK_DEADLOCK FALSE`.

Fairness. `WebApp`: weak fairness of each request thread's next step, and
nothing else. Once a lock is free, a thread that wants it is not overtaken for
ever because the requests of a behaviour are finite (`MaxRequests`): with an
unbounded stream CPython's lock makes no such promise and neither do we.
Another process may keep the file for ever: `open_store`'s retries run out
(`OpenFails`), which is what ends the request.
`LiveSession`: weak fairness of the client alone, because every socket it reads has
a timeout and `_recv_exact` reads no more than the announced length; the servers
and the network owe it nothing. Two reads are weaker than that: `resp.read()` of the
manifest (`auth.py:131-132`) and of a POST's answer (`cli.py:171-172`) time out per
`recv` only, so a server that sends a byte now and then can hold them. The model
takes them as returning or failing, and `EveryCommandEnds` says nothing of such a
server. Prompts for credentials are not modelled. The other modules state safety
only and assume no fairness.

## 4. The proofs

All hold for every value of the constants that satisfies the named `ASSUME`s,
which TLC also evaluates.

- `SnapshotStoreProofs`. `StoreInv` adds to the properties what a commit relies
  on: the session's id lies between everything stored and the sequence
  (`RecordingOK`, `IdsBelow`), and its rows are those of the first `n` listings
  of its batch (`RowsOK`). The properties alone are not inductive: nothing in
  them says that the next id is fresh or that the inserted rows are the batch's.
  One lemma per action; `HoldsExtended` is the step of the insert loop,
  `FilledKeeps` says what a backfill changes. `StoreIsLog` is the refinement.
  Assumed: batches are sequences of listings (`BatchesAssumption`), times and
  countdowns are integers, old rows have an exact expiry or none. `ExpiryIsExact`
  allows a row to have no expiry, as the rows of an old file do; that no insert
  adds one is `BackfillOnce`.
- `MarketObserverProofs`. The observer alone: the mirror equals the active set
  and each call tells only news, for any snapshots at any instants, clocks
  that run backwards included.
- `ObservedMarketProofs`. `RemovalsAreTrue` needs `ExactEstimates` (the estimate
  equals the market's own expiry) and `MarketClock` (what is on sale has a legal
  countdown, what timed out is past its expiry). Assumed: countdowns are natural
  numbers closed under ticking, the window is an integer.
- `DashboardProofs`. First the cache alone, for any number of callers, keys and
  ids, where the strengthening is that nobody asks for a snapshot that does not
  exist yet. Below the page every step is one of the cache's
  (`PageStepsAreCacheSteps`), so its invariant holds here too (`CacheBelow`).
  `RowsInv`: wherever a view is answered, put or kept, there are rows for it, which
  is what `DashboardTypeOK` needs.
  `HiddenInv` adds that only a finished request has an answer; `PageInv` that the
  requests of this page were made when the database was at least as new as its
  load (`RequestsAreOfThePage`), which the cache turns into answers as new.
  `SellersHidden` rests on this: `Build` hands out rows nobody holds (`Unused`),
  and nothing else makes redacted rows unredacted.
- `MarketWatchProofs`. `WatchInv`: a countdown is stamped when the server sends it
  and only grows old (`Countdowns`: on the wire, in the buffer, in a late post, in
  the log), so what is computed from it is late, never early (`Estimates`); what
  is tracked is in the buffer, because nothing leaves it (`Buffered`); a poll that
  is not stored yet is nowhere in the store's books (`Books`).
  `StoredDeparturesAreTrue` rests on `Growing`: since the buffer only grows, each
  later sweep the client posts holds what the earlier ones held.
- `LiveSessionProofs`. `SessionInv`: what has happened by the time the program is
  at a place (`Path`), which connection is open there (`Connections`), which
  command gets there (`Course`), that the game server writes nothing before it
  has answered the login (`Answered`), and `StreamInv`: the segments come one after the
  other without overlapping, every packet of the capture is one of them, and
  every member in the stream is whole. None of the three properties of
  `GameStream` is inductive: each says what a whole buffer reassembles to. While
  the numbers do not wrap, a packet's number tells it from all others
  (`NumbersTell`), so the choice of the k-th number and of the shortest packet
  under it is that of the packets in order (`ReassembledInOrder`). `FlattenLays`
  says where `FlattenSeq` puts each of its parts; with it every seen cell has a
  place in the reassembled capture and neighbours stay neighbours
  (`SeenIsPlaced`). The rest is what `parse_listings` finds in a run of a
  member's cells (`FoundInRun`) and in a prefix of a stream of whole members
  (`PrefixListings`). Induction over positions is done on the set of those
  for which the claim holds (`UpTo`), so no theorem with an operator parameter is
  needed. No bound on segments, their lengths, troubles or the capture.
- `MarketHistoryProofs`. `HistoryInv` is small: the ids are 1, 2, ... up to the
  latest, and each snapshot is a capture time, in any order, and a sweep. The six
  properties are then facts about the operators of `MarketViews` for every such
  history. `CutoffIsProjection`: a
  view looks at the database only through the visible ids, which restricting it
  to them does not change, one lemma per view. `DeparturesAgree`: the window, the
  item pages and the best sellers derive departures in three ways; for each view
  it is shown which departures it holds, and counts are compared through a
  bijection. `PricesAgree` compares the two pricing paths: the k-th value of a
  finite set exists (`KthIsNumber`), so the median that picks one or two middle
  values is the one that interpolates between floor and ceiling (`MediansMeet`); a
  key's rows are those of its one spelling (`OneSpellingOf`, `KeyRows`), so
  `_material_prices` and `posted_price` find the same price (`OnePriceOf`) and the
  sums are equal; best value leaves out what costs nothing, so its recipes need
  something (`CostOfNothing`). Assumed: items, recipes and prices are as the
  catalog and the parser give them (`CatalogAssumption`), a key has one stored
  spelling (`OneSpelling`), listings are finitely
  many and `None` is none of the values (`ValueAssumption`), times are integers
  and windows natural numbers (`HistoryAssumption`).
- `WebAppProofs`, in two layers. `ServerInv`: who holds the lock is busy
  (`Holder`); which stage admits which connection, so that an open file is the one
  under `db_path` and a post never reaches the in-memory schema (`Connection`);
  the memo is the prefix of the log it is filed under (`Memo`). Everything about
  the world is in one lemma, `LogGrows`: whatever opens, appends, appears or is
  removed, the log only grows, at its end. `ClientInv` adds what the clients have:
  a copy's view may be newer than its ETag, since the validator is taken in an
  earlier locked section, but has at least what the ETag names (`Fits`), so an
  equal ETag means an equal view; and the in-memory schema, chosen before a file
  appeared, is read only for clients who know of nothing yet (`Emptied`). From there
  follow the refinement and everything about answers. `ClientInv` needs
  `OneCutoff`, an explicit hypothesis of those theorems: `--since` stays what it is.
  `StaleAfterRestart` shows that `NotModifiedIsFresh` fails without it. `TypeOK`,
  `AckedIsDurable` and `CacheCoherent` need no such thing.

`BackfillOnce` (once no row misses its expiry, none ever does), `TypeCorrect` and
`CoherentCache` are proved and not run: the theorems say all a run could.

Every invariant, action property and refinement that a passing run checks is
proved for all values of the constants (some of `WebApp`'s under `OneCutoff`, as
said above). Only model-checked: the liveness
properties (`EveryRequestEnds`, `EveryCommandEnds`), which are out of the prover's reach, and the five disagreements of section 3,
for which one behaviour is enough.

## 5. Not modelled

- Sorting, paging, rounding, histograms, price ranges over time, breakdowns by
  type and rarity, names and icons of the views, so `CutoffIsProjection` says
  nothing of them; parsing of parameters; `/readyz` and static files: no state and no interleaving.
- Catalog, OpenAPI document, scripts: constant tables and generators.
- The regular expressions of `parse_listings`: modelled by what it returns, one
  record per transaction, the first of the first encoding.
- The layouts the message builders of `protocol.py` and `auth.py` write, and the
  frame counter, which is written and never read. `decode_frames` and
  `market_queries_from_pcap` have no caller outside scripts and tests.
- In the dashboard, everything after `api()`: rendering, charts, suggestions. A
  tab marked loaded before its load succeeded, and a search box whose answers
  come out of order, touch only what is on screen; `PROJECT.json` lists both.
- Prompts, argument parsing and printing of the command line.

Assumed of what is external: zlib notices a member whose bytes were damaged or
joined wrongly; TCP sends a segment again as it was cut at first; the numbers of
a capture do not wrap (`Orderly`; `_reassemble` sorts them as they are); the
market server counts down as its clock goes, and answers queries in order;
DuckDB commits whole transactions and lets one process at a time open the file.

## 6. Plan

Done, in this order: the store and its log; the observer, alone and in front of
a market; the cache; the views; the web application and its abstract service;
the watch loop, with the posts it gives up; the byte stream and the live
session, login included; the dashboard and the shared rows; the proofs above.

What is left is liveness, which is out of the prover's reach, and what section 5
leaves out.
