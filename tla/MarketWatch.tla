----------------------------- MODULE MarketWatch -----------------------------
(***************************************************************************)
(* `fetch --watch --store`: cli._watch driving one MarketClient            *)
(* (aoeo_market/client.py) against the market.  Each poll sends the sweep, *)
(* one query per category, and drains the connection until its budget is   *)
(* over, the read times out or the peer closes, so that a poll may end     *)
(* before all its replies are in and the rest arrives in the next one.     *)
(* What was read since the login stays in the receive buffer and is parsed *)
(* again at every poll.                                                    *)
(*                                                                         *)
(* A message is the listings of one zlib member with the countdowns they   *)
(* had when the server sent it; of a member cut short the first listings   *)
(* are read, and the rest when it comes (GameStream has the bytes).  The   *)
(* offers of the login reply are UTF-16, the answers to a sweep UTF-8, and *)
(* parse_listings looks for the UTF-8 records first.                       *)
(*                                                                         *)
(* Every sweep is also stored through the web server, whose clock stamps   *)
(* the snapshot when it commits.  The client waits 15 s for the answer and *)
(* then reports a failure, although the server may still commit, long      *)
(* after; nothing is ever sent again.                                      *)
(***************************************************************************)
EXTENDS ObservedMarket, Sequences

CONSTANTS
    Categories,      \* the sweep: a sequence of sets of transactions
    MaxPolls         \* bound on the polls

ASSUME CategoriesAssumption == Categories \in Seq(SUBSET Txs) /\ MaxPolls \in Nat

VARIABLES
    phase,           \* where the loop is
    owed,            \* the queries the server has not answered yet, in order
    wire,            \* messages sent by the server and not read yet
    rx,              \* _rx: the listings read since the login, by encoding
    log,             \* the stored snapshots, oldest first
    late,            \* posts the client gave up and the server still works on
    reported,        \* the polls whose snapshot the client reported stored
    swept,           \* history: the transactions sent since the latest sweep began
    polls            \* number of polls begun

watchVars == <<tracked, events, mirror, now, expiry, fate,
               phase, owed, wire, rx, log, late, reported, swept, polls>>

storeVars == <<log, late, reported>>

Encodings == {"UTF-8", "UTF-16"}
Message(encoding, rows) == [encoding |-> encoding, rows |-> rows]

\* What the server puts in its answer to one query.
Page(txs) == [tx \in OnSale \cap txs |-> expiry[tx] - now]

\* Mutant: countdowns are cut down to a coarser unit.
FirstOfShort(rows, more) ==
    [tx \in DOMAIN rows \cup DOMAIN more |->
        IF tx \in DOMAIN rows THEN rows[tx] ELSE more[tx] - 1]

\* The first record of a transaction is the one that counts.
FirstOf(rows, more) ==
    [tx \in DOMAIN rows \cup DOMAIN more |->
        IF tx \in DOMAIN rows THEN rows[tx] ELSE more[tx]]

\* _rx += chunk, as far as records go.
Read(encoding, rows) == [rx EXCEPT ![encoding] = FirstOf(rx[encoding], rows)]

\* parse_listings over the whole buffer.
Parsed == FirstOf(rx["UTF-8"], rx["UTF-16"])

Nothing == [tx \in {} |-> 0]

\* Part of a message.
Only(rows, txs) == [tx \in DOMAIN rows \cap txs |-> rows[tx]]

-----------------------------------------------------------------------------
WatchInit ==
    /\ Init
    /\ phase = "login"
    /\ owed = <<>> /\ wire = <<>> /\ rx = [encoding \in Encodings |-> Nothing]
    /\ log = <<>> /\ late = {} /\ reported = {} /\ swept = {} /\ polls = 0

\* login: the reply bundle carries the offers of this instant; the handshake
\* may stop reading before they are in.  A rejected session ends the program.
Login ==
    /\ phase = "login"
    /\ \/ /\ phase' = "ready"
          /\ \/ rx' = Read("UTF-16", Page(Txs)) /\ UNCHANGED wire
             \/ wire' = <<Message("UTF-16", Page(Txs))>> /\ UNCHANGED rx
       \/ phase' = "dead" /\ UNCHANGED <<rx, wire>>
    /\ UNCHANGED <<marketVars, observerVars, owed, storeVars, swept, polls>>

\* Mutant: the buffer is emptied before each sweep.
RequestAfresh ==
    /\ phase = "ready"
    /\ polls < MaxPolls
    /\ polls' = polls + 1
    /\ owed' = owed \o Categories
    /\ swept' = {}
    /\ rx' = [encoding \in Encodings |-> Nothing]
    /\ phase' = "drain"
    /\ UNCHANGED <<marketVars, observerVars, wire, storeVars>>

\* fetch_listings, request_market: the whole sweep goes out in one go.
RequestMarket ==
    /\ phase = "ready"
    /\ polls < MaxPolls
    /\ polls' = polls + 1
    /\ owed' = owed \o Categories
    /\ swept' = {}
    /\ phase' = "drain"
    /\ UNCHANGED <<marketVars, observerVars, wire, rx, storeVars>>

\* The game server answers the queries in order, in its own time.
Reply ==
    /\ owed # <<>>
    /\ owed' = Tail(owed)
    /\ wire' = Append(wire, Message("UTF-8", Page(Head(owed))))
    /\ swept' = swept \cup (OnSale \cap Head(owed))
    /\ UNCHANGED <<marketVars, observerVars, phase, rx, storeVars, polls>>

\* _drain_listings: one chunk, which may end inside a message: the listings
\* before the cut are read, the others come with a later chunk.
Receive ==
    /\ phase = "drain" /\ wire # <<>>
    /\ LET message == Head(wire) IN
        \/ /\ rx' = Read(message.encoding, message.rows)
           /\ wire' = Tail(wire)
        \/ \E txs \in SUBSET DOMAIN message.rows \ {{}, DOMAIN message.rows} :
            /\ rx' = Read(message.encoding, Only(message.rows, txs))
            /\ wire' = <<[message EXCEPT !.rows = Only(@, Txs \ txs)]>> \o Tail(wire)
    /\ UNCHANGED <<marketVars, observerVars, phase, owed, storeVars, swept, polls>>

\* Budget, read timeout or end of stream.
EndDrain ==
    /\ phase = "drain"
    /\ phase' = "store"
    /\ UNCHANGED <<marketVars, observerVars, owed, wire, rx, storeVars, swept, polls>>

\* record_snapshot behind POST /api/snapshot: the server stamps its clock.
Snapshot(poll, rows) == [poll |-> poll, rows |-> rows, at |-> now]

\* Mutant: a post without an answer is sent once more.
StoreTwice ==
    /\ phase = "store"
    /\ log' = Append(log, Snapshot(polls, Parsed))
    /\ late' = late \cup {[poll |-> polls, rows |-> Parsed]}
    /\ reported' = reported \cup {polls}
    /\ phase' = "observe"
    /\ UNCHANGED <<marketVars, observerVars, owed, wire, rx, swept, polls>>

\* Mutant: the capture time is the one of the previous sweep.
StoreAsOf ==
    /\ phase = "store"
    /\ log' = Append(log, [Snapshot(polls, Parsed) EXCEPT !.at = 0])
    /\ reported' = reported \cup {polls}
    /\ phase' = "observe"
    /\ UNCHANGED <<marketVars, observerVars, owed, wire, rx, late, swept, polls>>

\* _record_snapshot: stored, refused, or given up; the loop goes on whatever
\* comes of it.
Store ==
    /\ phase = "store"
    /\ \/ /\ log' = Append(log, Snapshot(polls, Parsed))
          /\ reported' = reported \cup {polls}
          /\ UNCHANGED late
       \/ UNCHANGED storeVars
       \/ /\ late' = late \cup {[poll |-> polls, rows |-> Parsed]}
          /\ UNCHANGED <<log, reported>>
    /\ phase' = "observe"
    /\ UNCHANGED <<marketVars, observerVars, owed, wire, rx, swept, polls>>

\* The server gets to a post its client gave up, or never does.
CommitLate ==
    /\ \E post \in late :
        /\ late' = late \ {post}
        /\ log' = Append(log, Snapshot(post.poll, post.rows))
    /\ UNCHANGED <<marketVars, observerVars, phase, owed, wire, rx, reported, swept, polls>>

\* The observer is told, and its events printed (after the first poll).
Tell ==
    /\ phase = "observe"
    /\ Observe(Parsed, now)
    /\ phase' = "ready"
    /\ UNCHANGED <<marketVars, owed, wire, rx, storeVars, swept, polls>>

\* A send on a closed connection, a read of a reset one, an error of a local
\* database (duckdb.Error is not among the ones _record_snapshot catches) or
\* the operator ends the loop.
Die ==
    /\ phase \in {"ready", "drain", "store"}
    /\ phase' = "dead"
    /\ UNCHANGED <<marketVars, observerVars, owed, wire, rx, storeVars, swept, polls>>

\* Once the loop has ended the market is of no more interest.
Elsewhere ==
    /\ phase # "dead"
    /\ Market
    /\ UNCHANGED <<observerVars, phase, owed, wire, rx, storeVars, swept, polls>>

WatchNext ==
    \/ Elsewhere
    \/ Login
    \/ RequestMarket
    \/ Reply
    \/ Receive
    \/ EndDrain
    \/ Store
    \/ CommitLate
    \/ Tell
    \/ Die

WatchSpec == WatchInit /\ [][WatchNext]_watchVars

-----------------------------------------------------------------------------
(* Properties *)

\* A sweep cut short by its drain budget is never taken for departures: a
\* listing once reported stays in the consumer's copy while it is on sale,
\* whatever the later polls manage to read.  This is what keeping the receive
\* buffer buys.
CutSweepsAreHarmless ==
    [][\A tx \in mirror : fate[tx] = "onSale" => tx \in mirror']_watchVars

\* The observer's estimate of an expiry is never early: a countdown is at
\* least as old as the clock it is added to.
EstimatesAreNeverEarly ==
    \A tx \in DOMAIN tracked : tracked[tx].expected_expiry_at >= expiry[tx]

\* The absolute expiry the server stores is never before the true one, however
\* late it commits and however old the countdowns in the client's buffer are.
StoredExpiriesAreNeverEarly ==
    \A i \in DOMAIN log : \A tx \in DOMAIN log[i].rows : log[i].at + log[i].rows[tx] >= expiry[tx]

\* A sweep is stored at most once, what was reported stored is, and snapshots
\* are out of the order of their sweeps only where the client gave one up.
SweepsAreStoredOnce ==
    /\ \A i, j \in DOMAIN log : log[i].poll = log[j].poll => i = j
    /\ \A p \in reported : \E i \in DOMAIN log : log[i].poll = p
    /\ \A i, j \in DOMAIN log :
        i < j /\ log[j].poll \in reported => log[i].poll < log[j].poll

\* The stored history is not misled either by sweeps cut short, refused, retried
\* or late: two neighbouring snapshots, which is what the views compare, show a
\* listing that is still on sale as gone only where the later of the two was
\* given up by its client, never at one reported stored.
StoredDeparturesAreTrue ==
    \A i, j \in DOMAIN log : j = i + 1 /\ log[j].poll \in reported =>
        \A tx \in DOMAIN log[i].rows \ DOMAIN log[j].rows : fate[tx] # "onSale"

-----------------------------------------------------------------------------
(* What the repository says and the code does not do *)

\* README.md: "the observer emits LISTED / REMOVED events across polls".  Once
\* a sweep is answered and read to the end, what it does not list any more is
\* not tracked any more.
SweepsShowDepartures ==
    phase = "ready" /\ polls > 1 /\ owed = <<>> /\ wire = <<>>
        => DOMAIN tracked \subseteq swept
=============================================================================
