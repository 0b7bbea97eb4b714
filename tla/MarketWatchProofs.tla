-------------------------- MODULE MarketWatchProofs --------------------------
(***************************************************************************)
(* The watch loop, for every market, sweep, clock and number of polls,     *)
(* wherever the connection cuts the replies and whatever becomes of the    *)
(* posts: estimates and stored expiries are never early, a listing on sale *)
(* is never reported gone, every sweep is stored at most once and none     *)
(* reported stored shows a listing on sale as gone.                        *)
(***************************************************************************)
EXTENDS MarketWatch, MarketObserverProofs, SequenceTheorems

Rows == UNION {[txs -> Int] : txs \in SUBSET Txs}
Messages == [encoding : Encodings, rows : Rows]
Posts == [poll : Nat, rows : Rows]
Snaps == [poll : Nat, rows : Rows, at : Int]

MarketTypes ==
    /\ now \in Int /\ expiry \in [Txs -> Int]
    /\ fate \in [Txs -> {"unlisted", "onSale", "taken", "timedOut"}]

LoopTypes ==
    /\ phase \in {"login", "ready", "drain", "store", "observe", "dead"}
    /\ owed \in Seq(SUBSET Txs) /\ wire \in Seq(Messages)
    /\ rx \in [Encodings -> Rows]
    /\ log \in Seq(Snaps) /\ late \subseteq Posts
    /\ polls \in Nat /\ reported \subseteq Nat

\* At the instant t the countdowns of these rows are not too short.
Sound(rows, t, e, f) ==
    \A tx \in DOMAIN rows : f[tx] # "unlisted" /\ t + rows[tx] >= e[tx]

\* A countdown is stamped when the server sends it and only grows old: on the
\* wire, in the buffer, in a post that is late and in the log.
Countdowns ==
    /\ \A i \in DOMAIN wire : Sound(wire[i].rows, now, expiry, fate)
    /\ \A k \in Encodings : Sound(rx[k], now, expiry, fate)
    /\ \A post \in late : Sound(post.rows, now, expiry, fate)
    /\ \A i \in DOMAIN log : Sound(log[i].rows, log[i].at, expiry, fate)

Estimates ==
    \A tx \in DOMAIN tracked :
        /\ tx \in Txs /\ fate[tx] # "unlisted"
        /\ tracked[tx].expected_expiry_at >= expiry[tx]

\* Nothing leaves the buffer, so what is tracked is in it.
Buffered == DOMAIN tracked \subseteq DOMAIN Parsed

\* Until its sweep is stored the current poll is nowhere in the store's books,
\* and a late post is neither stored nor reported.
Books ==
    /\ \A i \in DOMAIN log : log[i].poll <= polls
    /\ \A post \in late : post.poll <= polls /\ post.poll \notin reported
    /\ \A p \in reported : p <= polls
    /\ phase \in {"drain", "store"} =>
        /\ \A i \in DOMAIN log : log[i].poll # polls
        /\ \A post \in late : post.poll # polls
        /\ polls \notin reported
    /\ \A post \in late : \A i \in DOMAIN log : log[i].poll # post.poll
    /\ \A p, q \in late : p.poll = q.poll => p = q

\* The sweeps that are stored or may yet be.
Kept == {[poll |-> log[i].poll, rows |-> log[i].rows] : i \in DOMAIN log} \cup late

\* The buffer only grows, so of two sweeps the later has every listing of the
\* earlier, in whatever order they reach the store.
Growing ==
    /\ \A s \in Kept : s.poll \in Nat /\ DOMAIN s.rows \subseteq DOMAIN Parsed
    /\ \A s, t \in Kept : s.poll <= t.poll => DOMAIN s.rows \subseteq DOMAIN t.rows

WatchInv ==
    /\ MarketTypes /\ LoopTypes
    /\ Countdowns /\ Estimates
    /\ MirrorIsActive /\ Buffered
    /\ Books /\ SweepsAreStoredOnce

-----------------------------------------------------------------------------
(* Rows *)

LEMMA FirstOfRows ==
    ASSUME NEW r \in Rows, NEW q \in Rows, NEW t, NEW e, NEW f, Sound(r, t, e, f), Sound(q, t, e, f)
    PROVE  /\ FirstOf(r, q) \in Rows /\ Sound(FirstOf(r, q), t, e, f)
           /\ DOMAIN FirstOf(r, q) = DOMAIN r \cup DOMAIN q
<1>1. /\ DOMAIN r \in SUBSET Txs /\ DOMAIN q \in SUBSET Txs
      /\ r \in [DOMAIN r -> Int] /\ q \in [DOMAIN q -> Int]
  BY DEF Rows
<1>2. FirstOf(r, q) \in [DOMAIN r \cup DOMAIN q -> Int]
  BY <1>1 DEF FirstOf
<1>3. DOMAIN r \cup DOMAIN q \in SUBSET Txs
  BY <1>1
<1>4. FirstOf(r, q) \in Rows
  BY <1>2, <1>3 DEF Rows
<1>5. Sound(FirstOf(r, q), t, e, f)
  BY DEF FirstOf, Sound
<1> QED  BY <1>2, <1>4, <1>5

LEMMA OnlyRows ==
    ASSUME NEW r \in Rows, NEW txs, NEW t, NEW e, NEW f, Sound(r, t, e, f)
    PROVE  Only(r, txs) \in Rows /\ Sound(Only(r, txs), t, e, f)
<1>1. DOMAIN r \in SUBSET Txs /\ r \in [DOMAIN r -> Int]
  BY DEF Rows
<1>2. Only(r, txs) \in [DOMAIN r \cap txs -> Int] /\ DOMAIN r \cap txs \in SUBSET Txs
  BY <1>1 DEF Only
<1>3. Sound(Only(r, txs), t, e, f)
  BY DEF Only, Sound
<1> QED  BY <1>2, <1>3 DEF Rows

LEMMA PageRows ==
    ASSUME MarketTypes, NEW txs
    PROVE  Page(txs) \in Rows /\ Sound(Page(txs), now, expiry, fate)
<1>1. OnSale \cap txs \in SUBSET Txs
  BY DEF OnSale
<1>2. Page(txs) \in [OnSale \cap txs -> Int]
  BY DEF Page, OnSale, MarketTypes
<1>3. \A tx \in OnSale \cap txs : fate[tx] # "unlisted" /\ now + (expiry[tx] - now) >= expiry[tx]
  BY DEF OnSale, MarketTypes
<1> QED  BY <1>1, <1>2, <1>3 DEF Rows, Sound, Page

LEMMA Elements ==
    ASSUME LoopTypes
    PROVE  /\ \A i \in DOMAIN wire : wire[i] \in Messages
           /\ \A i \in DOMAIN log : log[i] \in Snaps
<1>1. wire \in Seq(Messages) /\ log \in Seq(Snaps)
  BY DEF LoopTypes
<1>2. DOMAIN wire = 1 .. Len(wire) /\ DOMAIN log = 1 .. Len(log)
  BY <1>1, LenProperties
<1> QED  BY <1>1, <1>2, ElementOfSeq

\* Time passes and the market moves: sound rows stay sound.
LEMMA SoundKept ==
    ASSUME MarketTypes, NEW r \in Rows, NEW t \in Int, NEW u \in Int, t <= u,
           NEW e, NEW f, Sound(r, t, expiry, fate),
           \A tx \in Txs : fate[tx] # "unlisted" => f[tx] # "unlisted" /\ e[tx] = expiry[tx]
    PROVE  Sound(r, u, e, f)
<1>1. DOMAIN r \in SUBSET Txs /\ r \in [DOMAIN r -> Int]
  BY DEF Rows
<1> SUFFICES ASSUME NEW tx \in DOMAIN r
             PROVE  f[tx] # "unlisted" /\ u + r[tx] >= e[tx]
  BY DEF Sound
<1>2. /\ tx \in Txs /\ r[tx] \in Int /\ expiry[tx] \in Int
      /\ fate[tx] # "unlisted" /\ t + r[tx] >= expiry[tx]
  BY <1>1 DEF Sound, MarketTypes
<1>3. f[tx] # "unlisted" /\ e[tx] = expiry[tx]
  BY <1>2
<1> QED  BY <1>2, <1>3

\* What parse_listings returns is sound, and no smaller than either encoding.
LEMMA ParsedRows ==
    ASSUME WatchInv
    PROVE  /\ Parsed \in Rows /\ Sound(Parsed, now, expiry, fate)
           /\ DOMAIN Parsed = DOMAIN rx["UTF-8"] \cup DOMAIN rx["UTF-16"]
<1>1. /\ rx["UTF-8"] \in Rows /\ rx["UTF-16"] \in Rows
      /\ Sound(rx["UTF-8"], now, expiry, fate) /\ Sound(rx["UTF-16"], now, expiry, fate)
  BY DEF WatchInv, LoopTypes, Countdowns, Encodings
<1> QED  BY <1>1, FirstOfRows DEF Parsed

\* Reading more keeps the buffer sound and loses nothing.
LEMMA ReadRows ==
    ASSUME WatchInv, NEW k \in Encodings, NEW r \in Rows, Sound(r, now, expiry, fate), rx' = Read(k, r)
    PROVE  /\ rx' \in [Encodings -> Rows]
           /\ \A j \in Encodings : Sound(rx'[j], now, expiry, fate)
           /\ DOMAIN Parsed \subseteq DOMAIN Parsed'
<1>1. /\ rx \in [Encodings -> Rows]
      /\ \A j \in Encodings : Sound(rx[j], now, expiry, fate)
  BY DEF WatchInv, LoopTypes, Countdowns
<1>2. /\ FirstOf(rx[k], r) \in Rows /\ Sound(FirstOf(rx[k], r), now, expiry, fate)
      /\ DOMAIN FirstOf(rx[k], r) = DOMAIN rx[k] \cup DOMAIN r
  BY <1>1, FirstOfRows
<1>3. /\ rx' \in [Encodings -> Rows]
      /\ \A j \in Encodings : rx'[j] = IF j = k THEN FirstOf(rx[k], r) ELSE rx[j]
  BY <1>1, <1>2 DEF Read
<1>4. \A j \in Encodings : DOMAIN rx[j] \subseteq DOMAIN rx'[j]
  BY <1>2, <1>3
<1>5. DOMAIN Parsed = DOMAIN rx["UTF-8"] \cup DOMAIN rx["UTF-16"]
  BY DEF Parsed, FirstOf
<1>6. DOMAIN Parsed' = DOMAIN rx'["UTF-8"] \cup DOMAIN rx'["UTF-16"]
  BY DEF Parsed, FirstOf
<1>7. DOMAIN Parsed \subseteq DOMAIN Parsed'
  BY <1>4, <1>5, <1>6 DEF Encodings
<1> QED  BY <1>1, <1>2, <1>3, <1>7

-----------------------------------------------------------------------------
(* One lemma per step *)

LEMMA WatchInitInv == WatchInit => WatchInv
<1> SUFFICES ASSUME WatchInit  PROVE WatchInv
  OBVIOUS
<1>1. MarketTypes /\ Estimates /\ MirrorIsActive
  BY DEF WatchInit, Init, MarketInit, ObserverInit, MarketTypes, Estimates, MirrorIsActive
<1>2. Nothing \in Rows /\ DOMAIN Nothing = {}
  BY DEF Nothing, Rows
<1>3. LoopTypes
  BY <1>2 DEF WatchInit, LoopTypes
<1>4. Countdowns /\ Buffered
  BY <1>2 DEF WatchInit, Init, ObserverInit, Countdowns, Sound, Buffered
<1>5. Books /\ SweepsAreStoredOnce
  BY DEF WatchInit, Books, SweepsAreStoredOnce
<1> QED  BY <1>1, <1>3, <1>4, <1>5 DEF WatchInv

\* What every move of the market keeps.
LEMMA MarketMoves ==
    ASSUME MarketTypes, Market
    PROVE  /\ MarketTypes' /\ now <= now'
           /\ \A tx \in Txs : fate[tx] # "unlisted" =>
                fate'[tx] # "unlisted" /\ expiry'[tx] = expiry[tx]
<1>1. CASE \E tx \in Txs, ttl \in TTLs : Offer(tx, ttl)
  <2> PICK t \in Txs, ttl \in TTLs : Offer(t, ttl)
    BY <1>1
  <2>1. ttl \in Int /\ now + ttl \in Int
    BY TimeAssumption DEF MarketTypes
  <2> QED  BY <2>1 DEF Offer, MarketTypes
<1>2. CASE \E tx \in Txs : Take(tx)
  BY <1>2 DEF Take, MarketTypes
<1>3. CASE Tick
  BY <1>3 DEF Tick, MarketTypes
<1> QED  BY <1>1, <1>2, <1>3 DEF Market

LEMMA ElsewhereStep ==
    ASSUME WatchInv, Elsewhere
    PROVE  WatchInv'
<1> USE DEF WatchInv
<1>1. /\ MarketTypes' /\ now <= now' /\ now \in Int /\ now' \in Int
      /\ \A tx \in Txs : fate[tx] # "unlisted" =>
            fate'[tx] # "unlisted" /\ expiry'[tx] = expiry[tx]
  BY MarketMoves DEF Elsewhere, MarketTypes
<1>2. UNCHANGED <<tracked, events, mirror, phase, owed, wire, rx, log, late, reported, swept, polls>>
  BY DEF Elsewhere, observerVars, storeVars
<1>3. LoopTypes' /\ Books' /\ SweepsAreStoredOnce' /\ MirrorIsActive' /\ Buffered'
  BY <1>2 DEF LoopTypes, Books, SweepsAreStoredOnce, MirrorIsActive, Buffered, Parsed
<1>4. Estimates'
  BY <1>1, <1>2 DEF Estimates
<1>5. \A i \in DOMAIN wire : wire[i].rows \in Rows
  BY Elements DEF Messages
<1>6. \A i \in DOMAIN log : log[i].rows \in Rows /\ log[i].at \in Int
  BY Elements DEF Snaps
<1>7. (\A post \in late : post.rows \in Rows) /\ (\A k \in Encodings : rx[k] \in Rows)
  BY DEF LoopTypes, Posts
<1>8. \A i \in DOMAIN wire : Sound(wire[i].rows, now', expiry', fate')
  BY <1>1, <1>5, SoundKept DEF Countdowns
<1>9. \A i \in DOMAIN log : Sound(log[i].rows, log[i].at, expiry', fate')
  BY <1>1, <1>6, SoundKept DEF Countdowns
<1>10. \A post \in late : Sound(post.rows, now', expiry', fate')
  BY <1>1, <1>7, SoundKept DEF Countdowns
<1>11. \A k \in Encodings : Sound(rx[k], now', expiry', fate')
  BY <1>1, <1>7, SoundKept DEF Countdowns
<1>12. Countdowns'
  BY <1>2, <1>8, <1>9, <1>10, <1>11 DEF Countdowns
<1> QED  BY <1>1, <1>3, <1>4, <1>12

LEMMA LoginStep ==
    ASSUME WatchInv, Login
    PROVE  WatchInv'
<1> USE DEF WatchInv
<1>1. /\ UNCHANGED <<tracked, events, mirror, now, expiry, fate, owed, log, late, reported, swept, polls>>
      /\ phase' \in {"ready", "dead"}
  BY DEF Login, marketVars, observerVars, storeVars
<1>2. MarketTypes' /\ Estimates' /\ MirrorIsActive' /\ Books' /\ SweepsAreStoredOnce'
  BY <1>1 DEF MarketTypes, Estimates, MirrorIsActive, Books, SweepsAreStoredOnce
<1>3. Page(Txs) \in Rows /\ Sound(Page(Txs), now, expiry, fate) /\ "UTF-16" \in Encodings
  BY PageRows DEF Encodings
<1>4. /\ rx' \in [Encodings -> Rows]
      /\ \A k \in Encodings : Sound(rx'[k], now, expiry, fate)
      /\ DOMAIN Parsed \subseteq DOMAIN Parsed'
  <2>1. CASE rx' = Read("UTF-16", Page(Txs))
    BY <1>3, <2>1, ReadRows
  <2>2. CASE rx' = rx
    BY <2>2 DEF LoopTypes, Countdowns, Parsed
  <2> QED  BY <2>1, <2>2 DEF Login
<1>5. wire' \in Seq(Messages) /\ \A i \in DOMAIN wire' : Sound(wire'[i].rows, now, expiry, fate)
  <2>1. CASE wire' = <<Message("UTF-16", Page(Txs))>>
    <3>1. /\ Message("UTF-16", Page(Txs)) \in Messages
          /\ Message("UTF-16", Page(Txs)).rows = Page(Txs)
      BY <1>3 DEF Message, Messages
    <3> QED  BY <1>3, <2>1, <3>1
  <2>2. CASE wire' = wire
    BY <2>2 DEF LoopTypes, Countdowns
  <2> QED  BY <2>1, <2>2 DEF Login
<1>6. LoopTypes' /\ Countdowns' /\ Buffered'
  BY <1>1, <1>4, <1>5 DEF LoopTypes, Countdowns, Buffered
<1> QED  BY <1>2, <1>6

LEMMA RequestStep ==
    ASSUME WatchInv, RequestMarket
    PROVE  WatchInv'
<1> USE DEF WatchInv
<1>1. /\ UNCHANGED <<tracked, events, mirror, now, expiry, fate, wire, rx, log, late, reported>>
      /\ phase' = "drain" /\ polls' = polls + 1 /\ owed' = owed \o Categories
      /\ polls \in Nat
  BY DEF RequestMarket, marketVars, observerVars, storeVars, LoopTypes
<1>2. MarketTypes' /\ Estimates' /\ MirrorIsActive' /\ SweepsAreStoredOnce' /\ Countdowns' /\ Buffered'
  BY <1>1 DEF MarketTypes, Estimates, MirrorIsActive, SweepsAreStoredOnce, Countdowns, Buffered, Parsed
<1>3. owed' \in Seq(SUBSET Txs)
  BY <1>1, CategoriesAssumption, ConcatProperties DEF LoopTypes
<1>4. LoopTypes'
  BY <1>1, <1>3 DEF LoopTypes
<1>5. Books'
  <2>1. \A i \in DOMAIN log : log[i].poll \in Nat
    BY Elements DEF Snaps
  <2>2. \A post \in late : post.poll \in Nat
    BY DEF LoopTypes, Posts
  <2>3. reported \subseteq Nat
    BY DEF LoopTypes
  <2> QED  BY <1>1, <2>1, <2>2, <2>3 DEF Books
<1> QED  BY <1>2, <1>4, <1>5

LEMMA ReplyStep ==
    ASSUME WatchInv, Reply
    PROVE  WatchInv'
<1> USE DEF WatchInv
<1> DEFINE message == Message("UTF-8", Page(Head(owed)))
<1>1. /\ UNCHANGED <<tracked, events, mirror, now, expiry, fate, phase, rx, log, late, reported, polls>>
      /\ owed' = Tail(owed) /\ owed # <<>> /\ wire' = Append(wire, message)
  BY DEF Reply, marketVars, observerVars, storeVars
<1>2. /\ MarketTypes' /\ Estimates' /\ MirrorIsActive' /\ SweepsAreStoredOnce' /\ Buffered' /\ Books'
  BY <1>1 DEF MarketTypes, Estimates, MirrorIsActive, SweepsAreStoredOnce, Buffered, Parsed, Books
<1>3. Page(Head(owed)) \in Rows /\ Sound(Page(Head(owed)), now, expiry, fate)
  BY PageRows
<1>4. message \in Messages /\ Sound(message.rows, now, expiry, fate)
  BY <1>3 DEF Message, Messages, Encodings
<1>5. owed' \in Seq(SUBSET Txs)
  BY <1>1, HeadTailProperties DEF LoopTypes
<1>6. wire' \in Seq(Messages) /\ \A i \in DOMAIN wire' : Sound(wire'[i].rows, now, expiry, fate)
  <2> HIDE DEF message
  <2>1. /\ wire' \in Seq(Messages) /\ DOMAIN wire' = 1 .. Len(wire) + 1
        /\ \A i \in 1 .. Len(wire) + 1 :
            wire'[i] = IF i = Len(wire) + 1 THEN message ELSE wire[i]
    BY <1>1, <1>4 DEF LoopTypes
  <2>2. DOMAIN wire = 1 .. Len(wire) /\ Len(wire) \in Nat
    BY DEF LoopTypes
  <2>3. \A i \in 1 .. Len(wire) + 1 : i # Len(wire) + 1 => i \in DOMAIN wire
    BY <2>2
  <2> QED  BY <1>4, <2>1, <2>3 DEF Countdowns
<1>7. LoopTypes' /\ Countdowns'
  BY <1>1, <1>5, <1>6 DEF LoopTypes, Countdowns
<1> QED  BY <1>2, <1>7

LEMMA ReceiveStep ==
    ASSUME WatchInv, Receive
    PROVE  WatchInv'
<1> USE DEF WatchInv
<1> DEFINE message == Head(wire)
<1>1. /\ UNCHANGED <<tracked, events, mirror, now, expiry, fate, phase, owed, log, late, reported, polls>>
      /\ wire # <<>>
  BY DEF Receive, marketVars, observerVars, storeVars
<1>2. MarketTypes' /\ Estimates' /\ MirrorIsActive' /\ SweepsAreStoredOnce' /\ Books'
  BY <1>1 DEF MarketTypes, Estimates, MirrorIsActive, SweepsAreStoredOnce, Books
<1>3. /\ message \in Messages /\ message = wire[1] /\ 1 \in DOMAIN wire
      /\ Tail(wire) \in Seq(Messages)
      /\ \A i \in DOMAIN Tail(wire) : i + 1 \in DOMAIN wire /\ Tail(wire)[i] = wire[i + 1]
  BY <1>1, HeadTailProperties DEF LoopTypes
<1>4. message.rows \in Rows /\ message.encoding \in Encodings /\ Sound(message.rows, now, expiry, fate)
  BY <1>3 DEF Messages, Countdowns
<1>5. \A i \in DOMAIN Tail(wire) : Sound(Tail(wire)[i].rows, now, expiry, fate)
  BY <1>3 DEF Countdowns
<1>6. CASE rx' = Read(message.encoding, message.rows) /\ wire' = Tail(wire)
  <2>1. /\ rx' \in [Encodings -> Rows]
        /\ \A j \in Encodings : Sound(rx'[j], now, expiry, fate)
        /\ DOMAIN Parsed \subseteq DOMAIN Parsed'
    BY <1>4, <1>6, ReadRows
  <2>2. LoopTypes' /\ Countdowns' /\ Buffered'
    BY <1>1, <1>3, <1>5, <1>6, <2>1 DEF LoopTypes, Countdowns, Buffered
  <2> QED  BY <1>2, <2>2
<1>7. CASE \E txs \in SUBSET DOMAIN message.rows \ {{}, DOMAIN message.rows} :
            /\ rx' = Read(message.encoding, Only(message.rows, txs))
            /\ wire' = <<[message EXCEPT !.rows = Only(@, Txs \ txs)]>> \o Tail(wire)
  <2>0. PICK txs \in SUBSET DOMAIN message.rows :
            /\ rx' = Read(message.encoding, Only(message.rows, txs))
            /\ wire' = <<[message EXCEPT !.rows = Only(@, Txs \ txs)]>> \o Tail(wire)
    BY <1>7
  <2> DEFINE rest == [message EXCEPT !.rows = Only(@, Txs \ txs)]
  <2>1. /\ Only(message.rows, txs) \in Rows /\ Sound(Only(message.rows, txs), now, expiry, fate)
        /\ Only(message.rows, Txs \ txs) \in Rows
        /\ Sound(Only(message.rows, Txs \ txs), now, expiry, fate)
    BY <1>4, OnlyRows
  <2>2. /\ rx' \in [Encodings -> Rows]
        /\ \A j \in Encodings : Sound(rx'[j], now, expiry, fate)
        /\ DOMAIN Parsed \subseteq DOMAIN Parsed'
    BY <1>4, <2>0, <2>1, ReadRows
  <2>3. rest \in Messages /\ rest.rows = Only(message.rows, Txs \ txs)
    BY <1>3, <1>4, <2>1 DEF Messages
  <2>4. wire' \in Seq(Messages) /\ \A i \in DOMAIN wire' : Sound(wire'[i].rows, now, expiry, fate)
    <3> DEFINE tail == Tail(wire)
    <3>1. tail \in Seq(Messages) /\ \A i \in DOMAIN tail : Sound(tail[i].rows, now, expiry, fate)
      BY <1>3, <1>5
    <3>2. rest \in Messages /\ Sound(rest.rows, now, expiry, fate) /\ wire' = <<rest>> \o tail
      BY <2>0, <2>1, <2>3
    <3> HIDE DEF rest, tail
    <3>3. /\ wire' \in Seq(Messages) /\ DOMAIN wire' = 1 .. Len(tail) + 1
          /\ \A i \in 1 .. Len(tail) + 1 : wire'[i] = IF i = 1 THEN rest ELSE tail[i - 1]
      BY <3>1, <3>2
    <3>4. \A i \in 1 .. Len(tail) + 1 : i # 1 => i - 1 \in DOMAIN tail
      BY <3>1
    <3> QED  BY <3>1, <3>2, <3>3, <3>4
  <2>5. LoopTypes' /\ Countdowns' /\ Buffered'
    BY <1>1, <2>2, <2>4 DEF LoopTypes, Countdowns, Buffered
  <2> QED  BY <1>2, <2>5
<1> QED  BY <1>6, <1>7 DEF Receive

\* The end of a drain and the end of the loop touch nothing but the phase.
LEMMA PhaseStep ==
    ASSUME WatchInv, EndDrain \/ Die
    PROVE  WatchInv'
<1> USE DEF WatchInv
<1>1. /\ UNCHANGED <<tracked, events, mirror, now, expiry, fate, owed, wire, rx, log, late, reported, polls>>
      /\ phase' \in {"store", "dead"} /\ (phase' = "store" => phase = "drain")
  BY DEF EndDrain, Die, marketVars, observerVars, storeVars
<1>2. MarketTypes' /\ Estimates' /\ MirrorIsActive' /\ SweepsAreStoredOnce' /\ Countdowns' /\ Buffered'
  BY <1>1 DEF MarketTypes, Estimates, MirrorIsActive, SweepsAreStoredOnce, Countdowns, Buffered, Parsed
<1>3. LoopTypes' /\ Books'
  BY <1>1 DEF LoopTypes, Books
<1> QED  BY <1>2, <1>3

\* A snapshot at the end of the log.
LEMMA SnapshotAppended ==
    ASSUME WatchInv, NEW p \in Nat, NEW r \in Rows, Sound(r, now, expiry, fate),
           log' = Append(log, Snapshot(p, r))
    PROVE  /\ log' \in Seq(Snaps)
           /\ DOMAIN log = 1 .. Len(log) /\ DOMAIN log' = 1 .. Len(log) + 1 /\ Len(log) \in Nat
           /\ \A i \in DOMAIN log : i \in DOMAIN log' /\ i < Len(log) + 1 /\ log'[i] = log[i]
           /\ \A i \in DOMAIN log' : i = Len(log) + 1 \/ i \in DOMAIN log
           /\ Len(log) + 1 \in DOMAIN log' /\ log'[Len(log) + 1].poll = p
           /\ \A i \in DOMAIN log' : Sound(log'[i].rows, log'[i].at, expiry, fate)
<1> USE DEF WatchInv
<1>1. log \in Seq(Snaps) /\ now \in Int
  BY DEF LoopTypes, MarketTypes
<1>2. /\ Snapshot(p, r) \in Snaps /\ Snapshot(p, r).poll = p
      /\ Sound(Snapshot(p, r).rows, Snapshot(p, r).at, expiry, fate)
  BY <1>1 DEF Snapshot, Snaps
<1>3. /\ DOMAIN log = 1 .. Len(log) /\ DOMAIN log' = 1 .. Len(log) + 1 /\ Len(log) \in Nat
      /\ log' \in Seq(Snaps)
      /\ \A i \in 1 .. Len(log) : log'[i] = log[i]
      /\ log'[Len(log) + 1] = Snapshot(p, r)
  BY <1>1, <1>2
<1>4. \A i \in 1 .. Len(log) : i \in 1 .. Len(log) + 1 /\ i < Len(log) + 1
  BY <1>3
<1>5. \A i \in 1 .. Len(log) + 1 : i = Len(log) + 1 \/ i \in 1 .. Len(log)
  BY <1>3
<1>6. Len(log) + 1 \in 1 .. Len(log) + 1
  BY <1>3
<1>7. \A i \in DOMAIN log' : Sound(log'[i].rows, log'[i].at, expiry, fate)
  BY <1>2, <1>3, <1>5 DEF Countdowns
<1> QED  BY <1>2, <1>3, <1>4, <1>5, <1>6, <1>7

LEMMA StoreStep ==
    ASSUME WatchInv, Store
    PROVE  WatchInv'
<1> USE DEF WatchInv
<1>1. /\ UNCHANGED <<tracked, events, mirror, now, expiry, fate, owed, wire, rx, polls>>
      /\ phase = "store" /\ phase' = "observe" /\ polls \in Nat
  BY DEF Store, marketVars, observerVars, LoopTypes
<1>2. MarketTypes' /\ Estimates' /\ MirrorIsActive' /\ Buffered'
  BY <1>1 DEF MarketTypes, Estimates, MirrorIsActive, Buffered, Parsed
<1>3. Parsed \in Rows /\ Sound(Parsed, now, expiry, fate)
  BY ParsedRows
<1>4. /\ \A i \in DOMAIN log : log[i].poll \in Nat
      /\ \A post \in late : post.poll \in Nat
      /\ reported \subseteq Nat
  BY Elements DEF LoopTypes, Snaps, Posts
<1>5. CASE log' = Append(log, Snapshot(polls, Parsed)) /\ reported' = reported \cup {polls} /\ UNCHANGED late
  <2>1. /\ log' \in Seq(Snaps)
        /\ DOMAIN log = 1 .. Len(log) /\ DOMAIN log' = 1 .. Len(log) + 1 /\ Len(log) \in Nat
        /\ \A i \in DOMAIN log : i \in DOMAIN log' /\ i < Len(log) + 1 /\ log'[i] = log[i]
        /\ \A i \in DOMAIN log' : i = Len(log) + 1 \/ i \in DOMAIN log
        /\ Len(log) + 1 \in DOMAIN log' /\ log'[Len(log) + 1].poll = polls
        /\ \A i \in DOMAIN log' : Sound(log'[i].rows, log'[i].at, expiry, fate)
    BY <1>1, <1>3, <1>5, SnapshotAppended
  <2>2. LoopTypes' /\ Countdowns'
    BY <1>1, <1>5, <2>1 DEF LoopTypes, Countdowns
  <2>3. Books'
    BY <1>1, <1>4, <1>5, <2>1 DEF Books
  <2>4. SweepsAreStoredOnce'
    <3>1. \A i, j \in DOMAIN log' : log'[i].poll = log'[j].poll => i = j
      BY <1>1, <2>1 DEF Books, SweepsAreStoredOnce
    <3>2. \A p \in reported' : \E i \in DOMAIN log' : log'[i].poll = p
      BY <1>5, <2>1 DEF SweepsAreStoredOnce
    <3>3. ASSUME NEW i \in DOMAIN log', NEW j \in DOMAIN log', i < j, log'[j].poll \in reported'
          PROVE  log'[i].poll < log'[j].poll
      <4>1. CASE j \in DOMAIN log
        <5>1. i \in DOMAIN log
          BY <2>1, <3>3, <4>1
        <5>2. log[j].poll \in reported
          BY <1>1, <1>5, <2>1, <3>3, <4>1 DEF Books
        <5> QED  BY <2>1, <3>3, <4>1, <5>1, <5>2 DEF SweepsAreStoredOnce
      <4>2. CASE j = Len(log) + 1
        <5>1. i \in DOMAIN log
          BY <2>1, <3>3, <4>2
        <5>2. log[i].poll <= polls /\ log[i].poll # polls /\ log[i].poll \in Nat
          BY <1>1, <1>4, <5>1 DEF Books
        <5> QED  BY <1>1, <2>1, <4>2, <5>1, <5>2
      <4> QED  BY <2>1, <4>1, <4>2
    <3> QED  BY <3>1, <3>2, <3>3 DEF SweepsAreStoredOnce
  <2> QED  BY <1>2, <2>2, <2>3, <2>4
<1>6. CASE UNCHANGED storeVars
  <2>1. UNCHANGED <<log, late, reported>>
    BY <1>6 DEF storeVars
  <2>2. LoopTypes' /\ Countdowns' /\ Books' /\ SweepsAreStoredOnce'
    BY <1>1, <2>1 DEF LoopTypes, Countdowns, Books, SweepsAreStoredOnce
  <2> QED  BY <1>2, <2>2
<1>7. CASE late' = late \cup {[poll |-> polls, rows |-> Parsed]} /\ UNCHANGED <<log, reported>>
  <2> DEFINE post == [poll |-> polls, rows |-> Parsed]
  <2>1. post \in Posts /\ post.poll = polls /\ Sound(post.rows, now, expiry, fate)
    BY <1>1, <1>3 DEF Posts
  <2> HIDE DEF post
  <2>2. late' = late \cup {post} /\ UNCHANGED <<log, reported>>
    BY <1>7 DEF post
  <2>3. LoopTypes' /\ Countdowns' /\ SweepsAreStoredOnce'
    BY <1>1, <2>1, <2>2 DEF LoopTypes, Countdowns, SweepsAreStoredOnce
  <2>4. Books'
    BY <1>1, <1>4, <2>1, <2>2 DEF Books
  <2> QED  BY <1>2, <2>3, <2>4
<1> QED  BY <1>5, <1>6, <1>7 DEF Store

LEMMA CommitLateStep ==
    ASSUME WatchInv, CommitLate
    PROVE  WatchInv'
<1> USE DEF WatchInv
<1> PICK post \in late : late' = late \ {post} /\ log' = Append(log, Snapshot(post.poll, post.rows))
  BY DEF CommitLate
<1>1. /\ UNCHANGED <<tracked, events, mirror, now, expiry, fate, phase, owed, wire, rx, reported, polls>>
      /\ post.poll \in Nat /\ post.rows \in Rows /\ Sound(post.rows, now, expiry, fate)
  BY DEF CommitLate, marketVars, observerVars, LoopTypes, Posts, Countdowns
<1>2. MarketTypes' /\ Estimates' /\ MirrorIsActive' /\ Buffered'
  BY <1>1 DEF MarketTypes, Estimates, MirrorIsActive, Buffered, Parsed
<1>3. /\ log' \in Seq(Snaps)
      /\ DOMAIN log = 1 .. Len(log) /\ DOMAIN log' = 1 .. Len(log) + 1 /\ Len(log) \in Nat
      /\ \A i \in DOMAIN log : i \in DOMAIN log' /\ i < Len(log) + 1 /\ log'[i] = log[i]
      /\ \A i \in DOMAIN log' : i = Len(log) + 1 \/ i \in DOMAIN log
      /\ Len(log) + 1 \in DOMAIN log' /\ log'[Len(log) + 1].poll = post.poll
      /\ \A i \in DOMAIN log' : Sound(log'[i].rows, log'[i].at, expiry, fate)
  BY <1>1, SnapshotAppended
<1>4. LoopTypes' /\ Countdowns'
  BY <1>1, <1>3 DEF LoopTypes, Countdowns
<1>5. Books'
  BY <1>1, <1>3 DEF Books
<1>6. SweepsAreStoredOnce'
  <2>1. \A i, j \in DOMAIN log' : log'[i].poll = log'[j].poll => i = j
    BY <1>3 DEF Books, SweepsAreStoredOnce
  <2>2. \A p \in reported' : \E i \in DOMAIN log' : log'[i].poll = p
    BY <1>1, <1>3 DEF SweepsAreStoredOnce
  <2>3. ASSUME NEW i \in DOMAIN log', NEW j \in DOMAIN log', i < j, log'[j].poll \in reported'
        PROVE  log'[i].poll < log'[j].poll
    <3>1. j \in DOMAIN log
      BY <1>1, <1>3, <2>3 DEF Books
    <3>2. i \in DOMAIN log
      BY <1>3, <2>3, <3>1
    <3> QED  BY <1>1, <1>3, <2>3, <3>1, <3>2 DEF SweepsAreStoredOnce
  <2> QED  BY <2>1, <2>2, <2>3 DEF SweepsAreStoredOnce
<1> QED  BY <1>2, <1>4, <1>5, <1>6

LEMMA TellStep ==
    ASSUME WatchInv, Tell
    PROVE  WatchInv'
<1> USE DEF WatchInv
<1>1. /\ UNCHANGED <<now, expiry, fate, owed, wire, rx, log, late, reported, polls>>
      /\ phase' = "ready" /\ Observe(Parsed, now)
  BY DEF Tell, marketVars, storeVars
<1>2. MarketTypes' /\ LoopTypes' /\ Countdowns' /\ Books' /\ SweepsAreStoredOnce'
  BY <1>1 DEF MarketTypes, LoopTypes, Countdowns, Books, SweepsAreStoredOnce
<1>3. /\ Parsed' = Parsed /\ Parsed \in Rows /\ Sound(Parsed, now, expiry, fate)
      /\ tracked' = [tx \in DOMAIN Parsed |-> [ttl |-> Parsed[tx], last_seen_at |-> now,
                                               expected_expiry_at |-> now + Parsed[tx]]]
  BY <1>1, ParsedRows DEF Parsed, Observe
<1>4. DOMAIN tracked' = DOMAIN Parsed /\ DOMAIN Parsed \subseteq Txs
  BY <1>3 DEF Rows
<1>5. Buffered'
  BY <1>3, <1>4 DEF Buffered
<1>6. Estimates'
  BY <1>1, <1>3, <1>4 DEF Estimates, Sound
<1>7. MirrorIsActive'
  <2>1. mirror' = (DOMAIN tracked \ (DOMAIN tracked \ DOMAIN Parsed))
                    \cup (DOMAIN Parsed \ DOMAIN tracked)
    BY <1>1, EventSets, Zenon DEF Observe, MirrorIsActive
  <2> QED  BY <1>4, <2>1 DEF MirrorIsActive
<1> QED  BY <1>2, <1>5, <1>6, <1>7

LEMMA WatchStep ==
    ASSUME WatchInv, [WatchNext]_watchVars
    PROVE  WatchInv'
<1>1. CASE UNCHANGED watchVars
  BY <1>1 DEF watchVars, WatchInv, MarketTypes, LoopTypes, Countdowns, Estimates,
              MirrorIsActive, Buffered, Parsed, Books, SweepsAreStoredOnce
<1> QED
  BY <1>1, ElsewhereStep, LoginStep, RequestStep, ReplyStep, ReceiveStep, PhaseStep,
     StoreStep, CommitLateStep, TellStep DEF WatchNext

\* The sweeps kept for the store, separately from the rest of the invariant.
LEMMA GrowingInit == WatchInit => Growing
  BY DEF WatchInit, Growing, Kept

\* Nothing was kept, and the buffer lost nothing.
LEMMA GrowingKept ==
    ASSUME Growing, Kept' \subseteq Kept, DOMAIN Parsed \subseteq DOMAIN Parsed'
    PROVE  Growing'
  BY DEF Growing

LEMMA GrowingStep ==
    ASSUME WatchInv, Growing, [WatchNext]_watchVars
    PROVE  Growing'
<1>1. CASE Store
  <2> DEFINE sweep == [poll |-> polls, rows |-> Parsed]
  <2>1. polls \in Nat /\ phase = "store" /\ UNCHANGED rx
    BY <1>1 DEF Store, WatchInv, LoopTypes
  <2>2. Parsed' = Parsed
    BY <2>1 DEF Parsed
  <2>3. /\ Parsed \in Rows /\ Sound(Parsed, now, expiry, fate)
    BY ParsedRows
  <2>4. Kept' \subseteq Kept \cup {sweep}
    <3>1. CASE log' = Append(log, Snapshot(polls, Parsed)) /\ UNCHANGED late
      <4>1. /\ \A i \in DOMAIN log : log'[i] = log[i]
            /\ \A i \in DOMAIN log' : i = Len(log) + 1 \/ i \in DOMAIN log
            /\ log'[Len(log) + 1] = Snapshot(polls, Parsed)
        <5>1. log \in Seq(Snaps) /\ Snapshot(polls, Parsed) \in Snaps
          BY <2>1, <2>3 DEF WatchInv, LoopTypes, MarketTypes, Snapshot, Snaps
        <5> QED  BY <2>1, <2>3, <3>1, <5>1, SnapshotAppended
      <4>2. /\ Snapshot(polls, Parsed).poll = polls
            /\ Snapshot(polls, Parsed).rows = Parsed
        BY DEF Snapshot
      <4> QED  BY <3>1, <4>1, <4>2 DEF Kept
    <3>2. CASE UNCHANGED storeVars
      BY <3>2 DEF Kept, storeVars
    <3>3. CASE late' = late \cup {sweep} /\ UNCHANGED log
      BY <3>3 DEF Kept
    <3> QED  BY <1>1, <3>1, <3>2, <3>3 DEF Store
  <2>5. \A s \in Kept : s.poll <= polls /\ s.poll # polls
    BY <2>1 DEF Kept, WatchInv, Books
  <2>6. sweep.poll = polls /\ sweep.rows = Parsed
    OBVIOUS
  <2> HIDE DEF sweep
  <2> SUFFICES /\ \A s \in Kept' : s.poll \in Nat /\ DOMAIN s.rows \subseteq DOMAIN Parsed
               /\ \A s, t \in Kept' : s.poll <= t.poll => DOMAIN s.rows \subseteq DOMAIN t.rows
    BY <2>2 DEF Growing
  <2>7. \A s \in Kept' : s.poll \in Nat /\ DOMAIN s.rows \subseteq DOMAIN Parsed
    BY <2>1, <2>4, <2>6 DEF Growing
  <2>8. ASSUME NEW s \in Kept', NEW t \in Kept', s.poll <= t.poll
        PROVE  DOMAIN s.rows \subseteq DOMAIN t.rows
    <3>1. CASE t = sweep
      BY <2>6, <2>7, <3>1
    <3>2. CASE s = sweep /\ t \in Kept
      <4>1. t.poll <= polls /\ t.poll # polls /\ t.poll \in Nat
        BY <2>5, <3>2 DEF Growing
      <4> QED  BY <2>1, <2>6, <2>8, <3>2, <4>1
    <3>3. CASE s \in Kept /\ t \in Kept
      BY <2>8, <3>3 DEF Growing
    <3> QED  BY <2>4, <3>1, <3>2, <3>3
  <2> QED  BY <2>7, <2>8
<1>2. CASE CommitLate
  <2> PICK post \in late : late' = late \ {post} /\ log' = Append(log, Snapshot(post.poll, post.rows))
    BY <1>2 DEF CommitLate
  <2>1. post \in Posts /\ Sound(post.rows, now, expiry, fate) /\ Parsed' = Parsed
    BY <1>2 DEF WatchInv, LoopTypes, Countdowns, CommitLate, Parsed
  <2>2. /\ \A i \in DOMAIN log : log'[i] = log[i]
        /\ \A i \in DOMAIN log' : i = Len(log) + 1 \/ i \in DOMAIN log
        /\ log'[Len(log) + 1] = Snapshot(post.poll, post.rows)
    <3>1. log \in Seq(Snaps) /\ Snapshot(post.poll, post.rows) \in Snaps
      BY <2>1 DEF WatchInv, LoopTypes, MarketTypes, Snapshot, Snaps, Posts
    <3> QED  BY <2>1, <3>1, SnapshotAppended DEF Posts
  <2>3. /\ Snapshot(post.poll, post.rows).poll = post.poll
        /\ Snapshot(post.poll, post.rows).rows = post.rows
        /\ post = [poll |-> post.poll, rows |-> post.rows]
    BY <2>1 DEF Snapshot, Posts
  <2>4. Kept' \subseteq Kept
    BY <2>2, <2>3 DEF Kept
  <2> QED  BY <2>1, <2>4, GrowingKept
<1>3. CASE [WatchNext]_watchVars /\ ~Store /\ ~CommitLate
  <2>1. UNCHANGED <<log, late>>
    BY <1>3 DEF WatchNext, watchVars, Elsewhere, Login, RequestMarket, Reply, Receive,
                EndDrain, Tell, Die, storeVars
  <2>2. Kept' = Kept
    BY <2>1 DEF Kept
  <2>3. DOMAIN Parsed \subseteq DOMAIN Parsed'
    <3>1. CASE Login
      <4>1. Page(Txs) \in Rows /\ Sound(Page(Txs), now, expiry, fate) /\ "UTF-16" \in Encodings
        BY PageRows DEF WatchInv, Encodings
      <4>2. CASE rx' = Read("UTF-16", Page(Txs))
        BY <4>1, <4>2, ReadRows
      <4>3. CASE rx' = rx
        BY <4>3 DEF Parsed
      <4> QED  BY <3>1, <4>2, <4>3 DEF Login
    <3>2. CASE Receive
      <4> DEFINE message == Head(wire)
      <4>1. message \in Messages /\ Sound(message.rows, now, expiry, fate)
        <5>1. message = wire[1] /\ 1 \in DOMAIN wire /\ message \in Messages
          BY <3>2, HeadTailProperties DEF Receive, WatchInv, LoopTypes
        <5> QED  BY <5>1 DEF WatchInv, Countdowns
      <4>2. CASE rx' = Read(message.encoding, message.rows)
        BY <4>1, <4>2, ReadRows DEF Messages
      <4>3. ASSUME NEW txs, rx' = Read(message.encoding, Only(message.rows, txs))
            PROVE  DOMAIN Parsed \subseteq DOMAIN Parsed'
        BY <4>1, <4>3, OnlyRows, ReadRows DEF Messages
      <4> QED  BY <3>2, <4>2, <4>3 DEF Receive
    <3>3. CASE UNCHANGED rx
      BY <3>3 DEF Parsed
    <3> QED  BY <1>3, <3>1, <3>2, <3>3 DEF WatchNext, watchVars, Elsewhere, RequestMarket,
                                             Reply, EndDrain, Tell, Die
  <2> QED  BY <2>2, <2>3, GrowingKept
<1> QED  BY <1>1, <1>2, <1>3

LEMMA WatchInvariance == WatchSpec => [](WatchInv /\ Growing)
  BY WatchInitInv, WatchStep, GrowingInit, GrowingStep, PTL DEF WatchSpec

-----------------------------------------------------------------------------
\* The observer never expects a listing to time out before it does, however
\* old the countdowns in the client's buffer are (observer.py, expected_expiry_at).
THEOREM NeverEarlyEstimates == WatchSpec => []EstimatesAreNeverEarly
<1>1. WatchInv => EstimatesAreNeverEarly
  BY DEF WatchInv, Estimates, EstimatesAreNeverEarly
<1> QED  BY <1>1, WatchInvariance, PTL

\* A stored expires_at is never before the true expiry, however late the
\* server commits the sweep (store.py, record_snapshot).
THEOREM NeverEarlyExpiries == WatchSpec => []StoredExpiriesAreNeverEarly
<1>1. WatchInv => StoredExpiriesAreNeverEarly
  BY DEF WatchInv, Countdowns, Sound, StoredExpiriesAreNeverEarly
<1> QED  BY <1>1, WatchInvariance, PTL

\* Every sweep is stored at most once, what was reported stored is, and only a
\* post that was given up is out of order (cli.py, _record_snapshot).
THEOREM StoredOnce == WatchSpec => []SweepsAreStoredOnce
  BY WatchInvariance, PTL DEF WatchInv

\* What the stored history shows gone at a snapshot reported stored is gone:
\* sweeps cut short, refused or late make no departure there (cli.py, _watch).
THEOREM StoredDepartures == WatchSpec => []StoredDeparturesAreTrue
<1>1. WatchInv /\ Growing => StoredDeparturesAreTrue
  <2> SUFFICES ASSUME WatchInv, Growing, NEW i \in DOMAIN log, NEW j \in DOMAIN log,
                      j = i + 1, log[j].poll \in reported
               PROVE  DOMAIN log[i].rows \subseteq DOMAIN log[j].rows
    BY DEF StoredDeparturesAreTrue
  <2>1. i < j
    <3>1. i \in Nat
      BY LenProperties DEF WatchInv, LoopTypes
    <3> QED  BY <3>1
  <2>2. log[i].poll < log[j].poll
    BY <2>1 DEF WatchInv, SweepsAreStoredOnce
  <2>3. /\ [poll |-> log[i].poll, rows |-> log[i].rows] \in Kept
        /\ [poll |-> log[j].poll, rows |-> log[j].rows] \in Kept
    BY DEF Kept
  <2>4. log[i].poll \in Nat /\ log[j].poll \in Nat
    BY <2>3 DEF Growing
  <2>5. log[i].poll <= log[j].poll
    BY <2>2, <2>4
  <2> QED  BY <2>3, <2>5 DEF Growing
<1> QED  BY <1>1, WatchInvariance, PTL

\* A listing on sale never leaves the consumer's copy, wherever the replies
\* were cut (client.py, _drain_listings).
THEOREM CutsAreHarmless == WatchSpec => CutSweepsAreHarmless
<1>1. WatchInv /\ [WatchNext]_watchVars
        => [\A tx \in mirror : fate[tx] = "onSale" => tx \in mirror']_watchVars
  <2> SUFFICES ASSUME WatchInv, [WatchNext]_watchVars
               PROVE  mirror \subseteq mirror'
    OBVIOUS
  <2>1. WatchInv'
    BY WatchStep
  <2>2. CASE Tell
    <3>1. DOMAIN tracked' = DOMAIN Parsed
      BY <2>2 DEF Tell, Observe
    <3> QED  BY <2>1, <3>1 DEF WatchInv, MirrorIsActive, Buffered
  <2>3. CASE ~Tell
    BY <2>3 DEF WatchNext, watchVars, Elsewhere, Login, RequestMarket, Reply, Receive,
                EndDrain, Store, CommitLate, Die, observerVars
  <2> QED  BY <2>2, <2>3
<1> QED  BY <1>1, WatchInvariance, PTL DEF WatchSpec, CutSweepsAreHarmless
=============================================================================
