---------------------------- MODULE MarketHistory ----------------------------
(***************************************************************************)
(* Every history of snapshots record_snapshot can build (SnapshotStore has *)
(* its statements), and what the views read from it.  Snapshots come from  *)
(* any number of clients: listings vanish and come back, as they do after  *)
(* a sweep cut short, and capture times may go backwards, as a POST may    *)
(* carry any captured_at.                                                  *)
(***************************************************************************)
EXTENDS MarketViews

CONSTANTS
    TTLs,            \* values of seconds_till_expiry
    CountdownOf,     \* tx -> the countdowns it is seen with (bounds the inputs)
    Times,           \* capture times
    MaxSnapshots,    \* bound on the history
    Cutoffs,         \* values of --since, None among them
    Windows          \* windows a reader may ask for, None among them

ASSUME HistoryAssumption ==
    /\ TTLs \subseteq Int
    /\ Times \subseteq Int
    /\ Windows \subseteq Nat \cup {None}

VARIABLE
    db               \* id -> [at, rows]

\* One row per transaction: the primary key of listings.
Snapshots == UNION {[S -> TTLs] : S \in SUBSET Txs}
Sweeps == {rows \in Snapshots : \A tx \in DOMAIN rows : rows[tx] \in CountdownOf[tx]}

Init == db = [id \in {} |-> None]

NewId == Cardinality(DOMAIN db) + 1

\* record_snapshot, committed.
Record(rows, at) ==
    /\ NewId <= MaxSnapshots
    /\ db' = [id \in DOMAIN db \cup {NewId} |->
                IF id = NewId THEN [at |-> at, rows |-> rows] ELSE db[id]]

Next == \E rows \in Sweeps, at \in Times : Record(rows, at)

Spec == Init /\ [][Next]_db

-----------------------------------------------------------------------------
(* Properties *)

\* Capture times follow the ids, as they do when the server stamps them.
ClockForward == \A i, j \in DOMAIN db : i < j => db[i].at <= db[j].at

\* The window reaches back over the whole history.
Covers(w) == \A i, j \in DOMAIN db : db[i].at - db[j].at <= w

\* The cutoff is a projection: a reader under `since` sees exactly what a
\* reader without a cutoff would see of a database holding only the visible
\* snapshots.  No view leaks a hidden one (store.py, "read window").
VisibleOnly(d, since) == [id \in Visible(d, since) |-> d[id]]

CutoffIsProjection ==
    \A since \in Cutoffs :
        LET cut == VisibleOnly(db, since)
        IN  /\ Overview(db, since) = Overview(cut, None)
            /\ ActiveListings(db, since, Items) = ActiveListings(cut, None, Items)
            /\ \A w \in Windows : RecentlyRemoved(db, since, w) = RecentlyRemoved(cut, None, w)
            /\ NotOnSale(db, since) = NotOnSale(cut, None)
            /\ \A n \in {0, 1} : BestSellers(db, since, n) = BestSellers(cut, None, n)
            /\ CraftingValue(db, since) = CraftingValue(cut, None)
            /\ \A k \in Keys :
                /\ ItemPage(db, since, k) = ItemPage(cut, None, k)
                /\ SearchRow(db, since, k) = SearchRow(cut, None, k)
                /\ k \in DOMAIN Recipe => RecipeCost(db, since, k) = RecipeCost(cut, None, k)

\* The default frame and the time windows tell one story: whatever the
\* window, what vanished at the latest snapshot is in it, with the same
\* reason and instants, and a wider window only adds.
DeltaIsInEveryWindow ==
    \A since \in Cutoffs : \A w \in Windows \ {None} :
        /\ RemovedSincePrevious(db, since) \subseteq RemovedWithin(db, since, w)
        /\ \A v \in Windows \ {None} :
            v <= w => RemovedWithin(db, since, v) \subseteq RemovedWithin(db, since, w)

\* Three views derive a departure on their own and agree: the item pages list
\* exactly the departures of a window that covers them all, and best sellers
\* count them as the same sales and timeouts, with the lifetime between the item
\* page's first sighting and the window view's vanishing.
DeparturesAgree ==
    \A since \in Cutoffs : \A w \in {v \in Windows \ {None} : Covers(v)} :
        LET gone == RemovedWithin(db, since, w)
            pages == {p \in {ItemPage(db, since, k) : k \in Keys} : p # None}
            of(item, reason) == {g \in gone : ItemOf[g.tx] = item /\ g.reason = reason}
        IN  /\ gone = UNION {p.previous : p \in pages}
            /\ \A row \in BestSellers(db, since, 0) :
                /\ row.sales = Cardinality(of(row.item, "REMOVED"))
                /\ row.expired = Cardinality(of(row.item, "EXPIRED"))
                /\ \A tx \in DOMAIN row.timed : \E g \in gone :
                    /\ g.tx = tx
                    /\ row.timed[tx] = g.vanished_at
                                        - ItemPage(db, since, Lower[row.item]).first_seen[tx]

\* An observed lifetime is never negative while capture times follow the ids,
\* and a censored listing, already there in the first visible snapshot, never
\* contributes one (docs/market-website.md, time-to-sale).
LifetimesAreSane ==
    \A since \in Cutoffs : \A row \in BestSellers(db, since, 0) :
        \A tx \in DOMAIN row.timed :
            /\ ClockForward => row.timed[tx] >= 0
            /\ tx \notin TxsIn(db, Min(Visible(db, since)))

\* An item is on sale, missing, or never observed, and every view that takes
\* a stand says the same of it, however the query spells it.
AvailabilityAgrees ==
    \A since \in Cutoffs : \A i \in Items :
        LET missing == i \in {r.item : r \in NotOnSale(db, since)}
            listed == i \in {ItemOf[tx] : tx \in DOMAIN ActiveListings(db, since, Items)}
            page == ItemPage(db, since, Lower[i])
            search == SearchRow(db, since, Lower[i])
        IN  /\ search.listed_now = listed
            /\ ~(missing /\ listed)
            /\ (page # None) = (missing \/ listed)
            /\ (search.median # None) = (page # None)
            /\ page # None => (page.current # {}) = listed

\* Three ways to a price agree: best value (medians by DuckDB over one stored
\* spelling), the item page's recipe and search (medians in Python over all rows
\* of a key).  Best value costs an item what its page estimates, for recipes
\* priced in full ("priced the way the item page prices it"), and asks for it
\* what search shows ("the same numbers the item page and the best-value view
\* use").
PricesAgree ==
    \A since \in Cutoffs : \A row \in CraftingValue(db, since) :
        LET estimate == RecipeCost(db, since, row.key)
            search == SearchRow(db, since, row.key)
        IN  /\ estimate.materials_priced = Cardinality(DOMAIN Recipe[row.key])
            /\ estimate.cost = row.craft_cost
            /\ row.listed_now = search.listed_now
            /\ row.price = IF search.listed_now THEN search.current ELSE search.median
=============================================================================
