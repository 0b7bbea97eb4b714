----------------------------- MODULE MarketViews -----------------------------
(***************************************************************************)
(* The read views of aoeo_market/store.py as operators over the stored     *)
(* snapshots d (id -> [at, rows], rows: transaction -> countdown) and the  *)
(* start cutoff `since`.  What never changes during a listing's life, its  *)
(* item, kind and unit price, is a constant function of the transaction.   *)
(* Listings keep the server's spelling of an item id (Items), the catalog  *)
(* is keyed in lower case (Keys); some queries match by lower(item_id),    *)
(* others by the stored spelling, and so do their operators.               *)
(* Medians are doubled so that the mean of the two middle values stays an  *)
(* integer; sorting, paging, rounding and the catalog's names and icons    *)
(* are left out.                                                           *)
(***************************************************************************)
EXTENDS Integers, FiniteSets, FiniteSetsExt

CONSTANTS
    Txs,            \* transaction ids
    Items,          \* item ids as the server spells them
    Keys,           \* item ids in lower case
    Lower,          \* item -> key
    ItemOf,         \* tx -> item_id
    KindOf,         \* tx -> its item_type and item_level
    UnitPrice,      \* tx -> item_price / item_count
    Recipe,         \* craftable key -> (ingredient's key -> quantity)
    ExpiryWindow,   \* EXPIRY_WINDOW_SECONDS
    None            \* no cutoff, no window, no such snapshot, SQL NULL

ASSUME CatalogAssumption ==
    /\ ItemOf \in [Txs -> Items]
    /\ UnitPrice \in [Txs -> Nat]
    /\ DOMAIN Recipe \subseteq Keys
    /\ \A k \in DOMAIN Recipe :
        DOMAIN Recipe[k] \subseteq Keys /\ Recipe[k] \in [DOMAIN Recipe[k] -> Nat]

\* price_history and crafting_value take the stored spelling of a key for the
\* only one ("adopt the stored one", store.py).
ASSUME OneSpelling ==
    /\ Lower \in [Items -> Keys]
    /\ \A i, j \in Items : Lower[i] = Lower[j] => i = j

\* The records two of the views are made of.
Departures == [tx : Txs, reason : {"EXPIRED", "REMOVED"}, last_seen : Int, vanished_at : Int]
Pages == [current : SUBSET Txs, previous : SUBSET Departures,
          first_seen : UNION {[S -> Int] : S \in SUBSET Txs}, series : SUBSET (Int \X Int)]

\* None is no instant, price or id, and no page.
ASSUME ValueAssumption ==
    /\ IsFiniteSet(Txs)
    /\ ExpiryWindow \in Int
    /\ None \notin Int /\ None \notin Pages

-----------------------------------------------------------------------------
(* The read window and the snapshots in it *)

Visible(d, since) == {id \in DOMAIN d : since = None \/ d[id].at >= since}

LastOf(S) == IF S = {} THEN None ELSE Max(S)
FirstOf(S) == IF S = {} THEN None ELSE Min(S)

\* "Newest" is the highest id, not the latest capture time.
Latest(d, since) == LastOf(Visible(d, since))
Previous(d, id, since) == LastOf({i \in Visible(d, since) : i < id})
Following(d, id, since) == FirstOf({i \in Visible(d, since) : i > id})

\* Transactions of one snapshot; of every visible one; sightings of a tx.
TxsIn(d, id) == IF id = None THEN {} ELSE DOMAIN d[id].rows
Seen(d, since) == UNION {TxsIn(d, id) : id \in Visible(d, since)}
Sightings(d, since, tx) == {id \in Visible(d, since) : tx \in TxsIn(d, id)}
ItemsIn(S) == {ItemOf[tx] : tx \in S}

\* The (snapshot, transaction) rows of an item in the given snapshots, by its
\* stored spelling and by its key.
RowsOf(d, ids, item) ==
    {r \in ids \X Txs : r[2] \in TxsIn(d, r[1]) /\ ItemOf[r[2]] = item}
RowsLike(d, ids, key) ==
    {r \in ids \X Txs : r[2] \in TxsIn(d, r[1]) /\ Lower[ItemOf[r[2]]] = key}

\* The k-th smallest value of f has fewer than k values below it.
Kth(f, k) ==
    CHOOSE v \in {f[x] : x \in DOMAIN f} :
        /\ Cardinality({x \in DOMAIN f : f[x] < v}) < k
        /\ Cardinality({x \in DOMAIN f : f[x] <= v}) >= k

\* Twice the median: store.py's own, sorted(values)[n // 2] or the two middle
\* ones; and DuckDB's, between the values at the floor and the ceiling of
\* (n - 1) / 2, counted from 0.
Median2(f) ==
    LET n == Cardinality(DOMAIN f)
    IN  IF n % 2 = 1 THEN 2 * Kth(f, n \div 2 + 1)
        ELSE Kth(f, n \div 2) + Kth(f, n \div 2 + 1)
SqlMedian2(f) ==
    LET n == Cardinality(DOMAIN f)
    IN  Kth(f, (n + 1) \div 2) + Kth(f, n \div 2 + 1)

UnitPrices(rows) == [r \in rows |-> UnitPrice[r[2]]]
MedianPrice(rows) == IF rows = {} THEN None ELSE Median2(UnitPrices(rows))
SqlMedianPrice(rows) == IF rows = {} THEN None ELSE SqlMedian2(UnitPrices(rows))

-----------------------------------------------------------------------------
(* Views of one snapshot *)

\* active_listings: the rows of the latest visible snapshot, of one type.
ActiveListings(d, since, items) ==
    LET latest == Latest(d, since)
    IN  [tx \in {t \in TxsIn(d, latest) : ItemOf[t] \in items} |-> d[latest].rows[tx]]

\* _price_movers: items priced in both snapshots, with both medians.
PriceMovers(d, now, before) ==
    IF before = None THEN {}
    ELSE {[item |-> i, now |-> MedianPrice(RowsOf(d, {now}, i)),
                       before |-> MedianPrice(RowsOf(d, {before}, i))] :
            i \in {j \in Items : /\ RowsOf(d, {now}, j) # {}
                                 /\ RowsOf(d, {before}, j) # {}
                                 /\ MedianPrice(RowsOf(d, {before}, j)) # 0}}

Overview(d, since) ==
    LET latest == Latest(d, since)
    IN  IF latest = None
        THEN [latest |-> None, active |-> 0, distinct |-> 0, supply |-> {}, movers |-> {}]
        ELSE [latest |-> latest,
              active |-> Cardinality(TxsIn(d, latest)),
              distinct |-> Cardinality(ItemsIn(TxsIn(d, latest))),
              supply |-> {<<id, d[id].at, Cardinality(TxsIn(d, id))>> : id \in Visible(d, since)},
              movers |-> PriceMovers(d, latest, Previous(d, latest, since))]

-----------------------------------------------------------------------------
(* Views of what left the market *)

\* The store classifies by the countdown of the last sighting.
RemovalReason(ttl) == IF ttl < ExpiryWindow THEN "EXPIRED" ELSE "REMOVED"

Departure(d, tx, last, vanished) ==
    [tx |-> tx, reason |-> RemovalReason(d[last].rows[tx]),
     last_seen |-> d[last].at, vanished_at |-> d[vanished].at]

\* recently_removed with no window: the delta of the last two visible snapshots.
RemovedSincePrevious(d, since) ==
    LET latest == Latest(d, since)
        prev == IF latest = None THEN None ELSE Previous(d, latest, since)
    IN  {Departure(d, tx, prev, latest) : tx \in TxsIn(d, prev) \ TxsIn(d, latest)}

\* Mutant: the window is measured from the last sighting.
RemovedSeenWithin(d, since, window) ==
    LET latest == Latest(d, since)
        gone == Seen(d, since) \ TxsIn(d, latest)
        last(tx) == Max(Sightings(d, since, tx))
    IN  {Departure(d, tx, last(tx), Following(d, last(tx), since)) :
            tx \in {t \in gone : d[last(t)].at >= d[latest].at - window}}

\* recently_removed with a window: every absent transaction whose last visible
\* sighting is followed by a visible snapshot inside the window.
RemovedWithin(d, since, window) ==
    LET latest == Latest(d, since)
        gone == Seen(d, since) \ TxsIn(d, latest)
        last(tx) == Max(Sightings(d, since, tx))
        vanish(tx) == Following(d, last(tx), since)
    IN  {Departure(d, tx, last(tx), vanish(tx)) :
            tx \in {t \in gone : d[vanish(t)].at >= d[latest].at - window}}

RecentlyRemoved(d, since, window) ==
    IF window = None THEN RemovedSincePrevious(d, since) ELSE RemovedWithin(d, since, window)

\* price_history: the listings and the series of an item asked for in any
\* spelling; the one of its rows is adopted, and what is on sale looked up by it.
ItemPage(d, since, key) ==
    LET latest == Latest(d, since)
        seen == {tx \in Seen(d, since) : Lower[ItemOf[tx]] = key}
        item == CHOOSE i \in ItemsIn(seen) : TRUE
        active == {tx \in TxsIn(d, latest) : ItemOf[tx] = item}
        last(tx) == Max(Sightings(d, since, tx))
        next(tx) == LET n == Following(d, last(tx), since) IN IF n = None THEN latest ELSE n
    IN  IF seen = {} THEN None
        ELSE [current |-> active,
              previous |-> {Departure(d, tx, last(tx), next(tx)) : tx \in seen \ active},
              first_seen |-> [tx \in seen |-> d[Min(Sightings(d, since, tx))].at],
              series |-> {<<id, MedianPrice(RowsLike(d, {id}, key))>> :
                            id \in {i \in Visible(d, since) : RowsLike(d, {i}, key) # {}}}]

\* The rows of a missing item, one per kind it was listed as (GROUP BY item_id,
\* item_type, item_level); the type and level a row shows are the last seen
\* and left out.
MissingRows(d, since, item) ==
    LET rows == RowsOf(d, Visible(d, since), item)
        of(kind) == {r \in rows : KindOf[r[2]] = kind}
    IN  {[item |-> item, kind |-> kind,
          median |-> SqlMedianPrice(rows),
          times_listed |-> Cardinality(of(kind)),
          min_price |-> Min({UnitPrice[r[2]] : r \in of(kind)}),
          max_price |-> Max({UnitPrice[r[2]] : r \in of(kind)}),
          last_seen |-> d[Max({r[1] : r \in rows})].at] : kind \in {KindOf[r[2]] : r \in rows}}

\* Mutant: what is on sale again is not taken out.
EverSeen(d, since) == UNION {MissingRows(d, since, i) : i \in ItemsIn(Seen(d, since))}

\* items_not_on_sale: seen before, absent from the latest snapshot.
NotOnSale(d, since) ==
    UNION {MissingRows(d, since, i) :
        i \in ItemsIn(Seen(d, since)) \ ItemsIn(TxsIn(d, Latest(d, since)))}

\* Mutants of SellerRow: the expiry window includes its end; listings already
\* there in the first snapshot are timed too.
SellerRowLateExpiry(d, since, item) ==
    LET latest == Latest(d, since)
        txs == {tx \in Seen(d, since) : ItemOf[tx] = item}
        active == txs \cap TxsIn(d, latest)
        last(tx) == Max(Sightings(d, since, tx))
        first(tx) == Min(Sightings(d, since, tx))
        expired == {tx \in txs \ active : d[last(tx)].rows[tx] <= ExpiryWindow}
        sold == (txs \ active) \ expired
        timed == {tx \in sold : first(tx) # Min(Visible(d, since))}
    IN  [item |-> item,
         sales |-> Cardinality(sold),
         expired |-> Cardinality(expired),
         active |-> Cardinality(active),
         timed |-> [tx \in timed |-> d[Following(d, last(tx), since)].at - d[first(tx)].at],
         last_seen |-> Max({d[last(tx)].at : tx \in txs} \cup {0})]

SellerRowUncensored(d, since, item) ==
    LET latest == Latest(d, since)
        txs == {tx \in Seen(d, since) : ItemOf[tx] = item}
        active == txs \cap TxsIn(d, latest)
        last(tx) == Max(Sightings(d, since, tx))
        first(tx) == Min(Sightings(d, since, tx))
        expired == {tx \in txs \ active : d[last(tx)].rows[tx] < ExpiryWindow}
        sold == (txs \ active) \ expired
    IN  [item |-> item,
         sales |-> Cardinality(sold),
         expired |-> Cardinality(expired),
         active |-> Cardinality(active),
         timed |-> [tx \in sold |-> d[Following(d, last(tx), since)].at - d[first(tx)].at],
         last_seen |-> Max({d[last(tx)].at : tx \in txs} \cup {0})]

\* best_sellers: per item, its sales, how long each fully observed one took
\* (keyed by transaction, a bag of durations), its timeouts and active listings.
\* A listing present in the first visible snapshot is left-censored.
SellerRow(d, since, item) ==
    LET latest == Latest(d, since)
        txs == {tx \in Seen(d, since) : ItemOf[tx] = item}
        active == txs \cap TxsIn(d, latest)
        last(tx) == Max(Sightings(d, since, tx))
        first(tx) == Min(Sightings(d, since, tx))
        expired == {tx \in txs \ active : d[last(tx)].rows[tx] < ExpiryWindow}
        sold == (txs \ active) \ expired
        timed == {tx \in sold : first(tx) # Min(Visible(d, since))}
    IN  [item |-> item,
         sales |-> Cardinality(sold),
         expired |-> Cardinality(expired),
         active |-> Cardinality(active),
         timed |-> [tx \in timed |-> d[Following(d, last(tx), since)].at - d[first(tx)].at],
         last_seen |-> Max({d[last(tx)].at : tx \in txs} \cup {0})]

BestSellers(d, since, min_sales) ==
    {row \in {SellerRow(d, since, i) : i \in ItemsIn(Seen(d, since))} :
        Cardinality(DOMAIN row.timed) >= min_sales}

-----------------------------------------------------------------------------
(* Prices: current median while listed now, else the historical median *)

\* Mutant of MaterialPrice: every ingredient has its historical price.
MaterialPriceHistorical(d, since, key) == MedianPrice(RowsLike(d, Visible(d, since), key))

\* _material_prices, for one ingredient; None when it was never observed.
MaterialPrice(d, since, key) ==
    LET every == RowsLike(d, Visible(d, since), key)
        active == {r \in every : r[1] = Latest(d, since)}
    IN  MedianPrice(IF active # {} THEN active ELSE every)

\* What the materials cost at these prices, both keyed by ingredient.
Cost(prices, materials) ==
    MapThenSumSet(LAMBDA m : prices[m] * materials[m], DOMAIN materials)

\* _recipe_payload: a partial estimate over the ingredients that have a price
\* and a quantity.
RecipeCost(d, since, key) ==
    LET price(m) == MaterialPrice(d, since, m)
        priced == {m \in DOMAIN Recipe[key] : price(m) # None /\ Recipe[key][m] > 0}
    IN  [cost |-> IF priced = {} THEN None
                  ELSE Cost([m \in priced |-> price(m)], [m \in priced |-> Recipe[key][m]]),
         materials_priced |-> Cardinality(priced)]

\* _crafting_value_items.
Wanted == DOMAIN Recipe \cup UNION {DOMAIN Recipe[k] : k \in DOMAIN Recipe}

\* Mutant: the cutoff is forgotten in the medians.
PostedUncut(d, since) ==
    LET spelled == {i \in ItemsIn(Seen(d, since)) : Lower[i] \in Wanted}
        item(key) == CHOOSE i \in spelled : Lower[i] = key
        rows(key) == RowsOf(d, DOMAIN d, item(key))
    IN  [key \in {Lower[i] : i \in spelled} |->
            [historical |-> SqlMedianPrice(rows(key)),
             current |-> SqlMedianPrice({r \in rows(key) : r[1] = Latest(d, since)})]]

\* The query of crafting_value: a wanted key is resolved to its stored
\* spelling, and both medians of its rows are taken by DuckDB.
Posted(d, since) ==
    LET spelled == {i \in ItemsIn(Seen(d, since)) : Lower[i] \in Wanted}
        item(key) == CHOOSE i \in spelled : Lower[i] = key
        rows(key) == RowsOf(d, Visible(d, since), item(key))
    IN  [key \in {Lower[i] : i \in spelled} |->
            [historical |-> SqlMedianPrice(rows(key)),
             current |-> SqlMedianPrice({r \in rows(key) : r[1] = Latest(d, since)})]]

\* posted_price.
PostedPrice(posted, key) ==
    IF key \notin DOMAIN posted THEN None
    ELSE IF posted[key].current # None THEN posted[key].current
    ELSE posted[key].historical

\* crafting_value: only what was observed and has every ingredient priced, and
\* of that only what is worth crafting (price >= cost) or listed now.
CraftingValue(d, since) ==
    LET posted == Posted(d, since)
        price(m) == PostedPrice(posted, m)
        priced(k) == {m \in DOMAIN Recipe[k] : price(m) # None /\ Recipe[k][m] > 0}
        cost(k) == Cost([m \in priced(k) |-> price(m)], [m \in priced(k) |-> Recipe[k][m]])
        listed(k) == posted[k].current # None
    IN  {[key |-> k, craft_cost |-> cost(k), price |-> price(k), listed_now |-> listed(k)] :
            k \in {j \in DOMAIN Recipe \cap DOMAIN posted :
                    /\ cost(j) # 0 /\ priced(j) = DOMAIN Recipe[j]
                    /\ price(j) >= cost(j) \/ listed(j)}}

\* search_items: any catalog item, observed or not.
SearchRow(d, since, key) ==
    LET every == RowsLike(d, Visible(d, since), key)
        active == {r \in every : r[1] = Latest(d, since)}
    IN  [key |-> key,
         listed_now |-> active # {},
         active_count |-> Cardinality(active),
         current |-> MedianPrice(active),
         median |-> MedianPrice(every)]
=============================================================================
