------------------------------ MODULE Dashboard ------------------------------
(***************************************************************************)
(* A page of the dashboard (web/static/app.js) and the read requests it    *)
(* makes, down to the memoized views.  A caller of SnapshotCache is the    *)
(* thread of one request.  Once it has its view it leaves the lock of the  *)
(* web application (web/server.py, _query), overwrites the seller ids of   *)
(* the rows in place and writes them out; the rows of a memoized view are  *)
(* the same Python objects for every request that finds it.  The page      *)
(* keeps every body it gets, by URL, until it is loaded anew.              *)
(*                                                                         *)
(* A URL is the key of its view.  The lock is not modelled here: what      *)
(* holds without it holds with it.                                         *)
(***************************************************************************)
EXTENDS SnapshotCache, FiniteSets

CONSTANT Objects     \* names of the row lists in memory: 0 is none of them

ASSUME ObjectsAssumption ==
    /\ Objects \subseteq Nat \ {0}
    /\ IsFiniteSet(Callers) /\ IsFiniteSet(Keys)
    /\ Cardinality(Objects) > Cardinality(Callers) + Cardinality(Keys)

VARIABLES
    rows,            \* caller -> the rows its request answers with
    kept,            \* key -> the rows of its memoized view
    hidden,          \* the rows whose seller ids are overwritten
    answer,          \* caller -> "none", "redacted", "sent"
    abandoned,       \* the requests whose page is gone
    apiCache,        \* the page's bodies, by URL
    shown,           \* what the page shows, by URL
    born             \* history: the newest snapshot when the page was loaded

pageVars == <<abandoned, apiCache, shown, born>>
bodyVars == <<rows, kept, hidden, answer>>
dashboardVars == <<vars, bodyVars, pageVars>>

Set(f, k, v) == [x \in DOMAIN f \cup {k} |-> IF x = k THEN v ELSE f[x]]

\* Names no request and no memoized view holds; new rows get the first.
Unused == {o \in Objects :
    /\ \A c \in Callers : rows[c] # o
    /\ \A k \in DOMAIN values : kept[k] # o}

-----------------------------------------------------------------------------
DashboardInit ==
    /\ Init
    /\ rows = [c \in Callers |-> 0] /\ kept = [k \in Keys |-> 0]
    /\ hidden = {} /\ answer = [c \in Callers |-> "none"]
    /\ abandoned = {} /\ apiCache = Empty /\ shown = Empty /\ born = latest

\* api: a URL whose body is in memory is rendered at once.
ShowAgain(key) ==
    /\ key \in DOMAIN apiCache
    /\ shown' = Set(shown, key, apiCache[key])
    /\ UNCHANGED <<vars, bodyVars, abandoned, apiCache, born>>

\* api: otherwise it is fetched, also when a fetch of it is under way.
Fetch(c, key) ==
    /\ key \notin DOMAIN apiCache
    /\ Resolve(c, key)
    /\ UNCHANGED <<bodyVars, pageVars>>

Look(c) ==
    /\ Get(c)
    /\ rows' = [rows EXCEPT ![c] = IF Hit(c) THEN kept[req[c].key] ELSE 0]
    /\ UNCHANGED <<kept, hidden, answer, pageVars>>

\* The query builds new rows.
Build(c) ==
    /\ Compute(c)
    /\ \E o \in Unused :
        /\ \A p \in Unused : o <= p
        /\ rows' = [rows EXCEPT ![c] = o]
        /\ hidden' = hidden \ {o}
    /\ UNCHANGED <<kept, answer, pageVars>>

Memoize(c) ==
    /\ Put(c)
    /\ kept' = [kept EXCEPT ![req[c].key] = rows[c]]
    /\ UNCHANGED <<rows, hidden, answer, pageVars>>

\* Mutant: memoized rows keep their ids for the next query.
RedactOwn(c) ==
    /\ pc[c] = "done" /\ answer[c] = "none"
    /\ hidden' = IF kept[req[c].key] = rows[c] THEN hidden ELSE hidden \cup {rows[c]}
    /\ answer' = [answer EXCEPT ![c] = "redacted"]
    /\ UNCHANGED <<vars, rows, kept, pageVars>>

\* _redact_seller_ids.
Redact(c) ==
    /\ pc[c] = "done" /\ answer[c] = "none"
    /\ hidden' = hidden \cup {rows[c]}
    /\ answer' = [answer EXCEPT ![c] = "redacted"]
    /\ UNCHANGED <<vars, rows, kept, pageVars>>

\* json.dumps, and the answer is on its way.
Send(c) ==
    /\ answer[c] = "redacted"
    /\ answer' = [answer EXCEPT ![c] = "sent"]
    /\ UNCHANGED <<vars, rows, kept, hidden, pageVars>>

\* The body reaches the page, which keeps and renders it, or the fetch fails,
\* or the page it was for is gone.
Deliver(c) ==
    /\ answer[c] = "sent"
    /\ Return(c)
    /\ rows' = [rows EXCEPT ![c] = 0]
    /\ answer' = [answer EXCEPT ![c] = "none"]
    /\ abandoned' = abandoned \ {c}
    /\ \/ /\ c \notin abandoned
          /\ apiCache' = Set(apiCache, req[c].key, result[c])
          /\ shown' = Set(shown, req[c].key, result[c])
       \/ UNCHANGED <<apiCache, shown>>
    /\ UNCHANGED <<kept, hidden, born>>

\* The page is loaded anew.
Reload ==
    /\ abandoned' = {c \in Callers : pc[c] # "idle"}
    /\ apiCache' = Empty /\ shown' = Empty /\ born' = latest
    /\ UNCHANGED <<vars, bodyVars>>

Elsewhere == (NewSnapshot \/ Clear) /\ UNCHANGED <<bodyVars, pageVars>>

DashboardNext ==
    \/ Elsewhere \/ Reload
    \/ \E key \in Keys : ShowAgain(key)
    \/ \E c \in Callers :
        \/ \E key \in Keys : Fetch(c, key)
        \/ Look(c) \/ Build(c) \/ Memoize(c) \/ Redact(c) \/ Send(c) \/ Deliver(c)

DashboardSpec == DashboardInit /\ [][DashboardNext]_dashboardVars

-----------------------------------------------------------------------------
(* Properties *)

DashboardTypeOK ==
    /\ TypeOK
    /\ rows \in [Callers -> Objects \cup {0}]
    /\ kept \in [Keys -> Objects \cup {0}]
    /\ hidden \subseteq Objects
    /\ answer \in [Callers -> {"none", "redacted", "sent"}]
    /\ abandoned \subseteq Callers
    /\ \A f \in {apiCache, shown} : DOMAIN f \subseteq Keys /\ f \in [DOMAIN f -> 0 .. MaxId]
    /\ born \in 1 .. MaxId

\* No answer goes out with a seller's id in it, although requests overwrite,
\* memoize and write out the same rows at once and nothing guards them.
SellersStayHidden ==
    \A c \in Callers : answer[c] # "none" => rows[c] \in hidden

\* The page never shows a view older than the database was when the page was
\* loaded: a body kept "for the life of the page" is at worst as old as it.
PageIsNoOlderThanItsLoad ==
    \A key \in DOMAIN shown : shown[key] >= born
=============================================================================
