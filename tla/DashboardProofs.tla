--------------------------- MODULE DashboardProofs ---------------------------
(***************************************************************************)
(* First the cache, for any number of request threads, keys and snapshots. *)
(* Its invariant adds to the properties that a thread never asks for a     *)
(* snapshot that does not exist yet: without it a history view could be    *)
(* computed from less than the id it is filed under.                       *)
(*                                                                         *)
(* Then the page and its requests, for any number of requests at once and  *)
(* any URLs.  Below the page everything is a step of the cache, whose      *)
(* invariant is taken over.  The invariants added say that a request is    *)
(* answered with what the cache handed to it, that a page's requests were  *)
(* made when its database was at least as new as its load, and that rows   *)
(* exist wherever a view does.                                             *)
(***************************************************************************)
EXTENDS Dashboard, TLAPS

-----------------------------------------------------------------------------
(* The cache *)

RequestsExist == \A c \in Callers : req[c].id <= latest

CacheInv ==
    /\ TypeOK
    /\ RequestsExist
    /\ CacheCoherent
    /\ CallersGetTheirSnapshot

\* What is kept for an id answers that id (SnapshotCache.get and put, their
\* common first lines).
LEMMA KeptAnswers ==
    ASSUME TypeOK, CacheCoherent, NEW id \in 1 .. MaxId
    PROVE  /\ DOMAIN ValuesFor(id) \subseteq Keys
           /\ ValuesFor(id) \in [DOMAIN ValuesFor(id) -> 0 .. MaxId]
           /\ \A k \in DOMAIN ValuesFor(id) : Answers(ValuesFor(id)[k], id, k)
<1>1. CASE id = snapshot_id
  BY <1>1 DEF ValuesFor, TypeOK, CacheCoherent
<1>2. CASE id # snapshot_id
  BY <1>2 DEF ValuesFor, Empty
<1> QED  BY <1>1, <1>2

LEMMA InitInv == Init => CacheInv
  BY CacheAssumption DEF Init, CacheInv, TypeOK, RequestsExist, CacheCoherent,
     CallersGetTheirSnapshot, Empty

LEMMA StepInv == CacheInv /\ [Next]_vars => CacheInv'
<1> SUFFICES ASSUME CacheInv, [Next]_vars
             PROVE  CacheInv'
  OBVIOUS
<1> USE CacheAssumption DEF CacheInv
<1>1. CASE NewSnapshot
  BY <1>1 DEF NewSnapshot, TypeOK, RequestsExist, CacheCoherent, CallersGetTheirSnapshot, Answers
<1>2. CASE Clear
  BY <1>2 DEF Clear, Empty, TypeOK, RequestsExist, CacheCoherent, CallersGetTheirSnapshot, Answers
<1>3. ASSUME NEW c \in Callers, NEW key \in Keys, Resolve(c, key)
      PROVE  CacheInv'
  BY <1>3 DEF Resolve, TypeOK, RequestsExist, CacheCoherent, CallersGetTheirSnapshot, Answers
<1>4. ASSUME NEW c \in Callers, Get(c)
      PROVE  CacheInv'
  <2>1. req[c].id \in 1 .. MaxId /\ req[c].key \in Keys
    BY DEF TypeOK
  <2>2. TypeOK' /\ RequestsExist'
    BY <1>4, <2>1, KeptAnswers DEF Get, Hit, TypeOK, RequestsExist
  <2>3. CacheCoherent'
    BY <1>4, <2>1, KeptAnswers DEF Get, CacheCoherent
  <2>4. CallersGetTheirSnapshot'
    BY <1>4, <2>1, KeptAnswers DEF Get, Hit, TypeOK, CallersGetTheirSnapshot
  <2> QED  BY <2>2, <2>3, <2>4
<1>5. ASSUME NEW c \in Callers, Compute(c)
      PROVE  CacheInv'
  BY <1>5 DEF Compute, TypeOK, RequestsExist, CacheCoherent, CallersGetTheirSnapshot, Answers
<1>6. ASSUME NEW c \in Callers, Put(c)
      PROVE  CacheInv'
  <2>1. req[c].id \in 1 .. MaxId /\ req[c].key \in Keys /\ result[c] \in 0 .. MaxId
    BY DEF TypeOK
  <2>2. Answers(result[c], req[c].id, req[c].key)
    BY <1>6 DEF Put, CallersGetTheirSnapshot
  <2>3. TypeOK' /\ RequestsExist'
    BY <1>6, <2>1, KeptAnswers DEF Put, TypeOK, RequestsExist
  <2>4. CacheCoherent'
    BY <1>6, <2>1, <2>2, KeptAnswers DEF Put, CacheCoherent
  <2>5. CallersGetTheirSnapshot'
    BY <1>6 DEF Put, TypeOK, CallersGetTheirSnapshot
  <2> QED  BY <2>3, <2>4, <2>5
<1>7. ASSUME NEW c \in Callers, Return(c)
      PROVE  CacheInv'
  BY <1>7 DEF Return, TypeOK, RequestsExist, CacheCoherent, CallersGetTheirSnapshot, Answers
<1>8. CASE UNCHANGED vars
  BY <1>8 DEF vars, TypeOK, RequestsExist, CacheCoherent, CallersGetTheirSnapshot, Answers
<1> QED
  BY <1>1, <1>2, <1>3, <1>4, <1>5, <1>6, <1>7, <1>8 DEF Next, CallerStep

LEMMA Invariance == Spec => []CacheInv
  BY InitInv, StepInv, PTL DEF Spec

\* Every variable of the cache and of its callers stays in its type.
THEOREM TypeCorrect == Spec => []TypeOK
  BY Invariance, PTL DEF CacheInv

\* The memo never holds, under an id, a view of another or an older snapshot.
THEOREM CoherentCache == Spec => []CacheCoherent
  BY Invariance, PTL DEF CacheInv

\* No caller gets a view older than the snapshot it resolved, or a listings
\* view of another snapshot, whatever the other threads do meanwhile.
THEOREM RightAnswers == Spec => []CallersGetTheirSnapshot
  BY Invariance, PTL DEF CacheInv

-----------------------------------------------------------------------------
(* The page *)

AnswersAreDone == \A c \in Callers : answer[c] # "none" => pc[c] = "done"

HiddenInv ==
    /\ answer \in [Callers -> {"none", "redacted", "sent"}]
    /\ rows \in [Callers -> Objects \cup {0}] /\ kept \in [Keys -> Objects \cup {0}]
    /\ AnswersAreDone
    /\ SellersStayHidden

RequestsAreOfThePage ==
    \A c \in Callers : pc[c] # "idle" /\ c \notin abandoned => req[c].id >= born

PageInv ==
    /\ born \in 1 .. MaxId /\ born <= latest
    /\ DOMAIN apiCache \subseteq Keys
    /\ apiCache \in [DOMAIN apiCache -> 0 .. MaxId]
    /\ shown \in [DOMAIN shown -> 0 .. MaxId]
    /\ \A key \in DOMAIN apiCache : apiCache[key] >= born
    /\ RequestsAreOfThePage
    /\ PageIsNoOlderThanItsLoad

RowsInv ==
    /\ \A c \in Callers : pc[c] \in {"put", "done"} => rows[c] \in Objects
    /\ \A key \in DOMAIN values : kept[key] \in Objects
    /\ hidden \subseteq Objects
    /\ abandoned \subseteq Callers
    /\ DOMAIN shown \subseteq Keys

\* Below the page there are only the cache and its callers.
LEMMA PageStepsAreCacheSteps == [DashboardNext]_dashboardVars => [Next]_vars
<1> SUFFICES ASSUME [DashboardNext]_dashboardVars
             PROVE  Next \/ UNCHANGED vars
  BY DEF vars
<1>1. CASE UNCHANGED dashboardVars
  BY <1>1 DEF dashboardVars
<1>2. CASE DashboardNext
  BY <1>2 DEF DashboardNext, Elsewhere, Reload, ShowAgain, Fetch, Look, Build, Memoize,
     Redact, Send, Deliver, Next, CallerStep
<1> QED  BY <1>1, <1>2

LEMMA CacheBelow == DashboardSpec => []CacheInv
<1>1. DashboardInit => CacheInv
  BY InitInv DEF DashboardInit
<1>2. CacheInv /\ [DashboardNext]_dashboardVars => CacheInv'
  BY PageStepsAreCacheSteps, StepInv
<1> QED  BY <1>1, <1>2, PTL DEF DashboardSpec

-----------------------------------------------------------------------------
LEMMA HiddenStep == CacheInv /\ HiddenInv /\ [DashboardNext]_dashboardVars => HiddenInv'
<1> SUFFICES ASSUME CacheInv, HiddenInv, [DashboardNext]_dashboardVars
             PROVE  HiddenInv'
  OBVIOUS
<1> USE DEF HiddenInv, AnswersAreDone, SellersStayHidden
<1>a. /\ pc \in [Callers -> {"idle", "get", "compute", "put", "done"}]
      /\ req \in [Callers -> [id : 1 .. MaxId, key : Keys]]
  BY DEF CacheInv, TypeOK
<1>1. CASE Elsewhere
  BY <1>1 DEF Elsewhere, NewSnapshot, Clear, bodyVars
<1>2. CASE Reload
  BY <1>2 DEF Reload, vars, bodyVars
<1>3. ASSUME NEW key \in Keys, ShowAgain(key)
      PROVE  HiddenInv'
  BY <1>3, <1>a DEF ShowAgain, vars, bodyVars
<1>4. ASSUME NEW c \in Callers, NEW key \in Keys, Fetch(c, key)
      PROVE  HiddenInv'
  BY <1>4, <1>a DEF Fetch, Resolve, bodyVars
<1>5. ASSUME NEW c \in Callers, Look(c)
      PROVE  HiddenInv'
  BY <1>5, <1>a DEF Look, Get
<1>6. ASSUME NEW c \in Callers, Build(c)
      PROVE  HiddenInv'
  BY <1>6, <1>a DEF Build, Compute, Unused
<1>7. ASSUME NEW c \in Callers, Memoize(c)
      PROVE  HiddenInv'
  BY <1>7, <1>a DEF Memoize, Put
<1>8. ASSUME NEW c \in Callers, Redact(c)
      PROVE  HiddenInv'
  BY <1>8, <1>a DEF Redact, vars
<1>9. ASSUME NEW c \in Callers, Send(c)
      PROVE  HiddenInv'
  BY <1>9, <1>a DEF Send, vars
<1>10. ASSUME NEW c \in Callers, Deliver(c)
       PROVE  HiddenInv'
  BY <1>10, <1>a DEF Deliver, Return
<1>11. CASE UNCHANGED dashboardVars
  BY <1>11 DEF dashboardVars, vars, bodyVars
<1> QED
  BY <1>1, <1>2, <1>3, <1>4, <1>5, <1>6, <1>7, <1>8, <1>9, <1>10, <1>11 DEF DashboardNext

LEMMA PageStep == CacheInv /\ PageInv /\ [DashboardNext]_dashboardVars => PageInv'
<1> SUFFICES ASSUME CacheInv, PageInv, [DashboardNext]_dashboardVars
             PROVE  PageInv'
  OBVIOUS
<1> USE CacheAssumption DEF PageInv, RequestsAreOfThePage, PageIsNoOlderThanItsLoad
<1>a. /\ latest \in 1 .. MaxId
      /\ pc \in [Callers -> {"idle", "get", "compute", "put", "done"}]
      /\ req \in [Callers -> [id : 1 .. MaxId, key : Keys]]
      /\ result \in [Callers -> 0 .. MaxId]
  BY DEF CacheInv, TypeOK
<1>1. CASE Elsewhere
  BY <1>1, <1>a DEF Elsewhere, NewSnapshot, Clear, pageVars
<1>2. CASE Reload
  BY <1>2, <1>a DEF Reload, vars, Empty
<1>3. ASSUME NEW key \in Keys, ShowAgain(key)
      PROVE  PageInv'
  BY <1>3, <1>a DEF ShowAgain, vars, Set
<1>4. ASSUME NEW c \in Callers, NEW key \in Keys, Fetch(c, key)
      PROVE  PageInv'
  BY <1>4, <1>a DEF Fetch, Resolve, pageVars
<1>5. ASSUME NEW c \in Callers, Look(c)
      PROVE  PageInv'
  BY <1>5, <1>a DEF Look, Get, pageVars
<1>6. ASSUME NEW c \in Callers, Build(c)
      PROVE  PageInv'
  BY <1>6, <1>a DEF Build, Compute, pageVars
<1>7. ASSUME NEW c \in Callers, Memoize(c)
      PROVE  PageInv'
  BY <1>7, <1>a DEF Memoize, Put, pageVars
<1>8. ASSUME NEW c \in Callers, Redact(c) \/ Send(c)
      PROVE  PageInv'
  BY <1>8, <1>a DEF Redact, Send, vars, pageVars
<1>9. ASSUME NEW c \in Callers, Deliver(c)
      PROVE  PageInv'
  <2>1. pc[c] = "done" /\ req[c].key \in Keys /\ result[c] \in 0 .. MaxId
    BY <1>9, <1>a DEF Deliver, Return
  <2>2. c \notin abandoned => result[c] >= born
    BY <2>1, <1>a DEF CacheInv, CallersGetTheirSnapshot, Answers
  <2>3. RequestsAreOfThePage'
    BY <1>9, <1>a DEF Deliver, Return
  <2> QED  BY <1>9, <1>a, <2>1, <2>2, <2>3 DEF Deliver, Return, Set
<1>10. CASE UNCHANGED dashboardVars
  BY <1>10, <1>a DEF dashboardVars, vars, pageVars
<1> QED
  BY <1>1, <1>2, <1>3, <1>4, <1>5, <1>6, <1>7, <1>8, <1>9, <1>10 DEF DashboardNext

LEMMA RowsStep == CacheInv /\ HiddenInv /\ PageInv /\ RowsInv
                    /\ [DashboardNext]_dashboardVars => RowsInv'
<1> SUFFICES ASSUME CacheInv, HiddenInv, PageInv, RowsInv, [DashboardNext]_dashboardVars
             PROVE  RowsInv'
  OBVIOUS
<1> USE DEF RowsInv
<1>a. /\ pc \in [Callers -> {"idle", "get", "compute", "put", "done"}]
      /\ req \in [Callers -> [id : 1 .. MaxId, key : Keys]]
      /\ rows \in [Callers -> Objects \cup {0}] /\ kept \in [Keys -> Objects \cup {0}]
      /\ DOMAIN values \subseteq Keys
  BY DEF CacheInv, TypeOK, HiddenInv
<1>b. DOMAIN apiCache \subseteq Keys
  BY DEF PageInv
<1>1. CASE Elsewhere
  BY <1>1, <1>a DEF Elsewhere, NewSnapshot, Clear, bodyVars, pageVars, Empty
<1>2. CASE Reload
  BY <1>2, <1>a DEF Reload, vars, bodyVars, Empty
<1>3. ASSUME NEW key \in Keys, ShowAgain(key)
      PROVE  RowsInv'
  BY <1>3, <1>a, <1>b DEF ShowAgain, vars, bodyVars, Set
<1>4. ASSUME NEW c \in Callers, NEW key \in Keys, Fetch(c, key)
      PROVE  RowsInv'
  BY <1>4, <1>a DEF Fetch, Resolve, bodyVars, pageVars
<1>5. ASSUME NEW c \in Callers, Look(c)
      PROVE  RowsInv'
  <2>1. DOMAIN ValuesFor(req[c].id) \subseteq DOMAIN values
    BY DEF ValuesFor, Empty
  <2> QED  BY <1>5, <1>a, <2>1 DEF Look, Get, Hit, pageVars
<1>6. ASSUME NEW c \in Callers, Build(c)
      PROVE  RowsInv'
  BY <1>6, <1>a DEF Build, Compute, Unused, pageVars
<1>7. ASSUME NEW c \in Callers, Memoize(c)
      PROVE  RowsInv'
  <2>1. DOMAIN ValuesFor(req[c].id) \subseteq DOMAIN values
    BY DEF ValuesFor, Empty
  <2>2. req[c].key \in Keys /\ rows[c] \in Objects
    BY <1>7, <1>a DEF Memoize, Put
  <2> QED  BY <1>7, <1>a, <2>1, <2>2 DEF Memoize, Put, pageVars
<1>8. ASSUME NEW c \in Callers, Redact(c)
      PROVE  RowsInv'
  BY <1>8, <1>a DEF Redact, vars, pageVars
<1>9. ASSUME NEW c \in Callers, Send(c)
      PROVE  RowsInv'
  BY <1>9, <1>a DEF Send, vars, pageVars
<1>10. ASSUME NEW c \in Callers, Deliver(c)
       PROVE  RowsInv'
  <2>1. req[c].key \in Keys
    BY <1>a
  <2> QED  BY <1>10, <1>a, <1>b, <2>1 DEF Deliver, Return, Set
<1>11. CASE UNCHANGED dashboardVars
  BY <1>11 DEF dashboardVars, vars, bodyVars, pageVars
<1> QED
  BY <1>1, <1>2, <1>3, <1>4, <1>5, <1>6, <1>7, <1>8, <1>9, <1>10, <1>11 DEF DashboardNext

LEMMA PageInit == DashboardInit => HiddenInv /\ PageInv /\ RowsInv
  BY CacheAssumption DEF DashboardInit, Init, Empty, HiddenInv, AnswersAreDone,
     SellersStayHidden, PageInv, RequestsAreOfThePage, PageIsNoOlderThanItsLoad, RowsInv

LEMMA PageInvariance == DashboardSpec => [](HiddenInv /\ PageInv /\ RowsInv)
  BY PageInit, CacheBelow, HiddenStep, PageStep, RowsStep, PTL DEF DashboardSpec

-----------------------------------------------------------------------------
\* The page, its requests and the rows they share keep their types: whatever is
\* answered, kept or redacted are rows some query built.
THEOREM PageTypes == DashboardSpec => []DashboardTypeOK
<1>1. CacheInv /\ HiddenInv /\ PageInv /\ RowsInv => DashboardTypeOK
  BY DEF CacheInv, HiddenInv, PageInv, RowsInv, DashboardTypeOK
<1> QED  BY <1>1, CacheBelow, PageInvariance, PTL

\* No answer carries a seller's id (web/server.py, _redact_seller_ids), however
\* many requests share, overwrite and write out the same rows.
THEOREM SellersHidden == DashboardSpec => []SellersStayHidden
<1>1. HiddenInv => SellersStayHidden
  BY DEF HiddenInv
<1> QED  BY <1>1, PageInvariance, PTL

\* Nothing a page shows is older than the page (web/static/app.js, api): not
\* with answers out of order, bodies kept and requests outliving their page.
THEOREM PagesAreFresh == DashboardSpec => []PageIsNoOlderThanItsLoad
<1>1. PageInv => PageIsNoOlderThanItsLoad
  BY DEF PageInv
<1> QED  BY <1>1, PageInvariance, PTL
=============================================================================
