---------------------------- MODULE WebAppProofs -----------------------------
(***************************************************************************)
(* The web application for any number of clients, requests, files and      *)
(* snapshots, with crashes, failing opens and foreign writers: what it     *)
(* acknowledged is stored and its memo is right; and, while --since stays  *)
(* what it is, its answers are states of the log current during the        *)
(* request, 304s included.                                                 *)
(***************************************************************************)
EXTENDS WebApp, WellFoundedInduction, TLAPS

\* How many snapshots the file under db_path holds.
Known == IF file = NoFile THEN 0 ELSE Len(stored[file])

Types == TypeOK /\ stored \in [Databases -> Seq(Times)]

Busy == {"validate", "serve", "record"}

Holder ==
    /\ lock = NoClient <=> stage = "free"
    /\ lock # NoClient => pc[lock] \in Busy

\* Which stage admits which connection: the open file is the one under db_path,
\* the in-memory schema is empty, and a post never gets to it.
Connection ==
    /\ conn \in Files => conn = file /\ ~inMemory
    /\ conn = Memory => inMemory
    /\ stored[Memory] = <<>>
    /\ stage = "query" => conn # NoConn
    /\ lock # NoClient /\ pc[lock] = "record" =>
        /\ stage \in {"resolve", "query"} => file # NoFile
        /\ stage = "query" => conn # Memory

\* The memo is the prefix of the log it is filed under.
Memo ==
    cache.id # 0 =>
        /\ cache.id <= Known
        /\ cache.view = {r \in Visible : r[2] <= cache.id}

ServerInv == Types /\ Holder /\ Connection /\ AckedIsDurable /\ Memo

-----------------------------------------------------------------------------
(* The log *)

LEMMA MemoryIsNoFile == Memory \notin Files /\ Memory # NoFile /\ NoFile \notin Files
BY DatabasesAssumption DEF Databases

\* What is committed and visible, by the ids.
LogShape ==
    /\ Known \in Nat
    /\ Committed = IF file = NoFile THEN {} ELSE {<<file, id>> : id \in 1 .. Known}
    /\ \A r \in Committed : r = <<file, r[2]>> /\ r[2] \in 1 .. Known
    /\ Visible = {r \in Committed : stored[file][r[2]] >= since}

LEMMA RefsOfTheFile == Types => LogShape
<1> SUFFICES ASSUME Types PROVE LogShape
  OBVIOUS
<1>1. CASE file = NoFile
  BY <1>1 DEF LogShape, Known, Committed, Visible
<1>2. CASE file # NoFile
  <2>1. file \in Databases /\ stored[file] \in Seq(Times)
    BY <1>2 DEF Types, TypeOK, Databases
  <2>2. Len(stored[file]) \in Nat /\ DOMAIN stored[file] = 1 .. Len(stored[file])
    BY <2>1
  <2> QED  BY <1>2, <2>2 DEF LogShape, Known, Committed, Visible, View, All
<1> QED  BY <1>1, <1>2

LEMMA RefsOfTheNextFile == Types' => LogShape'
BY RefsOfTheFile, PTL

\* What a step does to the file: nothing, one snapshot more, or another file
\* where there was none or an unused one.
Appended == file' = file /\ file # NoFile /\ \E at \in Times : stored'[file] = Append(stored[file], at)
Exchanged == Known = 0 /\ Known' = 0

LEMMA FileSteps ==
    ASSUME Types, Connection, Next
    PROVE  \/ file' = file /\ (file # NoFile => stored'[file] = stored[file])
           \/ Appended
           \/ Exchanged
<1> USE MemoryIsNoFile
<1>0. stored \in [Databases -> Seq(Times)] /\ file \in Files \cup {NoFile}
  BY DEF Types, TypeOK
<1>a. ASSUME file = NoFile, file' \in {f \in Files : stored[f] = <<>> /\ f # conn}, stored' = stored
      PROVE  Exchanged
  BY <1>a DEF Exchanged, Known
<1>1. CASE \E c \in Clients : Request(c, "validate") \/ Request(c, "record")
  BY <1>1 DEF Request, worldVars
<1>2. ASSUME NEW c \in Clients, Step(c)
      PROVE  \/ file' = file /\ (file # NoFile => stored'[file] = stored[file])
             \/ Appended
             \/ Exchanged
  <2>1. CASE Enter(c)
    BY <2>1 DEF Enter, worldVars
  <2>2. CASE Resolve(c)
    <3>1. stored' = stored \/ stored' = [stored EXCEPT ![Memory] = <<>>]
      BY <2>2 DEF Resolve
    <3> QED  BY <1>0, <2>2, <3>1 DEF Resolve, Databases
  <2>3. CASE Open(c)
    BY <1>a, <2>3 DEF Open
  <2>4. CASE OpenFails(c)
    BY <2>4 DEF OpenFails, Raise, worldVars
  <2>5. CASE QueryFails(c)
    BY <2>5 DEF QueryFails, Raise, worldVars
  <2>6. CASE Validate(c)
    BY <2>6 DEF Validate, worldVars
  <2>7. CASE Serve(c)
    BY <2>7 DEF Serve, worldVars
  <2>8. ASSUME NEW at \in Times, Record(c, at)
        PROVE  Appended
    <3>0. lock # NoClient /\ pc[lock] = "record" /\ stage = "query" /\ conn # Closed
      BY <2>8, ClientsAssumption DEF Record, Ready
    <3>1. conn \in Files
      BY <3>0 DEF Connection, Types, TypeOK, Databases
    <3>2. conn = file /\ file # NoFile /\ file \in Databases
      BY <3>1 DEF Connection, Databases
    <3> QED  BY <1>0, <2>8, <3>2 DEF Record, Appended
  <2>9. CASE Deliver(c)
    BY <2>9 DEF Deliver, worldVars
  <2> QED  BY <1>2, <2>1, <2>2, <2>3, <2>4, <2>5, <2>6, <2>7, <2>8, <2>9 DEF Step
<1>3. CASE World
  <2>1. CASE ForeignOpen
    BY <1>a, <2>1 DEF ForeignOpen
  <2>2. ASSUME NEW at \in Times, ForeignRecord(at)
        PROVE  Appended
    <3>1. file \in Databases
      BY <2>2, <1>0 DEF ForeignRecord, Databases
    <3> QED  BY <1>0, <2>2, <3>1 DEF ForeignRecord, Appended
  <2>3. CASE ForeignClose
    BY <2>3 DEF ForeignClose
  <2>4. CASE Remove
    BY <2>4 DEF Remove, Exchanged, Known
  <2>5. CASE CrashAndRestart
    BY <2>5 DEF CrashAndRestart, worldVars
  <2> QED  BY <1>3, <2>1, <2>2, <2>3, <2>4, <2>5 DEF World
<1> QED  BY <1>1, <1>2, <1>3 DEF Next

\* The log only grows, at its end.
LEMMA LogGrows ==
    ASSUME Types, Types', Connection, Next
    PROVE  /\ Known <= Known'
           /\ Committed \subseteq Committed'
           /\ \A r \in Committed' : r[2] <= Known => r \in Committed
           /\ since' = since => /\ Visible \subseteq Visible'
                               /\ \A r \in Visible' : r[2] <= Known => r \in Visible
<1>1. LogShape /\ LogShape'
  BY RefsOfTheFile, RefsOfTheNextFile
<1>3. CASE file' = file /\ (file # NoFile => stored'[file] = stored[file])
  <2>1. Known' = Known
    BY <1>3 DEF Known
  <2> QED  BY <1>1, <1>3, <2>1 DEF LogShape
<1>4. CASE Appended
  <2> PICK at \in Times : stored'[file] = Append(stored[file], at)
    BY <1>4 DEF Appended
  <2>1. file' = file /\ file # NoFile /\ stored[file] \in Seq(Times)
    BY <1>4 DEF Appended, Types, TypeOK, Databases
  <2>2. /\ Known' = Known + 1
        /\ \A id \in 1 .. Known : stored'[file][id] = stored[file][id]
    BY <2>1 DEF Known
  <2>3. Known \in Nat /\ Known <= Known'
    BY <1>1, <2>2 DEF LogShape
  <2>4. /\ Committed = {<<file, id>> : id \in 1 .. Known}
        /\ Committed' = {<<file, id>> : id \in 1 .. (Known + 1)}
    BY <1>1, <2>1, <2>2 DEF LogShape
  <2>5. /\ Committed \subseteq Committed'
        /\ \A r \in Committed' : r[2] <= Known => r \in Committed
    BY <2>3, <2>4
  <2>6. /\ Visible = {r \in Committed : stored[file][r[2]] >= since}
        /\ Visible' = {r \in Committed' : stored'[file][r[2]] >= since'}
        /\ \A r \in Committed : stored'[file][r[2]] = stored[file][r[2]]
    BY <1>1, <2>1, <2>2 DEF LogShape
  <2> QED  BY <2>3, <2>5, <2>6
<1>5. CASE Exchanged
  <2>1. Known = 0 /\ Known' = 0 /\ Committed = {} /\ Committed' = {}
    BY <1>1, <1>5 DEF Exchanged, LogShape
  <2> QED  BY <1>1, <2>1 DEF LogShape
<1> QED  BY <1>3, <1>4, <1>5, FileSteps

\* Latest is the greatest visible id, or 0.
LEMMA LatestIsGreatest ==
    ASSUME Types, NEW d \in Databases
    PROVE  /\ Latest(d) \in 0 .. MaxSnapshots
           /\ View(d) = {} <=> Latest(d) = 0
           /\ View(d) # {} => <<d, Latest(d)>> \in View(d)
           /\ \A r \in View(d) : r[2] \in 1 .. Len(stored[d]) /\ r[2] <= Latest(d)
<1>1. /\ stored[d] \in Seq(Times) /\ Len(stored[d]) \in 0 .. MaxSnapshots
      /\ MaxSnapshots \in Nat
  BY BoundsAssumption DEF Types, TypeOK
<1>2. \A r \in View(d) : r[2] \in 1 .. Len(stored[d]) /\ r = <<d, r[2]>>
  BY <1>1 DEF View, All
<1>3. CASE View(d) = {}
  BY <1>1, <1>3 DEF Latest
<1>4. CASE View(d) # {}
  <2> DEFINE Bounds == {n \in Nat : \A r \in View(d) : r[2] <= n}
             Less == OpToRel(<, Nat)
  <2>1. MaxSnapshots \in Bounds
    BY <1>1, <1>2
  <2>2. PICK n \in Bounds : \A m \in Bounds : ~ (<<m, n>> \in Less)
    <3> HIDE DEF Bounds, Less
    <3>1. Bounds \subseteq Nat /\ Bounds # {}
      BY <2>1 DEF Bounds
    <3>2. IsWellFoundedOn(Less, Nat)
      BY NatLessThanWellFounded DEF Less
    <3> QED  BY <3>1, <3>2, WFMin
  <2>3. \A m \in Bounds : ~ (m < n)
    BY <2>2 DEF OpToRel
  <2>4. n \in 1 .. MaxSnapshots
    BY <1>1, <1>2, <1>4, <2>1, <2>3
  <2>5. n - 1 \in Nat /\ n - 1 \notin Bounds
    BY <2>3, <2>4, <1>1
  <2>6. PICK r \in View(d) : ~ (r[2] <= n - 1)
    BY <2>5
  <2>7. r[2] = n /\ r = <<d, n>>
    BY <1>1, <1>2, <2>4, <2>6
  <2>8. <<d, n>> \in View(d) /\ \A q \in View(d) : q[2] <= n
    BY <2>2, <2>6, <2>7
  <2>9. /\ Latest(d) \in 1 .. MaxSnapshots
        /\ <<d, Latest(d)>> \in View(d) /\ \A q \in View(d) : q[2] <= Latest(d)
    BY <1>4, <2>4, <2>8 DEF Latest
  <2> QED  BY <1>2, <1>4, <2>9
<1> QED  BY <1>3, <1>4

\* An open connection to a database other than the empty schema sees the log.
LEMMA OpenSeesTheLog ==
    ASSUME Types, Connection, conn \in Databases
    PROVE  /\ conn = Memory => View(conn) = {} /\ Latest(conn) = 0
           /\ conn # Memory => /\ conn = file /\ file # NoFile
                              /\ View(conn) = Visible /\ Latest(conn) <= Known
           /\ Latest(conn) <= Known
<1>0. Known \in Nat
  BY RefsOfTheFile DEF LogShape
<1>1. CASE conn = Memory
  <2>1. View(conn) = {}
    BY <1>1 DEF Connection, View, All
  <2>2. Latest(conn) = 0
    BY <2>1 DEF Latest
  <2> QED  BY <1>0, <1>1, <2>1, <2>2
<1>2. CASE conn # Memory
  <2>1. conn \in Files
    BY <1>2 DEF Databases
  <2>2. conn = file /\ file # NoFile
    BY <2>1, MemoryIsNoFile DEF Connection
  <2>3. View(conn) = Visible /\ Known = Len(stored[conn])
    BY <2>2 DEF Visible, Known
  <2>4. Latest(conn) <= Known
    <3>1. CASE View(conn) = {}
      BY <1>0, <3>1 DEF Latest
    <3>2. CASE View(conn) # {}
      <4>1. <<conn, Latest(conn)>> \in View(conn)
        BY <3>2, LatestIsGreatest
      <4>2. <<conn, Latest(conn)>>[2] \in 1 .. Len(stored[conn])
        BY <4>1, LatestIsGreatest
      <4> QED  BY <1>0, <2>3, <4>2
    <3> QED  BY <3>1, <3>2
  <2> QED  BY <1>2, <2>2, <2>3, <2>4
<1> QED  BY <1>1, <1>2

\* What a memoized or freshly computed view is.
LEMMA ServedIsTheView ==
    ASSUME Types, Connection, Memo, conn \in Databases, NEW c \in Clients
    PROVE  Served(c) = View(conn)
<1>1. CASE c \in Memoized /\ Latest(conn) # 0 /\ cache.id = Latest(conn)
  <2>1. conn # Memory /\ View(conn) = Visible
    BY <1>1, OpenSeesTheLog
  <2>2. cache.view = {r \in Visible : r[2] <= Latest(conn)}
    BY <1>1 DEF Memo
  <2>3. \A r \in Visible : r[2] <= Latest(conn)
    BY <2>1, LatestIsGreatest
  <2> QED  BY <1>1, <2>1, <2>2, <2>3 DEF Served
<1> QED  BY <1>1 DEF Served

-----------------------------------------------------------------------------
(* The server *)

Responses == [status : {NoResponse, 200, 201, 304, 500}, etag : Etags, view : SUBSET Refs]
Copies == [etag : Etags, view : SUBSET Refs]

LEMMA TypesStart == Init => Types
<1> SUFFICES ASSUME Init PROVE Types
  OBVIOUS
<1>1. stored \in [Databases -> {<<>>} \cup {<<t>> : t \in Times}]
  BY DEF Init
<1>2. MaxSnapshots \in Nat \ {0} /\ MaxRequests \in Nat /\ 0 \in 0 .. MaxRequests
  BY BoundsAssumption
<1>3. ASSUME NEW d \in Databases
      PROVE  /\ stored[d] \in Seq(Times) /\ Len(stored[d]) \in 0 .. MaxSnapshots
             /\ \A id \in DOMAIN stored[d] : stored[d][id] \in Times
  <2>1. CASE stored[d] = <<>>
    BY <1>2, <2>1
  <2>2. ASSUME NEW t \in Times, stored[d] = <<t>>
        PROVE  /\ stored[d] \in Seq(Times) /\ Len(stored[d]) \in 0 .. MaxSnapshots
               /\ \A id \in DOMAIN stored[d] : stored[d][id] \in Times
    BY <1>2, <2>2
  <2> QED  BY <1>1, <2>1, <2>2
<1>4. /\ NoEtag \in Etags /\ 0 \in 0 .. MaxSnapshots
      /\ NoAnswer \in Responses /\ NoCopy \in Copies
      /\ EmptyCache \in [id : 0 .. MaxSnapshots, view : SUBSET Refs]
  BY <1>2 DEF Etags, NoEtag, NoAnswer, NoCopy, EmptyCache, NoResponse, Responses, Copies
<1>5. stored \in [Databases -> Seq(Times)]
  BY <1>1, <1>3
<1>6. /\ pc \in [Clients -> Phases] /\ validator \in [Clients -> Etags]
      /\ answer \in [Clients -> Responses] /\ copy \in [Clients -> Copies]
      /\ floor \in [Clients -> SUBSET Refs] /\ acked \subseteq Refs /\ asked \in 0 .. MaxRequests
  BY <1>2, <1>4 DEF Init, Phases, Responses, Copies
<1>7. /\ cache \in [id : 0 .. MaxSnapshots, view : SUBSET Refs]
      /\ conn \in Databases \cup {NoConn, Closed} /\ inMemory \in BOOLEAN
      /\ lock \in Clients \cup {NoClient} /\ stage \in {"free", "resolve", "open", "query"}
      /\ file \in Files \cup {NoFile} /\ foreign \in BOOLEAN /\ since \in Sinces
  BY <1>4 DEF Init, Start
<1> QED  BY <1>3, <1>5, <1>6, <1>7 DEF Types, TypeOK, Responses, Copies

LEMMA ViewsAreRefs ==
    ASSUME Types
    PROVE  \A d \in Databases : All(d) \subseteq Refs /\ View(d) \subseteq Refs
<1> SUFFICES ASSUME NEW d \in Databases PROVE All(d) \subseteq Refs
  BY DEF View
<1>1. /\ stored[d] \in Seq(Times) /\ Len(stored[d]) \in 0 .. MaxSnapshots
      /\ MaxSnapshots \in Nat
  BY BoundsAssumption DEF Types, TypeOK
<1>2. \A id \in DOMAIN stored[d] : id \in 1 .. MaxSnapshots
  BY <1>1
<1> QED  BY <1>2 DEF All, Refs

LEMMA RespondTypes ==
    ASSUME Types, NEW c, NEW r \in Responses, Respond(c, r)
    PROVE  answer' \in [Clients -> Responses]
<1>1. answer \in [Clients -> Responses]
  BY DEF Types, TypeOK, Responses
<1> QED  BY <1>1 DEF Respond

LEMMA RaiseTypes ==
    ASSUME Types, NEW c \in Clients, Raise(c), conn' \in Databases \cup {NoConn, Closed}
    PROVE  Types'
<1>1. ASSUME NEW status \in {NoResponse, 500}
      PROVE  [NoAnswer EXCEPT !.status = status] \in Responses
  BY DEF NoAnswer, Responses, Etags, NoResponse
<1>2. \E status \in {NoResponse, 500} : Respond(c, [NoAnswer EXCEPT !.status = status])
  BY Zenon DEF Raise
<1>3. answer' \in [Clients -> Responses]
  BY <1>1, <1>2, RespondTypes
<1>4. pc' \in [Clients -> Phases]
  BY DEF Raise, Types, TypeOK, Phases
<1>5. lock' = NoClient /\ stage' = "free"
  BY DEF Raise, Release
<1>6. UNCHANGED <<since, inMemory, cache, file, stored, foreign, validator, copy, floor, acked, asked>>
  BY DEF Raise, worldVars
<1> HIDE DEF Raise
<1> QED  BY <1>3, <1>4, <1>5, <1>6 DEF Types, TypeOK, Responses

StoredTypes ==
    /\ stored \in [Databases -> Seq(Times)]
    /\ \A d \in Databases :
        /\ Len(stored[d]) \in 0 .. MaxSnapshots
        /\ \A id \in DOMAIN stored[d] : stored[d][id] \in Times

LEMMA AppendTypes ==
    ASSUME Types, NEW d \in Databases, Len(stored[d]) < MaxSnapshots, NEW at \in Times,
           stored' = [stored EXCEPT ![d] = Append(@, at)]
    PROVE  StoredTypes'
<1>1. /\ stored \in [Databases -> Seq(Times)] /\ Len(stored[d]) \in 0 .. MaxSnapshots
      /\ MaxSnapshots \in Nat
  BY BoundsAssumption DEF Types, TypeOK
<1>2. /\ Append(stored[d], at) \in Seq(Times)
      /\ Len(Append(stored[d], at)) = Len(stored[d]) + 1
  BY <1>1
<1>3. Len(stored[d]) + 1 \in 0 .. MaxSnapshots
  BY <1>1
<1>4. \A e \in Databases : stored'[e] = IF e = d THEN Append(stored[d], at) ELSE stored[e]
  BY <1>1
<1>5. stored' \in [Databases -> Seq(Times)]
  BY <1>1, <1>2
<1>6. ASSUME NEW e \in Databases
      PROVE  /\ Len(stored'[e]) \in 0 .. MaxSnapshots
             /\ \A id \in DOMAIN stored'[e] : stored'[e][id] \in Times
  <2>1. Len(stored'[e]) \in 0 .. MaxSnapshots
    BY <1>2, <1>3, <1>4 DEF Types, TypeOK
  <2>2. stored'[e] \in Seq(Times)
    BY <1>5
  <2> QED  BY <2>1, <2>2
<1> QED  BY <1>5, <1>6 DEF StoredTypes

LEMMA ReadyTypes ==
    ASSUME Types, Connection, NEW c, NEW phase, Ready(c, phase)
    PROVE  /\ conn \in Databases
           /\ Latest(conn) \in 0 .. MaxSnapshots /\ Latest(conn) \in Etags
<1>1. conn \in Databases
  BY DEF Ready, Connection, Types, TypeOK
<1> QED  BY <1>1, LatestIsGreatest DEF Etags

LEMMA TypesStep ==
    ASSUME Types, Holder, Connection, Next
    PROVE  Types'
<1>1. ASSUME NEW c \in Clients, NEW first \in {"validate", "record"}, Request(c, first)
      PROVE  Types'
  <2>1. Visible \in SUBSET Refs
    BY ViewsAreRefs DEF Visible, Types, TypeOK, Databases
  <2>2. pc' \in [Clients -> Phases] /\ floor' \in [Clients -> SUBSET Refs]
    BY <1>1, <2>1 DEF Request, Types, TypeOK, Phases
  <2>3. asked' \in 0 .. MaxRequests
    BY <1>1, BoundsAssumption DEF Request, Types, TypeOK
  <2> QED  BY <1>1, <2>2, <2>3 DEF Request, Types, TypeOK, worldVars, serverVars
<1>2. ASSUME NEW c \in Clients, Step(c)
      PROVE  Types'
  <2>1. CASE Enter(c)
    BY <2>1 DEF Enter, worldVars, Types, TypeOK
  <2>2. CASE Resolve(c)
    <3>1. \/ stored' = stored
          \/ stored' = [stored EXCEPT ![Memory] = <<>>]
      BY <2>2 DEF Resolve
    <3>2. <<>> \in Seq(Times) /\ Len(<<>>) \in 0 .. MaxSnapshots /\ DOMAIN <<>> = {}
      BY BoundsAssumption
    <3>3. /\ stored' \in [Databases -> Seq(Times)]
          /\ \A d \in Databases : stored'[d] = stored[d] \/ stored'[d] = <<>>
      BY <3>1, <3>2 DEF Types
    <3>4. \A d \in Databases : /\ Len(stored'[d]) \in 0 .. MaxSnapshots
                              /\ \A id \in DOMAIN stored'[d] : stored'[d][id] \in Times
      BY <3>2, <3>3 DEF Types, TypeOK
    <3>5. conn' \in Databases \cup {NoConn, Closed} /\ inMemory' \in BOOLEAN
      BY <2>2 DEF Resolve, Types, TypeOK, Databases
    <3>6. stage' \in {"free", "resolve", "open", "query"}
      BY <2>2 DEF Resolve
    <3> QED  BY <2>2, <3>3, <3>4, <3>5, <3>6 DEF Resolve, Types, TypeOK
  <2>3. CASE Open(c)
    <3>1. file' \in Files \cup {NoFile} /\ conn' \in Databases
      BY <2>3, MemoryIsNoFile DEF Open, Types, TypeOK, Databases
    <3>2. inMemory' = FALSE /\ stage' = "resolve"
      BY <2>3 DEF Open
    <3>3. UNCHANGED <<stored, foreign, since, lock, cache, pc, validator, answer, copy, floor, acked, asked>>
      BY <2>3 DEF Open
    <3> QED  BY <3>1, <3>2, <3>3 DEF Types, TypeOK
  <2>4. CASE OpenFails(c)
    <3>1. conn' \in Databases \cup {NoConn, Closed} /\ Raise(c)
      BY <2>4 DEF OpenFails
    <3> QED  BY <1>2, <3>1, RaiseTypes
  <2>5. CASE QueryFails(c)
    <3>1. conn' \in Databases \cup {NoConn, Closed} /\ Raise(c)
      BY <2>5 DEF QueryFails, Types, TypeOK
    <3> QED  BY <1>2, <3>1, RaiseTypes
  <2>6. CASE Validate(c)
    <3>1. conn \in Databases /\ Latest(conn) \in Etags
      BY <2>6, ReadyTypes DEF Validate
    <3>2. [status |-> 304, etag |-> Latest(conn), view |-> {}] \in Responses
      BY <3>1 DEF Responses
    <3>3. answer' \in [Clients -> Responses]
      <4>1. CASE Respond(c, [status |-> 304, etag |-> Latest(conn), view |-> {}])
        BY <3>2, <4>1, RespondTypes
      <4>2. CASE UNCHANGED answer
        BY <4>2 DEF Types, TypeOK, Responses
      <4> QED  BY <2>6, <4>1, <4>2 DEF Validate
    <3>4. validator' \in [Clients -> Etags]
      BY <2>6, <3>1 DEF Validate, Types, TypeOK
    <3>5. pc' \in [Clients -> Phases]
      BY <2>6 DEF Validate, Types, TypeOK, Phases
    <3>6. lock' = NoClient /\ stage' = "free"
      BY <2>6 DEF Validate, Release
    <3>7. UNCHANGED <<since, conn, inMemory, cache, file, stored, foreign, copy, floor, acked, asked>>
      BY <2>6 DEF Validate, worldVars
    <3> QED  BY <3>3, <3>4, <3>5, <3>6, <3>7 DEF Types, TypeOK, Responses
  <2>7. CASE Serve(c)
    <3>1. conn \in Databases /\ Latest(conn) \in 0 .. MaxSnapshots
      BY <2>7, ReadyTypes DEF Serve
    <3>2. Served(c) \in SUBSET Refs /\ validator[c] \in Etags
      BY <3>1, ViewsAreRefs DEF Served, Types, TypeOK
    <3>3. [status |-> 200, etag |-> validator[c], view |-> Served(c)] \in Responses
      BY <3>2 DEF Responses
    <3>4. answer' \in [Clients -> Responses]
      BY <2>7, <3>3, RespondTypes DEF Serve
    <3>5. cache' \in [id : 0 .. MaxSnapshots, view : SUBSET Refs]
      BY <2>7, <3>1, <3>2 DEF Serve, Types, TypeOK
    <3>6. pc' \in [Clients -> Phases]
      BY <2>7 DEF Serve, Types, TypeOK, Phases
    <3>7. /\ lock' = NoClient /\ stage' = "free"
          /\ UNCHANGED <<since, conn, inMemory, file, stored, foreign, validator, copy, floor, acked, asked>>
      BY <2>7 DEF Serve, Release, worldVars
    <3> QED  BY <3>4, <3>5, <3>6, <3>7 DEF Types, TypeOK, Responses
  <2>8. ASSUME NEW at \in Times, Record(c, at)
        PROVE  Types'
    <3>1. conn \in Databases /\ Len(stored[conn]) < MaxSnapshots
      BY <2>8, ReadyTypes DEF Record
    <3>2. StoredTypes'
      BY <2>8, <3>1, AppendTypes DEF Record
    <3>3. acked' \subseteq Refs
      <4>1. Len(stored[conn]) + 1 \in 1 .. MaxSnapshots
        BY <3>1, BoundsAssumption DEF Types, TypeOK
      <4> QED  BY <2>8, <3>1, <4>1 DEF Record, Types, TypeOK, Refs
    <3>4. [NoAnswer EXCEPT !.status = 201] \in Responses
      BY DEF NoAnswer, Responses, Etags
    <3>5. Respond(c, [NoAnswer EXCEPT !.status = 201])
      BY <2>8, Zenon DEF Record
    <3>6. answer' \in [Clients -> Responses]
      BY <3>4, <3>5, RespondTypes
    <3>7. pc' \in [Clients -> Phases]
      BY <2>8 DEF Record, Types, TypeOK, Phases
    <3>8. /\ lock' = NoClient /\ stage' = "free"
          /\ UNCHANGED <<file, foreign, since, conn, inMemory, cache, validator, copy, floor, asked>>
      BY <2>8, Zenon DEF Record, Release
    <3> QED  BY <3>2, <3>3, <3>6, <3>7, <3>8 DEF StoredTypes, Types, TypeOK, Responses
  <2>9. CASE Deliver(c)
    <3>1. NoAnswer \in Responses /\ NoEtag \in Etags
      BY DEF NoAnswer, Responses, Etags
    <3>2. answer' \in [Clients -> Responses]
      BY <2>9, <3>1, RespondTypes DEF Deliver
    <3>3. validator' \in [Clients -> Etags] /\ pc' \in [Clients -> Phases]
      BY <2>9, <3>1 DEF Deliver, Types, TypeOK, Phases
    <3>4. copy' \in [Clients -> Copies]
      <4>1. copy \in [Clients -> Copies] /\ answer[c] \in Responses
        BY DEF Types, TypeOK, Copies, Responses
      <4>2. [etag |-> answer[c].etag, view |-> answer[c].view] \in Copies
        BY <4>1 DEF Copies, Responses
      <4> QED  BY <2>9, <4>1, <4>2 DEF Deliver
    <3>5. UNCHANGED <<since, conn, inMemory, lock, stage, cache, file, stored, foreign, floor, acked, asked>>
      BY <2>9 DEF Deliver, serverVars, worldVars
    <3> QED  BY <3>2, <3>3, <3>4, <3>5 DEF Types, TypeOK, Responses, Copies
  <2> QED  BY <1>2, <2>1, <2>2, <2>3, <2>4, <2>5, <2>6, <2>7, <2>8, <2>9 DEF Step
<1>3. CASE World
  <2>1. CASE ForeignOpen
    BY <2>1 DEF ForeignOpen, serverVars, Types, TypeOK
  <2>2. ASSUME NEW at \in Times, ForeignRecord(at)
        PROVE  Types'
    <3>1. file \in Databases
      BY <2>2 DEF ForeignRecord, Types, TypeOK, Databases
    <3>2. StoredTypes'
      BY <2>2, <3>1, AppendTypes DEF ForeignRecord
    <3> QED  BY <2>2, <3>2 DEF ForeignRecord, serverVars, StoredTypes, Types, TypeOK
  <2>3. CASE ForeignClose
    BY <2>3 DEF ForeignClose, serverVars, Types, TypeOK
  <2>4. CASE Remove
    BY <2>4 DEF Remove, serverVars, Types, TypeOK
  <2>5. CASE CrashAndRestart
    <3>1. NoAnswer \in Responses /\ EmptyCache \in [id : 0 .. MaxSnapshots, view : SUBSET Refs]
      BY BoundsAssumption DEF NoAnswer, Responses, Etags, NoResponse, EmptyCache
    <3>2. answer' \in [Clients -> Responses]
      BY <2>5, <3>1 DEF CrashAndRestart
    <3>3. pc' \in [Clients -> Phases]
      BY <2>5 DEF CrashAndRestart, Phases
    <3>4. /\ conn' = NoConn /\ inMemory' = FALSE /\ lock' = NoClient /\ stage' = "free"
          /\ cache' = EmptyCache /\ since' \in Sinces
          /\ UNCHANGED <<file, stored, foreign, validator, copy, floor, acked, asked>>
      BY <2>5 DEF CrashAndRestart, worldVars
    <3>5. /\ cache' \in [id : 0 .. MaxSnapshots, view : SUBSET Refs]
          /\ conn' \in Databases \cup {NoConn, Closed} /\ inMemory' \in BOOLEAN
          /\ lock' \in Clients \cup {NoClient} /\ stage' \in {"free", "resolve", "open", "query"}
      BY <3>1, <3>4
    <3>6. UNCHANGED <<file, stored, foreign, validator, copy, floor, acked, asked>> /\ since' \in Sinces
      BY <3>4
    <3> QED  BY <3>2, <3>3, <3>5, <3>6 DEF Types, TypeOK, Responses
  <2> QED  BY <1>3, <2>1, <2>2, <2>3, <2>4, <2>5 DEF World
<1> QED  BY <1>1, <1>2, <1>3 DEF Next

\* What the actions of a thread do to the lock, and to its place.
Releases(c) == lock = c /\ lock' = NoClient /\ stage' = "free"
Elsewhere(c) ==
    /\ UNCHANGED <<lock, stage, conn, inMemory, file, stored>>
    /\ pc[c] \notin Busy /\ \A d \in Clients \ {c} : pc'[d] = pc[d]

LEMMA Sections ==
    ASSUME Types, NEW c \in Clients, Step(c)
    PROVE  \/ Enter(c) \/ Resolve(c) \/ Open(c)
           \/ Releases(c) /\ file' = file /\ inMemory' = inMemory
                /\ (conn' = conn \/ conn' \in {NoConn, Closed})
                /\ (stored' = stored \/ \E at \in Times : Record(c, at))
           \/ Elsewhere(c)
<1>1. CASE OpenFails(c)
  BY <1>1 DEF OpenFails, Raise, Release, Releases, worldVars
<1>2. CASE QueryFails(c)
  BY <1>2 DEF QueryFails, Raise, Release, Releases, worldVars
<1>3. CASE Validate(c)
  BY <1>3 DEF Validate, Ready, Release, Releases, worldVars
<1>4. CASE Serve(c)
  BY <1>4 DEF Serve, Ready, Release, Releases, worldVars
<1>5. ASSUME NEW at \in Times, Record(c, at)
      PROVE  /\ Releases(c) /\ file' = file /\ inMemory' = inMemory /\ conn' = conn
             /\ \E t \in Times : Record(c, t)
  <2>1. Releases(c) /\ file' = file /\ inMemory' = inMemory /\ conn' = conn
    BY <1>5, Zenon DEF Record, Ready, Release, Releases
  <2> QED  BY <1>5, <2>1
<1>6. CASE Deliver(c)
  BY <1>6 DEF Deliver, Elsewhere, Busy, serverVars, worldVars, Types, TypeOK
<1> QED  BY <1>1, <1>2, <1>3, <1>4, <1>5, <1>6 DEF Step

LEMMA RequestsElsewhere ==
    ASSUME Types, NEW c \in Clients, NEW first, Request(c, first)
    PROVE  Elsewhere(c)
BY DEF Request, Elsewhere, Busy, serverVars, worldVars, Types, TypeOK

LEMMA HolderStep ==
    ASSUME Types, Holder, Next
    PROVE  Holder'
<1> USE ClientsAssumption
<1>a. ASSUME NEW c \in Clients, Elsewhere(c)
      PROVE  Holder'
  BY <1>a DEF Elsewhere, Holder, Types, TypeOK
<1>1. ASSUME NEW c \in Clients, Request(c, "validate") \/ Request(c, "record")
      PROVE  Holder'
  BY <1>1, <1>a, RequestsElsewhere
<1>2. ASSUME NEW c \in Clients, Step(c)
      PROVE  Holder'
  <2>1. CASE Enter(c)
    BY <2>1 DEF Enter, Holder, Busy
  <2>2. CASE Resolve(c)
    BY <2>2 DEF Resolve, Holder
  <2>3. CASE Open(c)
    BY <2>3 DEF Open, Holder
  <2>4. CASE Releases(c)
    BY <2>4 DEF Releases, Holder
  <2> QED  BY <1>2, <1>a, <2>1, <2>2, <2>3, <2>4, Sections
<1>3. CASE World
  <2>1. CASE CrashAndRestart
    BY <2>1 DEF CrashAndRestart, Holder
  <2>2. CASE UNCHANGED <<lock, stage, pc>>
    BY <2>2 DEF Holder
  <2> QED  BY <1>3, <2>1, <2>2 DEF World, ForeignOpen, ForeignRecord, ForeignClose, Remove, serverVars
<1> QED  BY <1>1, <1>2, <1>3 DEF Next

LEMMA ConnectionStep ==
    ASSUME Types, Holder, Connection, Next
    PROVE  Connection'
<1> USE ClientsAssumption, DatabasesAssumption, MemoryIsNoFile
<1>0. /\ conn \in Databases \cup {NoConn, Closed} /\ lock \in Clients \cup {NoClient}
      /\ DOMAIN stored = Databases /\ stage \in {"free", "resolve", "open", "query"}
  BY DEF Types, TypeOK
<1>a. ASSUME NEW c \in Clients, Elsewhere(c)
      PROVE  Connection'
  BY <1>0, <1>a DEF Elsewhere, Connection, Holder
<1>1. ASSUME NEW c \in Clients, Request(c, "validate") \/ Request(c, "record")
      PROVE  Connection'
  BY <1>1, <1>a, RequestsElsewhere
<1>2. ASSUME NEW c \in Clients, Step(c)
      PROVE  Connection'
  <2>1. CASE Enter(c)
    BY <2>1 DEF Enter, Connection, worldVars
  <2>2. CASE Resolve(c)
    <3>0. UNCHANGED <<file, lock, pc>> /\ lock = c /\ stage = "resolve"
      BY <2>2 DEF Resolve
    <3>1. CASE Usable /\ stage' = "query" /\ UNCHANGED <<conn, inMemory, stored>>
      BY <3>0, <3>1 DEF Usable, Connection
    <3>2. CASE stage' = "open" /\ UNCHANGED <<conn, inMemory, stored>>
      BY <3>0, <3>2 DEF Connection
    <3>3. CASE /\ file = NoFile /\ stage' = "query" /\ conn' = Memory /\ inMemory' = TRUE
               /\ stored' = [stored EXCEPT ![Memory] = <<>>]
      BY <1>0, <3>0, <3>3 DEF Connection, Databases
    <3> QED  BY <2>2, <3>1, <3>2, <3>3 DEF Resolve
  <2>3. CASE Open(c)
    BY <1>0, <2>3 DEF Open, Connection, Types, TypeOK
  <2>4. CASE Releases(c) /\ file' = file /\ inMemory' = inMemory
             /\ (conn' = conn \/ conn' \in {NoConn, Closed})
             /\ (stored' = stored \/ \E at \in Times : Record(c, at))
    <3>1. stored'[Memory] = stored[Memory]
      <4> SUFFICES ASSUME NEW at \in Times, Record(c, at)
                   PROVE  stored'[Memory] = stored[Memory]
        BY <2>4
      <4>1. conn \in Databases /\ conn # Memory
        BY <1>0 DEF Record, Ready, Connection
      <4>2. stored' = [stored EXCEPT ![conn] = Append(@, at)]
        BY DEF Record
      <4> QED  BY <1>0, <4>1, <4>2
    <3>2. lock' = NoClient /\ stage' = "free"
      BY <2>4 DEF Releases
    <3> QED  BY <2>4, <3>1, <3>2 DEF Connection, Databases
  <2> QED  BY <1>2, <1>a, <2>1, <2>2, <2>3, <2>4, Sections
<1>3. CASE World
  <2>1. CASE ForeignOpen
    BY <1>0, <2>1 DEF ForeignOpen, Connection, serverVars, Databases
  <2>2. ASSUME NEW at \in Times, ForeignRecord(at)
        PROVE  Connection'
    <3>1. /\ UNCHANGED <<file, conn, inMemory, lock, stage, pc>>
          /\ stored' = [stored EXCEPT ![file] = Append(@, at)]
          /\ file # Memory /\ file \in Databases
      BY <2>2 DEF ForeignRecord, serverVars, Types, TypeOK, Databases
    <3> QED  BY <1>0, <3>1 DEF Connection, Databases
  <2>3. CASE ForeignClose
    BY <2>3 DEF ForeignClose, Connection, serverVars
  <2>4. CASE Remove
    BY <1>0, <2>4 DEF Remove, Connection, serverVars, Databases
  <2>5. CASE CrashAndRestart
    BY <2>5 DEF CrashAndRestart, Connection, worldVars, Databases
  <2> QED  BY <1>3, <2>1, <2>2, <2>3, <2>4, <2>5 DEF World
<1> QED  BY <1>1, <1>2, <1>3 DEF Next

\* The steps that touch the memo, the cutoff or the acknowledgements.
LEMMA Effects ==
    ASSUME Next
    PROVE  \/ UNCHANGED <<acked, cache, since>>
           \/ \E c \in Clients : Serve(c)
           \/ \E c \in Clients : \E at \in Times : Record(c, at)
           \/ CrashAndRestart
<1>1. ASSUME NEW c \in Clients, Step(c)
      PROVE  \/ UNCHANGED <<acked, cache, since>>
             \/ Serve(c)
             \/ \E at \in Times : Record(c, at)
  <2>1. CASE OpenFails(c) \/ QueryFails(c)
    <3>1. Raise(c)
      BY <2>1 DEF OpenFails, QueryFails
    <3> QED  BY <3>1 DEF Raise
  <2>2. CASE Enter(c) \/ Resolve(c) \/ Open(c) \/ Validate(c) \/ Deliver(c)
    BY <2>2 DEF Enter, Resolve, Open, Validate, Deliver, serverVars
  <2> QED  BY <1>1, <2>1, <2>2 DEF Step
<1>2. CASE World
  BY <1>2 DEF World, ForeignOpen, ForeignRecord, ForeignClose, Remove, serverVars
<1>3. CASE \E c \in Clients : Request(c, "validate") \/ Request(c, "record")
  BY <1>3 DEF Request, serverVars
<1> QED  BY <1>1, <1>2, <1>3 DEF Next

\* A step that acknowledges stores.
LEMMA RecordStores ==
    ASSUME Types, Connection, NEW c \in Clients, NEW at \in Times, Record(c, at)
    PROVE  /\ conn = file /\ file # NoFile /\ file' = file
           /\ stored'[file] = Append(stored[file], at)
           /\ acked' = acked \cup {<<file, Known + 1>>} /\ UNCHANGED <<cache, since>>
<1> USE ClientsAssumption, MemoryIsNoFile
<1>1. /\ conn \in Databases /\ conn # Memory
      /\ stored' = [stored EXCEPT ![conn] = Append(@, at)]
      /\ acked' = acked \cup {<<conn, Len(stored[conn]) + 1>>}
      /\ UNCHANGED <<file, cache, since>>
  <2>1. lock = c /\ stage = "query" /\ pc[c] = "record" /\ conn # Closed
    BY DEF Record, Ready
  <2>2. conn \in Databases /\ conn # Memory
    BY <2>1 DEF Connection, Types, TypeOK
  <2> QED  BY <2>2 DEF Record
<1>2. conn = file /\ file # NoFile
  BY <1>1 DEF Connection, Databases
<1>3. Known = Len(stored[file])
  BY <1>2 DEF Known
<1> QED  BY <1>1, <1>2, <1>3 DEF Types

LEMMA AckedStep ==
    ASSUME Types, Types', Connection, AckedIsDurable, Next
    PROVE  AckedIsDurable'
<1>1. Committed \subseteq Committed'
  BY LogGrows
<1>2. ASSUME NEW c \in Clients, NEW at \in Times, Record(c, at)
      PROVE  AckedIsDurable'
  <2>1. /\ file' = file /\ file # NoFile /\ stored[file] \in Seq(Times)
        /\ stored'[file] = Append(stored[file], at)
        /\ acked' = acked \cup {<<file, Known + 1>>}
    BY <1>2, RecordStores DEF Types, TypeOK, Databases
  <2>2. Known' = Known + 1
    BY <2>1 DEF Known
  <2>3. <<file, Known + 1>> \in Committed'
    BY <2>1, <2>2, RefsOfTheFile, RefsOfTheNextFile DEF LogShape
  <2> QED  BY <1>1, <2>1, <2>3 DEF AckedIsDurable
<1>3. CASE acked' = acked
  BY <1>1, <1>3 DEF AckedIsDurable
<1>4. ASSUME NEW c \in Clients, Serve(c) PROVE acked' = acked
  BY <1>4 DEF Serve
<1>5. CrashAndRestart => acked' = acked
  BY DEF CrashAndRestart
<1> QED  BY <1>2, <1>3, <1>4, <1>5, Effects

LEMMA MemoStep ==
    ASSUME Types, Types', Connection, Memo, Next
    PROVE  Memo'
<1>0. Known \in Nat /\ Known' \in Nat /\ cache.id \in Nat
  BY RefsOfTheFile, RefsOfTheNextFile, BoundsAssumption DEF LogShape, Types, TypeOK
<1>1. CASE UNCHANGED <<cache, since>>
  <2> SUFFICES ASSUME cache.id # 0
               PROVE  cache.id <= Known' /\ cache.view = {r \in Visible' : r[2] <= cache.id}
    BY <1>1 DEF Memo
  <2>1. cache.id <= Known /\ cache.view = {r \in Visible : r[2] <= cache.id}
    BY DEF Memo
  <2>2. /\ Known <= Known' /\ Visible \subseteq Visible'
        /\ \A r \in Visible' : r[2] <= Known => r \in Visible
    BY <1>1, LogGrows
  <2>3. \A r \in Visible' : r[2] \in Nat
    BY RefsOfTheNextFile DEF LogShape
  <2>4. \A r \in Visible' : r[2] <= cache.id => r \in Visible
    BY <1>0, <2>1, <2>2, <2>3
  <2> QED  BY <1>0, <2>1, <2>2, <2>4
<1>2. ASSUME NEW c \in Clients, Serve(c)
      PROVE  Memo'
  <2>1. conn \in Databases /\ UNCHANGED <<file, stored, since>>
    BY <1>2, ReadyTypes DEF Serve, worldVars
  <2>2. CASE cache' = cache
    BY <1>1, <2>1, <2>2
  <2>3. CASE c \in Memoized /\ Latest(conn) # 0 /\ cache' = [id |-> Latest(conn), view |-> Served(c)]
    <3>1. View(conn) = Visible /\ Latest(conn) <= Known
      BY <2>1, <2>3, OpenSeesTheLog
    <3>2. \A r \in Visible : r[2] <= Latest(conn)
      BY <2>1, <3>1, LatestIsGreatest
    <3>3. cache'.view = {r \in Visible : r[2] <= cache'.id} /\ cache'.id <= Known
      BY <2>1, <2>3, <3>1, <3>2, ServedIsTheView
    <3>4. Visible' = Visible /\ Known' = Known
      BY <2>1 DEF Visible, Known, View, All
    <3> QED  BY <3>3, <3>4 DEF Memo
  <2> QED  BY <1>2, <2>2, <2>3 DEF Serve
<1>3. ASSUME NEW c \in Clients, NEW at \in Times, Record(c, at)
      PROVE  UNCHANGED <<cache, since>>
  BY <1>3, RecordStores
<1>4. CASE CrashAndRestart
  BY <1>4 DEF CrashAndRestart, EmptyCache, Memo
<1> QED  BY <1>1, <1>2, <1>3, <1>4, Effects

THEOREM ServerInvariance == Spec => []ServerInv
<1>1. Init => ServerInv
  <2> SUFFICES ASSUME Init PROVE ServerInv
    OBVIOUS
  <2>1. Types
    BY TypesStart
  <2>2. Holder /\ AckedIsDurable /\ Memo
    BY DEF Init, Start, Holder, AckedIsDurable, Memo, EmptyCache
  <2>3. stored[Memory] = <<>>
    BY MemoryIsNoFile DEF Init, Databases
  <2>4. Connection
    BY <2>3, DatabasesAssumption DEF Init, Start, Connection, Databases
  <2> QED  BY <2>1, <2>2, <2>4 DEF ServerInv
<1>2. ServerInv /\ Next => ServerInv'
  BY TypesStep, HolderStep, ConnectionStep, AckedStep, MemoStep DEF ServerInv
<1>3. ServerInv /\ UNCHANGED vars => ServerInv'
  BY DEF ServerInv, vars, Types, TypeOK, Holder, Connection, AckedIsDurable, Memo, Committed,
     Visible, Known, View, All
<1> QED  BY <1>1, <1>2, <1>3, PTL DEF Spec

\* The variables keep their types.
THEOREM AppTypes == Spec => []TypeOK
<1>1. ServerInv => TypeOK
  BY DEF ServerInv, Types
<1> QED  BY <1>1, ServerInvariance, PTL

\* A snapshot acknowledged with a 201 is under db_path, crashes and failing
\* opens and other writers notwithstanding.
THEOREM DurableAcks == Spec => []AckedIsDurable
<1>1. ServerInv => AckedIsDurable
  BY DEF ServerInv
<1> QED  BY <1>1, ServerInvariance, PTL

\* A memoized view kept for the latest id is the view of that database.
THEOREM CoherentMemo == Spec => []CacheCoherent
<1>1. ServerInv => CacheCoherent
  <2> SUFFICES ASSUME ServerInv, conn \in Databases, Latest(conn) # 0, cache.id = Latest(conn)
               PROVE  cache.view = View(conn)
    BY DEF CacheCoherent
  <2>1. Types /\ Connection /\ Memo
    BY DEF ServerInv
  <2>2. View(conn) = Visible
    BY <2>1, OpenSeesTheLog
  <2>3. \A r \in Visible : r[2] <= Latest(conn)
    BY <2>1, <2>2, LatestIsGreatest
  <2> QED  BY <2>1, <2>2, <2>3 DEF Memo
<1> QED  BY <1>1, ServerInvariance, PTL

-----------------------------------------------------------------------------
(* The clients, as long as --since stays what it is *)

OneCutoff == \A s, t \in Sinces : s = t

\* The view v may go with the validator e: it is of this log, of which the
\* first n ids are known, and has at least what e names.
Fits(e, v, visible, n) ==
    /\ v \subseteq visible /\ e <= n
    /\ \A r \in visible : r[2] <= e => r \in v

\* What the clients have and know.
Kept ==
    \A c \in Clients :
        /\ Fits(copy[c].etag, copy[c].view, Visible, Known)
        /\ validator[c] <= Known /\ floor[c] \subseteq Visible

\* What they are about to get.
Answered ==
    \A c \in Clients :
        /\ answer[c].status = 200 =>
            /\ pc[c] = "answered"
            /\ Fits(answer[c].etag, answer[c].view, Visible, Known)
            /\ floor[c] \cup copy[c].view \subseteq answer[c].view
        /\ answer[c].status = 304 =>
            /\ pc[c] = "answered"
            /\ floor[c] \subseteq copy[c].view

\* The empty schema is read only for clients who know of nothing, although the
\* file may have appeared, with snapshots, since it was chosen.
Emptied ==
    stage = "query" /\ conn = Memory =>
        floor[lock] = {} /\ copy[lock].view = {} /\ validator[lock] <= 0

ClientInv == OneCutoff /\ Kept /\ Answered /\ Emptied

\* A copy whose ETag names the latest snapshot is the current view.
LEMMA ConfirmedIsCurrent ==
    ASSUME ServerInv, ClientInv, NEW c \in Clients, Ready(c, "validate"),
           copy[c].etag = Latest(conn)
    PROVE  copy[c].view = View(conn) /\ floor[c] \subseteq View(conn)
<1>1. conn \in Databases /\ lock = c /\ stage = "query" /\ Types /\ Connection
  BY ReadyTypes DEF ServerInv, Ready
<1>2. CASE conn = Memory
  BY <1>1, <1>2, OpenSeesTheLog DEF ClientInv, Emptied
<1>3. CASE conn # Memory
  <2>1. View(conn) = Visible
    BY <1>1, <1>3, OpenSeesTheLog
  <2>2. \A r \in Visible : r[2] <= copy[c].etag
    BY <1>1, <2>1, LatestIsGreatest
  <2>3. Fits(copy[c].etag, copy[c].view, Visible, Known) /\ floor[c] \subseteq Visible
    BY DEF ClientInv, Kept
  <2> QED  BY <2>1, <2>2, <2>3 DEF Fits
<1> QED  BY <1>2, <1>3

\* A view that is served may go with the validator taken before it.
LEMMA ServedFits ==
    ASSUME ServerInv, ClientInv, NEW c \in Clients, Ready(c, "serve")
    PROVE  /\ Fits(validator[c], View(conn), Visible, Known)
           /\ floor[c] \cup copy[c].view \subseteq View(conn)
<1>1. conn \in Databases /\ lock = c /\ stage = "query" /\ Types /\ Connection
  BY ReadyTypes DEF ServerInv, Ready
<1>2. /\ validator[c] <= Known /\ floor[c] \subseteq Visible /\ copy[c].view \subseteq Visible
      /\ validator[c] \in Int
  BY <1>1, BoundsAssumption DEF ClientInv, Kept, Fits, Types, TypeOK, Etags, NoEtag
<1>3. CASE conn = Memory
  <2>1. View(conn) = {} /\ floor[c] = {} /\ copy[c].view = {} /\ validator[c] <= 0
    BY <1>1, <1>3, OpenSeesTheLog DEF ClientInv, Emptied
  <2>2. \A r \in Visible : r[2] \in Nat /\ r[2] >= 1
    BY <1>1, RefsOfTheFile DEF LogShape
  <2>3. \A r \in Visible : ~ (r[2] <= validator[c])
    BY <1>2, <2>1, <2>2
  <2> QED  BY <1>2, <2>1, <2>3 DEF Fits
<1>4. CASE conn # Memory
  <2>1. View(conn) = Visible
    BY <1>1, <1>4, OpenSeesTheLog
  <2> QED  BY <1>2, <2>1 DEF Fits
<1> QED  BY <1>3, <1>4

LEMMA CutoffStays ==
    ASSUME Types, Types', OneCutoff
    PROVE  since' = since
BY DEF Types, TypeOK, OneCutoff

\* What fits the log fits the log that has grown.
LEMMA FitsGrown ==
    ASSUME Types, Types', Connection, OneCutoff, Next,
           NEW e \in Int, NEW v, Fits(e, v, Visible, Known)
    PROVE  Fits(e, v, Visible', Known')
<1>1. /\ Known <= Known' /\ Visible \subseteq Visible'
      /\ \A r \in Visible' : r[2] <= Known => r \in Visible
  BY LogGrows, CutoffStays
<1>2. Known \in Nat /\ Known' \in Nat /\ \A r \in Visible' : r[2] \in Nat
  BY RefsOfTheFile, RefsOfTheNextFile DEF LogShape
<1>3. \A r \in Visible' : r[2] <= e => r \in Visible
  BY <1>1, <1>2 DEF Fits
<1> QED  BY <1>1, <1>2, <1>3 DEF Fits

\* Copies, validators and floors that do not change stay right.
LEMMA KeptGrows ==
    ASSUME Types, Types', Connection, OneCutoff, Next, Kept, NEW c \in Clients
    PROVE  /\ copy'[c] = copy[c] => Fits(copy'[c].etag, copy'[c].view, Visible', Known')
           /\ validator'[c] = validator[c] => validator'[c] <= Known'
           /\ floor'[c] = floor[c] => floor'[c] \subseteq Visible'
           /\ answer'[c] = answer[c] /\ Fits(answer[c].etag, answer[c].view, Visible, Known)
                => Fits(answer'[c].etag, answer'[c].view, Visible', Known')
<1>1. copy[c].etag \in Int /\ validator[c] \in Int /\ answer[c].etag \in Int
  BY BoundsAssumption DEF Types, TypeOK, Etags, NoEtag
<1>2. Fits(copy[c].etag, copy[c].view, Visible', Known')
  BY <1>1, FitsGrown DEF Kept
<1>3. /\ Known <= Known' /\ Visible \subseteq Visible'
      /\ Known \in Nat /\ Known' \in Nat
  BY LogGrows, CutoffStays, RefsOfTheFile, RefsOfTheNextFile DEF LogShape
<1>4. Fits(answer[c].etag, answer[c].view, Visible, Known)
        => Fits(answer[c].etag, answer[c].view, Visible', Known')
  BY <1>1, FitsGrown
<1> QED  BY <1>1, <1>2, <1>3, <1>4 DEF Kept

\* The steps by what they do to the clients.
LEMMA ClientSteps ==
    ASSUME Next
    PROVE  \/ UNCHANGED <<validator, copy, floor, answer, pc>>
           \/ \E c \in Clients : \E first \in {"validate", "record"} : Request(c, first)
           \/ \E c \in Clients : \/ lock = c /\ Raise(c)
                               \/ Validate(c) \/ Serve(c) \/ Deliver(c)
           \/ \E c \in Clients : \E at \in Times : Record(c, at)
           \/ CrashAndRestart
<1>1. ASSUME NEW c \in Clients, Step(c)
      PROVE  \/ UNCHANGED <<validator, copy, floor, answer, pc>>
             \/ lock = c /\ Raise(c)
             \/ Validate(c) \/ Serve(c) \/ Deliver(c)
             \/ \E at \in Times : Record(c, at)
  BY <1>1, Zenon DEF Step, Enter, Resolve, Open, OpenFails, QueryFails
<1>2. CASE World
  BY <1>2 DEF World, ForeignOpen, ForeignRecord, ForeignClose, Remove
<1> QED  BY <1>1, <1>2 DEF Next

\* A client nothing happens to keeps what is right.
Untouched(c) ==
    /\ copy'[c] = copy[c] /\ floor'[c] = floor[c]
    /\ validator'[c] = validator[c] /\ answer'[c] = answer[c] /\ pc'[c] = pc[c]

KeptBy(c) ==
    /\ Fits(copy'[c].etag, copy'[c].view, Visible', Known')
    /\ validator'[c] <= Known' /\ floor'[c] \subseteq Visible'

AnsweredBy(c) ==
    /\ answer'[c].status = 200 =>
        /\ pc'[c] = "answered"
        /\ Fits(answer'[c].etag, answer'[c].view, Visible', Known')
        /\ floor'[c] \cup copy'[c].view \subseteq answer'[c].view
    /\ answer'[c].status = 304 =>
        /\ pc'[c] = "answered"
        /\ floor'[c] \subseteq copy'[c].view

LEMMA UntouchedFits ==
    ASSUME ServerInv, ServerInv', ClientInv, Next, NEW c \in Clients, Untouched(c)
    PROVE  KeptBy(c) /\ AnsweredBy(c)
<1>1. Types /\ Types' /\ Connection /\ OneCutoff /\ Kept /\ Answered
  BY DEF ServerInv, ClientInv
<1> QED  BY <1>1, KeptGrows DEF Untouched, KeptBy, AnsweredBy, Answered

\* Each step, for the client it is about.
LEMMA TouchedFits ==
    ASSUME ServerInv, ServerInv', ClientInv, Next, NEW c \in Clients
    PROVE  /\ \A first \in {"validate", "record"} : Request(c, first) => KeptBy(c) /\ AnsweredBy(c)
           /\ Raise(c) \/ Validate(c) \/ Serve(c) \/ Deliver(c) => KeptBy(c) /\ AnsweredBy(c)
           /\ \A at \in Times : Record(c, at) => KeptBy(c) /\ AnsweredBy(c)
           /\ CrashAndRestart => KeptBy(c) /\ AnsweredBy(c)
<1>1. Types /\ Types' /\ Connection /\ OneCutoff /\ Kept /\ Answered
  BY DEF ServerInv, ClientInv
<1>2. /\ copy \in [Clients -> Copies] /\ answer \in [Clients -> Responses]
      /\ validator \in [Clients -> Etags] /\ floor \in [Clients -> SUBSET Refs]
      /\ pc \in [Clients -> Phases] /\ Known' \in Nat /\ Known \in Nat
  BY <1>1, RefsOfTheFile, RefsOfTheNextFile DEF LogShape, Types, TypeOK, Copies, Responses
<1>3. Known <= Known' /\ Visible \subseteq Visible'
  BY <1>1, LogGrows, CutoffStays
<1>4. NoAnswer.status = 0 /\ NoAnswer.view = {}
  BY DEF NoAnswer, NoResponse
<1>5. ASSUME NEW first \in {"validate", "record"}, Request(c, first)
      PROVE  KeptBy(c) /\ AnsweredBy(c)
  <2>1. /\ pc[c] = "idle" /\ UNCHANGED <<validator, answer, copy>>
        /\ floor'[c] = Visible \/ floor'[c] = floor[c]
    BY <1>2, <1>5 DEF Request
  <2>2. KeptBy(c)
    BY <1>1, <1>3, <2>1, KeptGrows DEF KeptBy
  <2>3. answer[c].status # 200 /\ answer[c].status # 304
    BY <1>1, <2>1 DEF Answered
  <2> QED  BY <2>1, <2>2, <2>3 DEF AnsweredBy
<1>6. CASE Raise(c)
  <2>1. UNCHANGED <<validator, copy, floor>>
    BY <1>6 DEF Raise
  <2>2. \E status \in {NoResponse, 500} : answer' = [answer EXCEPT ![c] = [NoAnswer EXCEPT !.status = status]]
    BY <1>6, Zenon DEF Raise, Respond
  <2>3. answer'[c].status \in {0, 500}
    BY <1>2, <2>2 DEF NoAnswer, NoResponse
  <2> QED  BY <1>1, <2>1, <2>3, KeptGrows DEF KeptBy, AnsweredBy
<1>7. CASE Validate(c)
  <2>1. /\ conn \in Databases /\ Latest(conn) <= Known /\ Latest(conn) \in Etags
        /\ UNCHANGED <<copy, floor>> /\ validator'[c] = Latest(conn)
    BY <1>1, <1>2, <1>7, ReadyTypes, OpenSeesTheLog DEF Validate
  <2>2. Known \in Int /\ Latest(conn) \in Int
    BY <1>2, <2>1, BoundsAssumption DEF Etags, NoEtag
  <2>3. KeptBy(c)
    BY <1>1, <1>2, <1>3, <2>1, <2>2, KeptGrows DEF KeptBy
  <2>4. CASE /\ copy[c].etag = Latest(conn)
             /\ Respond(c, [status |-> 304, etag |-> Latest(conn), view |-> {}])
             /\ pc' = [pc EXCEPT ![c] = "answered"]
    <3>1. floor[c] \subseteq copy[c].view
      BY <1>7, <2>4, ConfirmedIsCurrent DEF Validate
    <3>2. answer'[c].status = 304 /\ pc'[c] = "answered"
      BY <1>2, <2>4 DEF Respond
    <3> QED  BY <2>1, <2>3, <3>1, <3>2 DEF AnsweredBy
  <2>5. CASE UNCHANGED answer
    <3>1. pc[c] = "validate"
      BY <1>7 DEF Validate, Ready
    <3>2. answer[c].status # 200 /\ answer[c].status # 304
      BY <1>1, <3>1 DEF Answered
    <3> QED  BY <2>3, <2>5, <3>2 DEF AnsweredBy
  <2> QED  BY <1>7, <2>4, <2>5 DEF Validate
<1>8. CASE Serve(c)
  <2>1. /\ conn \in Databases /\ Ready(c, "serve")
        /\ UNCHANGED <<copy, floor, validator, file, stored, since>>
        /\ Served(c) = View(conn)
    BY <1>1, <1>8, ReadyTypes, ServedIsTheView DEF Serve, worldVars, ServerInv
  <2>2. answer'[c] = [status |-> 200, etag |-> validator[c], view |-> View(conn)] /\ pc'[c] = "answered"
    BY <1>2, <1>8, <2>1 DEF Serve, Respond
  <2>3. Visible' = Visible /\ Known' = Known
    BY <2>1 DEF Visible, Known, View, All
  <2>4. AnsweredBy(c)
    BY <2>1, <2>2, <2>3, ServedFits DEF AnsweredBy
  <2> QED  BY <1>1, <2>1, <2>4, KeptGrows DEF KeptBy
<1>9. CASE Deliver(c)
  <2>1. /\ UNCHANGED <<floor, file, stored, since>>
        /\ validator'[c] = NoEtag /\ answer'[c] = NoAnswer
        /\ copy'[c] = IF answer[c].status = 200
                      THEN [etag |-> answer[c].etag, view |-> answer[c].view] ELSE copy[c]
    BY <1>2, <1>9 DEF Deliver, Respond, worldVars, serverVars
  <2>2. Visible' = Visible /\ Known' = Known
    BY <2>1 DEF Visible, Known, View, All
  <2>3. Fits(copy'[c].etag, copy'[c].view, Visible, Known)
    BY <1>1, <2>1 DEF Kept, Answered
  <2>4. validator'[c] <= Known'
    BY <1>2, <2>1 DEF NoEtag
  <2>5. KeptBy(c)
    BY <1>1, <2>1, <2>2, <2>3, <2>4, KeptGrows DEF KeptBy
  <2> QED  BY <1>4, <2>1, <2>5 DEF AnsweredBy
<1>10. ASSUME NEW at \in Times, Record(c, at)
       PROVE  KeptBy(c) /\ AnsweredBy(c)
  <2>1. UNCHANGED <<validator, copy, floor>>
    BY <1>10, Zenon DEF Record
  <2>2. answer' = [answer EXCEPT ![c] = [NoAnswer EXCEPT !.status = 201]]
    BY <1>10, Zenon DEF Record, Respond
  <2>3. answer'[c].status = 201
    BY <1>2, <2>2 DEF NoAnswer
  <2> QED  BY <1>1, <2>1, <2>3, KeptGrows DEF KeptBy, AnsweredBy
<1>11. CASE CrashAndRestart
  <2>1. UNCHANGED <<validator, copy, floor>> /\ answer'[c] = NoAnswer
    BY <1>11 DEF CrashAndRestart
  <2> QED  BY <1>1, <1>4, <2>1, KeptGrows DEF KeptBy, AnsweredBy
<1> QED  BY <1>5, <1>6, <1>7, <1>8, <1>9, <1>10, <1>11

LEMMA OthersUntouched ==
    ASSUME Types, NEW c \in Clients, NEW d \in Clients \ {c},
           \/ \E first \in {"validate", "record"} : Request(c, first)
           \/ Raise(c) \/ Validate(c) \/ Serve(c) \/ Deliver(c)
           \/ \E at \in Times : Record(c, at)
    PROVE  Untouched(d)
<1>1. /\ copy \in [Clients -> Copies] /\ answer \in [Clients -> Responses]
      /\ validator \in [Clients -> Etags] /\ floor \in [Clients -> SUBSET Refs]
      /\ pc \in [Clients -> Phases]
  BY DEF Types, TypeOK, Copies, Responses
<1>2. ASSUME NEW first \in {"validate", "record"}, Request(c, first)
      PROVE  Untouched(d)
  BY <1>1, <1>2 DEF Request, Untouched
<1>3. CASE Raise(c)
  <2>1. UNCHANGED <<validator, copy, floor>> /\ pc'[d] = pc[d]
    BY <1>1, <1>3 DEF Raise
  <2>2. \E status \in {NoResponse, 500} : answer' = [answer EXCEPT ![c] = [NoAnswer EXCEPT !.status = status]]
    BY <1>3, Zenon DEF Raise, Respond
  <2>3. answer'[d] = answer[d]
    BY <1>1, <2>2
  <2> QED  BY <2>1, <2>3 DEF Untouched
<1>4. CASE Validate(c)
  BY <1>1, <1>4 DEF Validate, Respond, Untouched
<1>5. CASE Serve(c)
  BY <1>1, <1>5 DEF Serve, Respond, Untouched
<1>6. CASE Deliver(c)
  BY <1>1, <1>6 DEF Deliver, Respond, Untouched
<1>7. ASSUME NEW at \in Times, Record(c, at)
      PROVE  Untouched(d)
  <2>1. UNCHANGED <<validator, copy, floor>> /\ pc' = [pc EXCEPT ![c] = "written"]
    BY <1>7, Zenon DEF Record
  <2>2. answer' = [answer EXCEPT ![c] = [NoAnswer EXCEPT !.status = 201]]
    BY <1>7, Zenon DEF Record, Respond
  <2> QED  BY <1>1, <2>1, <2>2 DEF Untouched
<1> QED  BY <1>2, <1>3, <1>4, <1>5, <1>6, <1>7

LEMMA ClientStep ==
    ASSUME ServerInv, ServerInv', ClientInv, Next
    PROVE  Kept' /\ Answered'
<1> SUFFICES ASSUME NEW d \in Clients
             PROVE  KeptBy(d) /\ AnsweredBy(d)
  BY DEF Kept, Answered, KeptBy, AnsweredBy
<1>0. Types
  BY DEF ServerInv
<1>1. CASE UNCHANGED <<validator, copy, floor, answer, pc>>
  BY <1>1, UntouchedFits DEF Untouched
<1>2. ASSUME NEW c \in Clients, \/ \E first \in {"validate", "record"} : Request(c, first)
                                \/ Raise(c) \/ Validate(c) \/ Serve(c) \/ Deliver(c)
                                \/ \E at \in Times : Record(c, at)
      PROVE  KeptBy(d) /\ AnsweredBy(d)
  <2>1. CASE d = c
    BY <1>2, <2>1, TouchedFits
  <2>2. CASE d # c
    BY <1>0, <1>2, <2>2, OthersUntouched, UntouchedFits
  <2> QED  BY <2>1, <2>2
<1>3. CASE CrashAndRestart
  BY <1>3, TouchedFits
<1> QED  BY <1>1, <1>2, <1>3, ClientSteps

\* Nothing is visible when the empty schema is chosen.
LEMMA EmptiedStep ==
    ASSUME ServerInv, ClientInv, Next
    PROVE  Emptied'
<1> USE ClientsAssumption
<1>0. /\ Types /\ Holder /\ Connection /\ Kept /\ Emptied
      /\ stage = "query" => lock \in Clients
  BY DEF ServerInv, ClientInv, Types, TypeOK, Holder
<1>a. ASSUME NEW c \in Clients, Elsewhere(c), c # lock,
             \A d \in Clients \ {c} : Untouched(d)
      PROVE  Emptied'
  BY <1>0, <1>a DEF Elsewhere, Emptied, Untouched
<1>1. ASSUME NEW c \in Clients, NEW first \in {"validate", "record"}, Request(c, first)
      PROVE  Emptied'
  <2>1. Elsewhere(c) /\ \A d \in Clients \ {c} : Untouched(d)
    BY <1>0, <1>1, RequestsElsewhere, OthersUntouched
  <2>2. c # lock
    BY <1>0, <2>1 DEF Elsewhere, Holder
  <2> QED  BY <1>a, <2>1, <2>2
<1>2. ASSUME NEW c \in Clients, Step(c)
      PROVE  Emptied'
  <2>1. CASE Deliver(c)
    <3>1. Elsewhere(c) /\ \A d \in Clients \ {c} : Untouched(d)
      <4>1. Elsewhere(c)
        BY <1>0, <2>1 DEF Deliver, Elsewhere, Busy, serverVars, worldVars, Types, TypeOK
      <4> QED  BY <1>0, <2>1, <4>1, OthersUntouched
    <3>2. c # lock
      BY <1>0, <3>1 DEF Elsewhere, Holder
    <3> QED  BY <1>a, <3>1, <3>2
  <2>2. CASE Resolve(c)
    <3>0. UNCHANGED <<file, lock, copy, floor, validator>> /\ lock = c /\ stage = "resolve"
      BY <2>2 DEF Resolve
    <3>1. CASE file = NoFile
      <4>1. Visible = {} /\ Known = 0
        BY <3>1 DEF Visible, Known
      <4>2. floor[c] = {} /\ copy[c].view = {} /\ validator[c] <= 0
        BY <1>0, <4>1 DEF Kept, Fits
      <4> QED  BY <3>0, <4>2 DEF Emptied
    <3>2. CASE file # NoFile
      <4>1. stage' = "query" => Usable /\ conn' = conn
        BY <2>2, <3>2 DEF Resolve
      <4>2. stage' = "query" => conn' # Memory
        BY <1>0, <3>2, <4>1 DEF Usable, Connection
      <4> QED  BY <4>2 DEF Emptied
    <3> QED  BY <3>1, <3>2
  <2>3. CASE Enter(c) \/ Open(c)
    BY <2>3 DEF Enter, Open, Emptied
  <2>4. CASE Raise(c) \/ Validate(c) \/ Serve(c)
    BY <2>4 DEF Raise, Validate, Serve, Release, Emptied
  <2>5. ASSUME NEW at \in Times, Record(c, at)
        PROVE  Emptied'
    <3>1. stage' = "free"
      BY <2>5, Zenon DEF Record, Release
    <3> QED  BY <3>1 DEF Emptied
  <2> QED  BY <1>2, <2>1, <2>2, <2>3, <2>4, <2>5 DEF Step, OpenFails, QueryFails
<1>3. CASE World
  <2>1. CASE CrashAndRestart
    BY <2>1 DEF CrashAndRestart, Emptied
  <2>2. CASE UNCHANGED <<lock, stage, conn, copy, floor, validator>>
    BY <1>0, <2>2 DEF Emptied
  <2> QED  BY <1>3, <2>1, <2>2 DEF World, ForeignOpen, ForeignRecord, ForeignClose, Remove, serverVars
<1> QED  BY <1>1, <1>2, <1>3 DEF Next

THEOREM ClientInvariance == Spec /\ OneCutoff => []ClientInv
<1>1. Init /\ OneCutoff /\ ServerInv => ClientInv
  <2> SUFFICES ASSUME Init, OneCutoff, ServerInv PROVE ClientInv
    OBVIOUS
  <2>1. Known \in Nat /\ \A r \in Visible : r[2] \in Nat
    BY RefsOfTheFile DEF LogShape, ServerInv
  <2>2. \A c \in Clients : /\ copy[c] = NoCopy /\ validator[c] = NoEtag
                          /\ answer[c] = NoAnswer /\ floor[c] = {}
    BY DEF Init
  <2>3. Fits(NoEtag, {}, Visible, Known) /\ NoEtag <= Known
    BY <2>1 DEF Fits, NoEtag
  <2>4. Kept
    BY <2>2, <2>3 DEF Kept, NoCopy
  <2>5. Answered
    BY <2>2 DEF Answered, NoAnswer, NoResponse
  <2>6. Emptied
    BY DEF Init, Start, Emptied
  <2> QED  BY <2>4, <2>5, <2>6 DEF ClientInv
<1>2. ServerInv /\ ServerInv' /\ ClientInv /\ Next => ClientInv'
  BY ClientStep, EmptiedStep DEF ClientInv, OneCutoff
<1>3. ClientInv /\ UNCHANGED vars => ClientInv'
  <2> SUFFICES ASSUME ClientInv, UNCHANGED vars PROVE ClientInv'
    OBVIOUS
  <2>1. Visible' = Visible /\ Known' = Known
    BY DEF vars, Visible, Known, View, All
  <2>2. UNCHANGED <<copy, validator, floor, answer, pc, stage, conn, lock>>
    BY DEF vars
  <2>3. Kept'
    BY <2>1, <2>2 DEF ClientInv, Kept
  <2>4. Answered'
    BY <2>1, <2>2 DEF ClientInv, Answered
  <2>5. Emptied'
    BY <2>2 DEF ClientInv, Emptied
  <2> QED  BY <2>3, <2>4, <2>5 DEF ClientInv, OneCutoff
<1> QED  BY <1>1, <1>2, <1>3, ServerInvariance, PTL DEF Spec

\* While --since stays, an answer shows every snapshot that was committed and
\* visible when the request was made, also when it is a 304.
THEOREM CommittedIsRead == Spec /\ OneCutoff => []ReadsSeeTheCommitted
<1>1. ClientInv => ReadsSeeTheCommitted
  BY DEF ClientInv, Answered, ReadsSeeTheCommitted, IsRead, Shown
<1> QED  BY <1>1, ClientInvariance, PTL

\* How a request comes to be answered with a view.
LEMMA NewAnswers ==
    ASSUME Types, Next, NEW c \in Clients, pc[c] # "answered",
           pc'[c] = "answered", answer'[c].status \in {200, 304}
    PROVE  \/ Validate(c) /\ answer'[c].status = 304 /\ copy[c].etag = Latest(conn)
           \/ Serve(c)
<1>1. /\ answer \in [Clients -> Responses] /\ pc \in [Clients -> Phases]
  BY DEF Types, TypeOK, Responses
<1>2. ~ Untouched(c)
  BY DEF Untouched
<1>3. ASSUME NEW first \in {"validate", "record"}, Request(c, first)
      PROVE  FALSE
  BY <1>1, <1>3 DEF Request
<1>4. ASSUME Raise(c) PROVE FALSE
  <2>1. \E status \in {NoResponse, 500} : answer' = [answer EXCEPT ![c] = [NoAnswer EXCEPT !.status = status]]
    BY <1>4, Zenon DEF Raise, Respond
  <2>2. answer'[c].status \in {0, 500}
    BY <1>1, <2>1 DEF NoAnswer, NoResponse
  <2> QED  BY <2>2
<1>5. ASSUME Validate(c)
      PROVE  answer'[c].status = 304 /\ copy[c].etag = Latest(conn)
  <2>1. pc' # [pc EXCEPT ![c] = "serve"]
    BY <1>1
  <2> QED  BY <1>1, <1>5, <2>1 DEF Validate, Respond
<1>6. ASSUME Deliver(c) PROVE FALSE
  BY <1>1, <1>6 DEF Deliver
<1>7. ASSUME NEW at \in Times, Record(c, at) PROVE FALSE
  <2>1. pc' = [pc EXCEPT ![c] = "written"]
    BY <1>7, Zenon DEF Record
  <2> QED  BY <1>1, <2>1
<1>8. ASSUME CrashAndRestart PROVE FALSE
  BY <1>8 DEF CrashAndRestart, NoAnswer, NoResponse
<1>9. ASSUME NEW d \in Clients, d # c,
             \/ \E first \in {"validate", "record"} : Request(d, first)
             \/ Raise(d) \/ Validate(d) \/ Serve(d) \/ Deliver(d)
             \/ \E at \in Times : Record(d, at)
      PROVE  FALSE
  BY <1>2, <1>9, OthersUntouched
<1>10. CASE UNCHANGED <<validator, copy, floor, answer, pc>>
  BY <1>10
<1> QED  BY <1>3, <1>4, <1>5, <1>6, <1>7, <1>8, <1>9, <1>10, ClientSteps

\* While --since stays, a 304 is only sent to a client whose copy is the view
\* of this instant.
THEOREM NotModifiedIsTrue == Spec /\ OneCutoff => NotModifiedIsFresh
<1>1. ServerInv /\ ClientInv /\ [Next]_vars =>
        [\A c \in Clients :
            pc[c] = "validate" /\ IsRead(c)' => copy[c].view = View(conn)]_vars
  <2> SUFFICES ASSUME ServerInv, ClientInv, Next, NEW c \in Clients, pc[c] = "validate",
                      IsRead(c)'
               PROVE  copy[c].view = View(conn)
    OBVIOUS
  <2>1. Types
    BY DEF ServerInv
  <2>2. pc'[c] = "answered" /\ answer'[c].status \in {200, 304}
    BY DEF IsRead
  <2>3. Validate(c) /\ copy[c].etag = Latest(conn)
    <3>1. ~ Serve(c)
      BY DEF Serve, Ready
    <3> QED  BY <2>1, <2>2, <3>1, NewAnswers
  <2> QED  BY <2>3, ConfirmedIsCurrent DEF Validate
<1> QED  BY <1>1, ServerInvariance, ClientInvariance, PTL DEF Spec, NotModifiedIsFresh

\* While --since stays, what a client shows never goes back.
THEOREM CopiesGoForward == Spec /\ OneCutoff => CopiesNeverGoBack
<1>1. ServerInv /\ ClientInv /\ [Next]_vars =>
        [\A c \in Clients : copy[c].view \subseteq copy[c]'.view]_vars
  <2> SUFFICES ASSUME ServerInv, ClientInv, Next, NEW c \in Clients
               PROVE  copy[c].view \subseteq copy'[c].view
    OBVIOUS
  <2>0. Types /\ Answered /\ copy \in [Clients -> Copies]
    BY DEF ServerInv, ClientInv, Types, TypeOK, Copies
  <2>1. CASE copy'[c] = copy[c]
    BY <2>1
  <2>2. CASE Deliver(c)
    BY <2>0, <2>2 DEF Deliver, Answered
  <2>3. copy'[c] = copy[c] \/ Deliver(c)
    <3>1. ASSUME NEW d \in Clients, d # c, Deliver(d) PROVE copy'[c] = copy[c]
      BY <2>0, <3>1, OthersUntouched DEF Untouched
    <3>2. ASSUME NEW d \in Clients, \/ \E first \in {"validate", "record"} : Request(d, first)
                                    \/ Raise(d) \/ Validate(d) \/ Serve(d)
                                    \/ \E at \in Times : Record(d, at)
          PROVE  copy' = copy
      BY <3>2, Zenon DEF Request, Raise, Validate, Serve, Record
    <3>3. CrashAndRestart => copy' = copy
      BY DEF CrashAndRestart
    <3> QED  BY <3>1, <3>2, <3>3, ClientSteps
  <2> QED  BY <2>1, <2>2, <2>3
<1> QED  BY <1>1, ServerInvariance, ClientInvariance, PTL DEF Spec, CopiesNeverGoBack

-----------------------------------------------------------------------------
(* The service *)

\* The served log stays or gets one id at its end.
LEMMA ServedLogGrows ==
    ASSUME Types, Types', Connection, OneCutoff, Next
    PROVE  ServedLog' = ServedLog \/ \E id \in ServedLog' :
                ServedLog' = ServedLog \cup {id} /\ \A old \in ServedLog : old < id
<1>1. LogShape /\ LogShape' /\ since' = since
  BY RefsOfTheFile, RefsOfTheNextFile, CutoffStays
<1>2. CASE file' = file /\ (file # NoFile => stored'[file] = stored[file])
  <2>1. Known' = Known
    BY <1>2 DEF Known
  <2>2. Visible' = Visible
    BY <1>1, <1>2, <2>1 DEF LogShape
  <2> QED  BY <2>2 DEF ServedLog, IdsOf
<1>3. CASE Appended
  <2> PICK at \in Times : stored'[file] = Append(stored[file], at)
    BY <1>3 DEF Appended
  <2>1. file' = file /\ file # NoFile /\ stored[file] \in Seq(Times)
    BY <1>3 DEF Appended, Types, TypeOK, Databases
  <2>2. Known \in Nat /\ Known' = Known + 1
    BY <1>1, <2>1 DEF Known, LogShape
  <2>3. /\ Visible \subseteq Visible' /\ \A r \in Visible' : r[2] <= Known => r \in Visible
    BY <1>1, LogGrows
  <2>4. /\ \A r \in Visible : r[2] \in 1 .. Known
        /\ \A r \in Visible' : r = <<file, r[2]>> /\ r[2] \in 1 .. (Known + 1)
    BY <1>1, <2>1, <2>2 DEF LogShape
  <2>5. \A r \in Visible' : r \in Visible \/ r[2] = Known + 1
    BY <2>2, <2>3, <2>4
  <2>6. \A old \in ServedLog : old < Known + 1
    BY <2>2, <2>4 DEF ServedLog, IdsOf
  <2>7. ServedLog \subseteq ServedLog' /\ ServedLog' \subseteq ServedLog \cup {Known + 1}
    BY <2>3, <2>5 DEF ServedLog, IdsOf
  <2> QED  BY <2>6, <2>7
<1>4. CASE Exchanged
  <2>1. Visible = {} /\ Visible' = {}
    BY <1>1, <1>4 DEF LogShape, Exchanged
  <2> QED  BY <2>1 DEF ServedLog, IdsOf
<1> QED  BY <1>2, <1>3, <1>4, FileSteps

LEMMA ServedLogStays ==
    ASSUME UNCHANGED <<file, stored, since>>
    PROVE  ServedLog' = ServedLog
BY DEF ServedLog, Visible, View, All, IdsOf

\* A client nothing happens to is the same to the service.
LEMMA UntouchedService ==
    ASSUME NEW c \in Clients, Untouched(c)
    PROVE  Calls'[c] = Calls[c] /\ Floors'[c] = Floors[c] /\ Shows'[c] = Shows[c]
BY DEF Untouched, Calls, Floors, Shows, IsRead, Shown

\* The service's values are functions on the clients.
LEMMA ServiceFunctions ==
    /\ DOMAIN Calls = Clients /\ DOMAIN Floors = Clients /\ DOMAIN Shows = Clients
    /\ Calls = [c \in Clients |-> Calls[c]] /\ Floors = [c \in Clients |-> Floors[c]]
    /\ Shows = [c \in Clients |-> Shows[c]]
BY DEF Calls, Floors, Shows

LEMMA NextServiceFunctions ==
    /\ DOMAIN Calls' = Clients /\ DOMAIN Floors' = Clients /\ DOMAIN Shows' = Clients
    /\ Calls' = [c \in Clients |-> Calls'[c]] /\ Floors' = [c \in Clients |-> Floors'[c]]
    /\ Shows' = [c \in Clients |-> Shows'[c]]
BY DEF Calls, Floors, Shows

\* If only c is concerned, the service's values change at c alone.
LEMMA OnlyOne ==
    ASSUME NEW c \in Clients, \A d \in Clients \ {c} : Untouched(d)
    PROVE  /\ Calls' = [Calls EXCEPT ![c] = Calls'[c]]
           /\ Floors' = [Floors EXCEPT ![c] = Floors'[c]]
           /\ Shows' = [Shows EXCEPT ![c] = Shows'[c]]
           /\ Calls'[c] = Calls[c] => Calls' = Calls
           /\ Floors'[c] = Floors[c] => Floors' = Floors
           /\ Shows'[c] = Shows[c] => Shows' = Shows
<1>1. \A d \in Clients \ {c} : Calls'[d] = Calls[d] /\ Floors'[d] = Floors[d] /\ Shows'[d] = Shows[d]
  BY UntouchedService
<1> QED  BY <1>1, ServiceFunctions, NextServiceFunctions

\* The view of a connection is a state of the log.
LEMMA ViewsAreStates ==
    ASSUME Types, Connection, conn \in Databases
    PROVE  Service!IsStateOf(IdsOf(View(conn)))
<1>1. View(conn) = {} \/ View(conn) = Visible
  BY OpenSeesTheLog
<1> QED  BY <1>1 DEF Service!IsStateOf, ServedLog, IdsOf

\* Every step of the application is one of the service, or none.
LEMMA ServiceStep ==
    ASSUME ServerInv, ServerInv', ClientInv, Next
    PROVE  Service!ServiceNext \/ UNCHANGED <<ServedLog, Calls, Floors, Shows>>
<1>0. /\ Types /\ Types' /\ Holder /\ Connection /\ OneCutoff /\ Answered
      /\ answer \in [Clients -> Responses] /\ pc \in [Clients -> Phases]
  BY DEF ServerInv, ClientInv, Types, TypeOK, Responses
<1>1. CASE UNCHANGED <<Calls, Floors, Shows>>
  BY <1>0, <1>1, ServedLogGrows DEF Service!ServiceNext, Service!Append
<1>2. CASE UNCHANGED <<validator, copy, floor, answer, pc>>
  <2>1. \A d \in Clients : Untouched(d)
    BY <1>2 DEF Untouched
  <2>2. \A d \in Clients : Calls'[d] = Calls[d] /\ Floors'[d] = Floors[d] /\ Shows'[d] = Shows[d]
    BY <2>1, UntouchedService
  <2>3. UNCHANGED <<Calls, Floors, Shows>>
    BY <2>2, ServiceFunctions, NextServiceFunctions
  <2> QED  BY <1>1, <2>3
<1>3. ASSUME NEW c \in Clients, Request(c, "validate")
      PROVE  Service!Invoke(c)
  <2>1. \A d \in Clients \ {c} : Untouched(d)
    BY <1>0, <1>3, OthersUntouched
  <2>2. /\ pc[c] = "idle" /\ pc'[c] = "validate" /\ floor'[c] = Visible
        /\ UNCHANGED <<file, stored, since>>
    BY <1>0, <1>3 DEF Request, worldVars, serverVars, Types, TypeOK
  <2>3. /\ Calls[c] = "idle" /\ Calls'[c] = "pending" /\ Floors'[c] = ServedLog
        /\ Shows'[c] = Shows[c]
    BY <2>2 DEF Calls, Floors, Shows, IsRead, ServedLog
  <2> QED  BY <2>1, <2>2, <2>3, OnlyOne, ServedLogStays DEF Service!Invoke
<1>4. ASSUME NEW c \in Clients, Request(c, "record")
      PROVE  UNCHANGED <<Calls, Floors, Shows>>
  <2>1. \A d \in Clients \ {c} : Untouched(d)
    BY <1>0, <1>4, OthersUntouched
  <2>2. pc[c] = "idle" /\ pc'[c] = "record" /\ floor'[c] = floor[c]
    BY <1>0, <1>4 DEF Request, Types, TypeOK
  <2>3. Calls'[c] = Calls[c] /\ Floors'[c] = Floors[c] /\ Shows'[c] = Shows[c]
    BY <2>2 DEF Calls, Floors, Shows, IsRead
  <2> QED  BY <2>1, <2>3, OnlyOne
<1>5. ASSUME NEW c \in Clients, lock = c, Raise(c)
      PROVE  Service!Fail \/ UNCHANGED <<Calls, Floors, Shows>>
  <2>1. \A d \in Clients \ {c} : Untouched(d)
    BY <1>0, <1>5, OthersUntouched
  <2>2. \E status \in {NoResponse, 500} : answer' = [answer EXCEPT ![c] = [NoAnswer EXCEPT !.status = status]]
    BY <1>5, Zenon DEF Raise, Respond
  <2>3. answer'[c].status \in {0, 500}
    BY <1>0, <2>2 DEF NoAnswer, NoResponse
  <2>4. /\ pc' = [pc EXCEPT ![c] = IF @ = "record" THEN "written" ELSE "answered"]
        /\ UNCHANGED <<floor, file, stored, since>>
    BY <1>5, Zenon DEF Raise, worldVars
  <2>5. pc[c] \in Busy
    BY <1>0, <1>5, ClientsAssumption DEF Holder
  <2>6. Floors' = Floors /\ ServedLog' = ServedLog
    BY <2>4, ServedLogStays DEF Floors
  <2>7. CASE pc[c] = "record"
    <3>1. Calls'[c] = Calls[c] /\ Shows'[c] = Shows[c]
      BY <1>0, <2>4, <2>7 DEF Calls, Shows, IsRead
    <3> QED  BY <2>1, <2>6, <3>1, OnlyOne
  <2>8. CASE pc[c] # "record"
    <3>1. Calls[c] = "pending" /\ Calls'[c] = "failed" /\ Shows'[c] = {}
      BY <1>0, <2>3, <2>4, <2>5, <2>8 DEF Busy, Calls, Shows, IsRead
    <3>2. \A d \in Clients \ {c} : Calls'[d] = Calls[d] /\ Shows'[d] = Shows[d]
      BY <2>1, UntouchedService
    <3>3. Calls' = [d \in Clients |-> IF d \in {c} /\ Calls[d] # "idle" THEN "failed" ELSE Calls[d]]
      BY <3>1, <3>2, NextServiceFunctions
    <3>4. Shows' = [d \in Clients |-> IF d \in {c} THEN {} ELSE Shows[d]]
      BY <3>1, <3>2, NextServiceFunctions
    <3>5. {c} \in SUBSET Clients
      OBVIOUS
    <3> QED  BY <2>6, <3>3, <3>4, <3>5 DEF Service!Fail
  <2> QED  BY <2>7, <2>8
<1>6. ASSUME NEW c \in Clients, Validate(c)
      PROVE  Service!Answer(c) \/ UNCHANGED <<Calls, Floors, Shows>>
  <2>1. \A d \in Clients \ {c} : Untouched(d)
    BY <1>0, <1>6, OthersUntouched
  <2>2. /\ pc[c] = "validate" /\ Ready(c, "validate") /\ conn \in Databases
        /\ UNCHANGED <<floor, copy, file, stored, since>>
    BY <1>0, <1>6, ReadyTypes DEF Validate, Ready, worldVars
  <2>3. Floors'[c] = Floors[c] /\ Calls[c] = "pending"
    BY <2>2 DEF Floors, Calls
  <2>4. CASE pc' = [pc EXCEPT ![c] = "serve"]
    <3>1. Calls'[c] = Calls[c] /\ Shows'[c] = Shows[c]
      BY <1>0, <2>2, <2>4 DEF Calls, Shows, IsRead
    <3> QED  BY <2>1, <2>3, <3>1, OnlyOne
  <2>5. CASE /\ copy[c].etag = Latest(conn)
             /\ Respond(c, [status |-> 304, etag |-> Latest(conn), view |-> {}])
             /\ pc' = [pc EXCEPT ![c] = "answered"]
    <3>1. copy[c].view = View(conn) /\ floor[c] \subseteq View(conn)
      BY <2>2, <2>5, ConfirmedIsCurrent
    <3>2. answer'[c].status = 304 /\ pc'[c] = "answered" /\ copy'[c] = copy[c]
      BY <1>0, <2>2, <2>5 DEF Respond
    <3>3. Calls'[c] = "answered" /\ Shows'[c] = IdsOf(View(conn))
      BY <3>1, <3>2 DEF Calls, Shows, IsRead, Shown
    <3>4. Floors[c] \subseteq Shows'[c]
      BY <3>1, <3>3 DEF Floors, IdsOf
    <3>5. Service!IsStateOf(Shows'[c])
      BY <1>0, <2>2, <3>3, ViewsAreStates
    <3> QED  BY <2>1, <2>2, <2>3, <3>3, <3>4, <3>5, OnlyOne, ServedLogStays DEF Service!Answer
  <2> QED  BY <1>6, <2>4, <2>5 DEF Validate
<1>7. ASSUME NEW c \in Clients, Serve(c)
      PROVE  Service!Answer(c)
  <2>1. \A d \in Clients \ {c} : Untouched(d)
    BY <1>0, <1>7, OthersUntouched
  <2>2. /\ pc[c] = "serve" /\ Ready(c, "serve") /\ conn \in Databases
        /\ Served(c) = View(conn)
        /\ UNCHANGED <<floor, copy, file, stored, since>>
    BY <1>0, <1>7, ReadyTypes, ServedIsTheView DEF Serve, Ready, worldVars, ServerInv
  <2>3. /\ answer'[c].status = 200 /\ answer'[c].view = View(conn) /\ pc'[c] = "answered"
    BY <1>0, <1>7, <2>2 DEF Serve, Respond
  <2>4. /\ Floors'[c] = Floors[c] /\ Calls[c] = "pending" /\ Calls'[c] = "answered"
        /\ Shows'[c] = IdsOf(View(conn))
    BY <2>2, <2>3 DEF Floors, Calls, Shows, IsRead, Shown
  <2>5. Floors[c] \subseteq Shows'[c]
    BY <2>2, <2>4, ServedFits DEF Floors, IdsOf
  <2>6. Service!IsStateOf(Shows'[c])
    BY <1>0, <2>2, <2>4, ViewsAreStates
  <2> QED  BY <2>1, <2>2, <2>4, <2>5, <2>6, OnlyOne, ServedLogStays DEF Service!Answer
<1>8. ASSUME NEW c \in Clients, NEW at \in Times, Record(c, at)
      PROVE  UNCHANGED <<Calls, Floors, Shows>>
  <2>1. \A d \in Clients \ {c} : Untouched(d)
    BY <1>0, <1>8, OthersUntouched
  <2>2. pc[c] = "record" /\ pc' = [pc EXCEPT ![c] = "written"] /\ floor' = floor
    BY <1>8, Zenon DEF Record, Ready
  <2>3. Calls'[c] = Calls[c] /\ Floors'[c] = Floors[c] /\ Shows'[c] = Shows[c]
    BY <1>0, <2>2 DEF Calls, Floors, Shows, IsRead
  <2> QED  BY <2>1, <2>3, OnlyOne
<1>9. ASSUME NEW c \in Clients, Deliver(c)
      PROVE  Service!Return(c) \/ UNCHANGED <<Calls, Floors, Shows>>
  <2>1. \A d \in Clients \ {c} : Untouched(d)
    BY <1>0, <1>9, OthersUntouched
  <2>2. /\ pc[c] \in {"answered", "written"} /\ pc'[c] = "idle"
        /\ UNCHANGED <<floor, file, stored, since>>
    BY <1>0, <1>9 DEF Deliver, worldVars, serverVars
  <2>3. Calls'[c] = "idle" /\ Shows'[c] = {} /\ Floors'[c] = Floors[c]
    BY <2>2 DEF Calls, Shows, Floors, IsRead
  <2>4. CASE pc[c] = "written"
    <3>1. Calls[c] = "idle" /\ Shows[c] = {}
      BY <2>4 DEF Calls, Shows, IsRead
    <3> QED  BY <2>1, <2>3, <3>1, OnlyOne
  <2>5. CASE pc[c] = "answered"
    <3>1. Calls[c] \in {"answered", "failed"}
      BY <2>5 DEF Calls
    <3> QED  BY <2>1, <2>2, <2>3, <3>1, OnlyOne, ServedLogStays DEF Service!Return
  <2> QED  BY <2>2, <2>4, <2>5
<1>10. CASE CrashAndRestart
  <2>1. UNCHANGED <<floor, file, stored, since>>
    BY <1>0, <1>10, CutoffStays DEF CrashAndRestart, worldVars
  <2>2. Floors' = Floors /\ ServedLog' = ServedLog
    BY <2>1, ServedLogStays DEF Floors
  <2>3. ASSUME NEW d \in Clients
        PROVE  /\ Calls'[d] = IF Calls[d] # "idle" THEN "failed" ELSE Calls[d]
               /\ Shows'[d] = {}
    <3>1. answer'[d].status = 0
      BY <1>10 DEF CrashAndRestart, NoAnswer, NoResponse
    <3>2. pc'[d] = IF pc[d] \in {"record", "written"} THEN "written"
                   ELSE IF pc[d] = "idle" THEN "idle" ELSE "answered"
      BY <1>10 DEF CrashAndRestart
    <3>3. pc[d] \in Phases
      BY <1>0
    <3> QED  BY <3>1, <3>2, <3>3 DEF Phases, Calls, Shows, IsRead
  <2>4. Calls' = [d \in Clients |-> IF d \in Clients /\ Calls[d] # "idle" THEN "failed" ELSE Calls[d]]
    BY <2>3, NextServiceFunctions
  <2>5. Shows' = [d \in Clients |-> IF d \in Clients THEN {} ELSE Shows[d]]
    BY <2>3, NextServiceFunctions
  <2> QED  BY <2>2, <2>4, <2>5 DEF Service!Fail, Service!ServiceNext
<1> QED  BY <1>1, <1>2, <1>3, <1>4, <1>5, <1>6, <1>7, <1>8, <1>9, <1>10, ClientSteps
         DEF Service!ServiceNext

\* Refinement: while --since stays, the threads, the lock, the late connection,
\* the memo and the validators together are one linear log.
THEOREM ServesOneLog == Spec /\ OneCutoff => ServesTheLog
<1>1. Init /\ ServerInv => Service!ServiceInit
  <2> SUFFICES ASSUME Init, ServerInv PROVE Service!ServiceInit
    OBVIOUS
  <2>1. \A r \in Visible : r[2] \in Nat
    BY RefsOfTheFile DEF LogShape, ServerInv
  <2>2. ServedLog \subseteq Nat
    BY <2>1 DEF ServedLog, IdsOf
  <2>3. \A c \in Clients : pc[c] = "idle" /\ floor[c] = {}
    BY DEF Init
  <2>4. Calls = [c \in Clients |-> "idle"] /\ Shows = [c \in Clients |-> {}]
    BY <2>3 DEF Calls, Shows, IsRead
  <2>5. Floors = [c \in Clients |-> {}]
    BY <2>3 DEF Floors, IdsOf
  <2> QED  BY <2>2, <2>4, <2>5 DEF Service!ServiceInit
<1>2. ServerInv /\ ServerInv' /\ ClientInv /\ [Next]_vars => [Service!ServiceNext]_Service!serviceVars
  <2>1. CASE UNCHANGED vars
    BY <2>1 DEF vars, Service!serviceVars, ServedLog, Visible, View, All, IdsOf, Calls, Floors,
       Shows, IsRead, Shown
  <2> QED  BY <2>1, ServiceStep DEF Service!serviceVars
<1> QED  BY <1>1, <1>2, ServerInvariance, ClientInvariance, PTL
         DEF Spec, ServesTheLog, Service!ServiceSpec
=============================================================================
