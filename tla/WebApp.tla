------------------------------- MODULE WebApp -------------------------------
(***************************************************************************)
(* aoeo_market/web/server.py: the request threads of the read and the      *)
(* write listener over one WebApp, its lock, its one database connection   *)
(* (opened late, swapped, closed), the memo of the expensive views and the *)
(* ETag validators, with the clients that revalidate their copies and the  *)
(* rest of the world: the command line writing the same file, a missing    *)
(* directory, an operator replacing the file, a crash and a restart.       *)
(*                                                                         *)
(* A view is represented by the set of stored snapshots it was computed    *)
(* from, <<database, id>>; the route only decides whether it is memoized.  *)
(* A section under the lock is Enter, Resolve or Open steps, then one of   *)
(* the queries, which leaves it; `stage` is the holder's place in it.      *)
(***************************************************************************)
EXTENDS Integers, Sequences, FiniteSets

CONSTANTS
    Clients,         \* each has one request at a time and its own thread
    Memoized,        \* the clients that read a memoized view
    Files,           \* the database files that exist over time under db_path
    NoFile,          \* nothing exists under db_path
    Memory,          \* store.open_memory()
    NoConn, Closed,  \* _connection is None; it is a connection already closed
    NoClient,        \* nobody holds the lock; no foreign process the file
    Times,           \* captured_at of the snapshots
    Sinces,          \* values of --since; one below every time stands for none
    MaxSnapshots,    \* bound on the snapshots of one database
    MaxRequests,     \* bound on the requests of a behaviour
    CanFailToOpen,   \* duckdb.connect may fail with no lock held (no directory)
    CanCrash         \* the server may die and be started again

Databases == Files \cup {Memory}
Refs == Databases \X (1 .. MaxSnapshots)
NoEtag == -1        \* no copy, no validator
NoResponse == 0     \* the status of a connection closed without an answer

ASSUME ClientsAssumption == Memoized \subseteq Clients /\ NoClient \notin Clients
ASSUME DatabasesAssumption ==
    /\ NoFile \notin Databases /\ NoConn \notin Databases /\ Closed \notin Databases
    /\ NoConn # Closed /\ Memory \notin Files
ASSUME TimesAssumption == Times \subseteq Int /\ Sinces \subseteq Int
ASSUME BoundsAssumption == MaxSnapshots \in Nat \ {0} /\ MaxRequests \in Nat
ASSUME SwitchesAssumption == {CanFailToOpen, CanCrash} \subseteq BOOLEAN

VARIABLES
    file,            \* the database under db_path, or NoFile
    stored,          \* database -> the capture times of its snapshots; ids are 1 ..
    foreign,         \* another process (the command line) has the file open
    since,           \* WebApp.since
    conn,            \* WebApp._connection
    inMemory,        \* WebApp._in_memory
    lock,            \* who holds WebApp._lock
    stage,           \* the holder's next step in the locked section
    cache,           \* WebApp._views: [id, view], id 0 for None
    pc,              \* client -> what its request is at
    validator,       \* client -> the snapshot id data_validator returned
    answer,          \* client -> [status, etag, view] of the response
    copy,            \* client -> [etag, view] the client keeps
    floor,           \* history: client -> what was visible when it asked
    acked,           \* history: the snapshots a 201 was sent for
    asked            \* number of requests made

serverVars == <<since, conn, inMemory, lock, stage, cache>>
worldVars == <<file, stored, foreign>>
vars == <<file, stored, foreign, since, conn, inMemory, lock, stage, cache,
          pc, validator, answer, copy, floor, acked, asked>>

-----------------------------------------------------------------------------
(* What a database shows *)

All(d) == {<<d, id>> : id \in DOMAIN stored[d]}
View(d) == {r \in All(d) : stored[d][r[2]] >= since}
Latest(d) == IF View(d) = {} THEN 0 ELSE CHOOSE id \in 1 .. MaxSnapshots :
    <<d, id>> \in View(d) /\ \A r \in View(d) : r[2] <= id

Committed == IF file = NoFile THEN {} ELSE All(file)
Visible == IF file = NoFile THEN {} ELSE View(file)

NoAnswer == [status |-> NoResponse, etag |-> NoEtag, view |-> {}]
EmptyCache == [id |-> 0, view |-> {}]
NoCopy == [etag |-> NoEtag, view |-> {}]

-----------------------------------------------------------------------------
Start ==
    /\ conn = NoConn /\ inMemory = FALSE
    /\ lock = NoClient /\ stage = "free"
    /\ cache = EmptyCache

Init ==
    /\ Start
    /\ since \in Sinces
    /\ file \in {NoFile} \cup Files
    /\ stored \in [Databases -> {<<>>} \cup {<<t>> : t \in Times}]
    /\ \A d \in Databases \ {file} : stored[d] = <<>>
    /\ foreign = FALSE
    /\ pc = [c \in Clients |-> "idle"]
    /\ validator = [c \in Clients |-> NoEtag]
    /\ answer = [c \in Clients |-> NoAnswer]
    /\ copy = [c \in Clients |-> NoCopy]
    /\ floor = [c \in Clients |-> {}]
    /\ acked = {}
    /\ asked = 0

\* A GET of a database route, with If-None-Match when the client has a copy;
\* or a POST of a snapshot, already parsed and validated.
Request(c, first) ==
    /\ pc[c] = "idle"
    /\ asked < MaxRequests
    /\ asked' = asked + 1
    /\ pc' = [pc EXCEPT ![c] = first]
    /\ floor' = [floor EXCEPT ![c] = IF first = "validate" THEN Visible ELSE @]
    /\ UNCHANGED <<serverVars, worldVars, validator, answer, copy, acked>>

\* Mutant: a POST trusts the connection it finds, like a read.
EnterWithoutCheck(c) ==
    /\ pc[c] \in {"validate", "serve", "record"}
    /\ lock = NoClient
    /\ lock' = c
    /\ stage' = "resolve"
    /\ UNCHANGED <<since, conn, inMemory, cache, worldVars, pc, validator, answer, copy,
                   floor, acked, asked>>

\* with self._lock: ... handle_post first looks whether the file exists.
Enter(c) ==
    /\ pc[c] \in {"validate", "serve", "record"}
    /\ lock = NoClient
    /\ lock' = c
    /\ stage' = IF pc[c] = "record" /\ file = NoFile THEN "open" ELSE "resolve"
    /\ UNCHANGED <<since, conn, inMemory, cache, worldVars, pc, validator, answer, copy,
                   floor, acked, asked>>

\* Mutant: the memory connection is never swapped for the file.
UsableForEver == conn # NoConn

\* _conn: a memory connection is kept only while the file does not exist.
Usable == conn # NoConn /\ ~(inMemory /\ file # NoFile)

\* Mutant: while another process has the file open, the empty schema is served.
ResolveToEmpty(c) ==
    /\ lock = c /\ stage = "resolve"
    /\ \/ /\ Usable
          /\ stage' = "query"
          /\ UNCHANGED <<conn, inMemory, stored>>
       \/ /\ ~Usable /\ file # NoFile /\ ~foreign
          /\ stage' = "open"
          /\ UNCHANGED <<conn, inMemory, stored>>
       \/ /\ ~Usable /\ (file = NoFile \/ foreign)
          /\ stage' = "query"
          /\ conn' = Memory
          /\ inMemory' = TRUE
          /\ stored' = [stored EXCEPT ![Memory] = <<>>]
    /\ UNCHANGED <<file, foreign, since, lock, cache, pc, validator, answer, copy,
                   floor, acked, asked>>

Resolve(c) ==
    /\ lock = c /\ stage = "resolve"
    /\ \/ /\ Usable
          /\ stage' = "query"
          /\ UNCHANGED <<conn, inMemory, stored>>
       \/ /\ ~Usable /\ file # NoFile
          /\ stage' = "open"
          /\ UNCHANGED <<conn, inMemory, stored>>
       \/ /\ ~Usable /\ file = NoFile
          /\ stage' = "query"
          /\ conn' = Memory
          /\ inMemory' = TRUE
          /\ stored' = [stored EXCEPT ![Memory] = <<>>]
    /\ UNCHANGED <<file, foreign, since, lock, cache, pc, validator, answer, copy,
                   floor, acked, asked>>

\* Mutant: the file is opened as found, never created.
OpenExisting(c) ==
    /\ lock = c /\ stage = "open"
    /\ ~foreign
    /\ conn' = file
    /\ inMemory' = FALSE
    /\ stage' = "resolve"
    /\ UNCHANGED <<file, stored, foreign, since, lock, cache, pc, validator, answer, copy,
                   floor, acked, asked>>

\* _open_file_connection: the old connection is closed, then open_store opens
\* or creates the file, waiting while another process has it open.
Open(c) ==
    /\ lock = c /\ stage = "open"
    /\ ~foreign
    /\ file' \in IF file = NoFile THEN {f \in Files : stored[f] = <<>> /\ f # conn} ELSE {file}
    /\ conn' = file'
    /\ inMemory' = FALSE
    /\ stage' = "resolve"
    /\ UNCHANGED <<stored, foreign, since, lock, cache, pc, validator, answer, copy,
                   floor, acked, asked>>

-----------------------------------------------------------------------------
(* Leaving the locked section *)

Release == lock' = NoClient /\ stage' = "free"

Respond(c, response) == answer' = [answer EXCEPT ![c] = response]

\* Mutant: the lock is not released on the way out.
RaiseLocked(c) ==
    /\ stage' = "free" /\ UNCHANGED lock
    /\ Respond(c, [NoAnswer EXCEPT !.status = IF pc[c] = "validate" THEN NoResponse ELSE 500])
    /\ pc' = [pc EXCEPT ![c] = IF @ = "record" THEN "written" ELSE "answered"]
    /\ UNCHANGED <<since, inMemory, cache, worldVars, validator, copy, floor, acked, asked>>

\* An exception leaves the section.  handle and handle_post turn it into a 500;
\* do_GET calls data_validator with nothing to catch it, and the connection is
\* closed with no answer.
Raise(c) ==
    /\ Release
    /\ Respond(c, [NoAnswer EXCEPT !.status = IF pc[c] = "validate" THEN NoResponse ELSE 500])
    /\ pc' = [pc EXCEPT ![c] = IF @ = "record" THEN "written" ELSE "answered"]
    /\ UNCHANGED <<since, inMemory, cache, worldVars, validator, copy, floor, acked, asked>>

\* open_store gave up, after the old connection was closed.
OpenFails(c) ==
    /\ lock = c /\ stage = "open"
    /\ foreign \/ CanFailToOpen
    /\ conn' = IF conn = NoConn THEN NoConn ELSE Closed
    /\ Raise(c)

\* A statement on a closed connection, or a record_snapshot that rolls back.
QueryFails(c) ==
    /\ lock = c /\ stage = "query"
    /\ conn = Closed \/ pc[c] = "record"
    /\ Raise(c)
    /\ UNCHANGED conn

Ready(c, phase) == lock = c /\ stage = "query" /\ pc[c] = phase /\ conn # Closed

\* data_validator, and do_GET's comparison with If-None-Match.
Validate(c) ==
    /\ Ready(c, "validate")
    /\ Release
    /\ validator' = [validator EXCEPT ![c] = Latest(conn)]
    /\ \/ /\ copy[c].etag = Latest(conn)
          /\ Respond(c, [status |-> 304, etag |-> Latest(conn), view |-> {}])
          /\ pc' = [pc EXCEPT ![c] = "answered"]
       \/ /\ copy[c].etag # Latest(conn)
          /\ pc' = [pc EXCEPT ![c] = "serve"]
          /\ UNCHANGED answer
    /\ UNCHANGED <<since, conn, inMemory, cache, worldVars, copy, floor, acked, asked>>

\* Mutants: the memo is not keyed by the snapshot id; the read forgets --since.
ServedStale(c) ==
    IF c \in Memoized /\ Latest(conn) # 0 /\ cache.id # 0
    THEN cache.view ELSE View(conn)
ServedUncut(c) ==
    IF c \in Memoized /\ Latest(conn) # 0 /\ cache.id = Latest(conn)
    THEN cache.view ELSE All(conn)

\* handle: the view, from the memo when it is kept for the latest id.  With no
\* visible snapshot the view is empty and the memo is not consulted.
Served(c) ==
    IF c \in Memoized /\ Latest(conn) # 0 /\ cache.id = Latest(conn)
    THEN cache.view ELSE View(conn)

Serve(c) ==
    /\ Ready(c, "serve")
    /\ Release
    /\ Respond(c, [status |-> 200, etag |-> validator[c], view |-> Served(c)])
    /\ cache' = IF c \in Memoized /\ Latest(conn) # 0
                THEN [id |-> Latest(conn), view |-> Served(c)] ELSE cache
    /\ pc' = [pc EXCEPT ![c] = "answered"]
    /\ UNCHANGED <<since, conn, inMemory, worldVars, validator, copy, floor, acked, asked>>

\* record_snapshot commits (SnapshotStore says what that takes) and the 201
\* names the new id.
Record(c, at) ==
    /\ Ready(c, "record")
    /\ Len(stored[conn]) < MaxSnapshots
    /\ Release
    /\ stored' = [stored EXCEPT ![conn] = Append(@, at)]
    /\ acked' = acked \cup {<<conn, Len(stored[conn]) + 1>>}
    /\ Respond(c, [NoAnswer EXCEPT !.status = 201])
    /\ pc' = [pc EXCEPT ![c] = "written"]
    /\ UNCHANGED <<file, foreign, since, conn, inMemory, cache, validator, copy, floor, asked>>

\* The response reaches the client, which keeps what came with an ETag.
Deliver(c) ==
    /\ pc[c] \in {"answered", "written"}
    /\ pc' = [pc EXCEPT ![c] = "idle"]
    /\ copy' = [copy EXCEPT ![c] = IF answer[c].status = 200
                                   THEN [etag |-> answer[c].etag, view |-> answer[c].view]
                                   ELSE @]
    /\ validator' = [validator EXCEPT ![c] = NoEtag]
    /\ Respond(c, NoAnswer)
    /\ UNCHANGED <<serverVars, worldVars, floor, acked, asked>>

-----------------------------------------------------------------------------
(* The rest of the world *)

\* aoeo_market.cli (init-db, fetch --store) opens the file read-write: DuckDB
\* refuses it while the server has it open, and creates it when missing.
ForeignOpen ==
    /\ ~foreign /\ (file = NoFile \/ conn # file)
    /\ foreign' = TRUE
    /\ file' \in IF file = NoFile THEN {f \in Files : stored[f] = <<>> /\ f # conn} ELSE {file}
    /\ UNCHANGED <<serverVars, stored, pc, validator, answer, copy, floor, acked, asked>>

ForeignRecord(at) ==
    /\ foreign /\ file # NoFile
    /\ Len(stored[file]) < MaxSnapshots
    /\ stored' = [stored EXCEPT ![file] = Append(@, at)]
    /\ UNCHANGED <<serverVars, file, foreign, pc, validator, answer, copy, floor, acked, asked>>

ForeignClose ==
    /\ foreign
    /\ foreign' = FALSE
    /\ UNCHANGED <<serverVars, file, stored, pc, validator, answer, copy, floor, acked, asked>>

\* The operator removes a database that was created and never used, while the
\* server is not at it.
Remove ==
    /\ file # NoFile /\ ~foreign
    /\ stored[file] = <<>> /\ conn # file /\ lock = NoClient
    /\ file' = NoFile
    /\ UNCHANGED <<serverVars, stored, foreign, pc, validator, answer, copy, floor, acked, asked>>

\* The server dies with whatever it was doing and is started again, maybe with
\* another --since.  The clients, and their copies, live on.
CrashAndRestart ==
    /\ CanCrash
    /\ conn # NoConn \/ lock # NoClient
    /\ conn' = NoConn /\ inMemory' = FALSE
    /\ lock' = NoClient /\ stage' = "free"
    /\ cache' = EmptyCache
    /\ since' \in Sinces
    /\ pc' = [c \in Clients |->
                IF pc[c] \in {"record", "written"} THEN "written"
                ELSE IF pc[c] = "idle" THEN "idle" ELSE "answered"]
    /\ answer' = [c \in Clients |-> NoAnswer]
    /\ UNCHANGED <<worldVars, validator, copy, floor, acked, asked>>

Step(c) ==
    \/ Enter(c)
    \/ Resolve(c)
    \/ Open(c)
    \/ OpenFails(c)
    \/ QueryFails(c)
    \/ Validate(c)
    \/ Serve(c)
    \/ \E at \in Times : Record(c, at)
    \/ Deliver(c)

World ==
    \/ ForeignOpen
    \/ \E at \in Times : ForeignRecord(at)
    \/ ForeignClose
    \/ Remove
    \/ CrashAndRestart

Next ==
    \/ \E c \in Clients : Request(c, "validate") \/ Request(c, "record")
    \/ \E c \in Clients : Step(c)
    \/ World

\* A runnable thread runs.  Nothing makes a request arrive, a process let go
\* of the file, or the server crash.
Fairness == \A c \in Clients : WF_vars(Step(c))

Spec == Init /\ [][Next]_vars
FairSpec == Spec /\ Fairness

-----------------------------------------------------------------------------
(* Properties *)

Phases == {"idle", "validate", "serve", "record", "answered", "written"}
Etags == (0 .. MaxSnapshots) \cup {NoEtag}

TypeOK ==
    /\ file \in Files \cup {NoFile}
    /\ DOMAIN stored = Databases
    /\ \A d \in Databases :
        /\ Len(stored[d]) \in 0 .. MaxSnapshots
        /\ \A id \in DOMAIN stored[d] : stored[d][id] \in Times
    /\ foreign \in BOOLEAN
    /\ since \in Sinces
    /\ conn \in Databases \cup {NoConn, Closed}
    /\ inMemory \in BOOLEAN
    /\ lock \in Clients \cup {NoClient}
    /\ stage \in {"free", "resolve", "open", "query"}
    /\ cache \in [id : 0 .. MaxSnapshots, view : SUBSET Refs]
    /\ pc \in [Clients -> Phases]
    /\ validator \in [Clients -> Etags]
    /\ answer \in [Clients -> [status : {NoResponse, 200, 201, 304, 500}, etag : Etags,
                                view : SUBSET Refs]]
    /\ copy \in [Clients -> [etag : Etags, view : SUBSET Refs]]
    /\ floor \in [Clients -> SUBSET Refs]
    /\ acked \subseteq Refs
    /\ asked \in 0 .. MaxRequests

\* A memoized view kept for the latest id is the view of that database.
CacheCoherent ==
    conn \in Databases /\ Latest(conn) # 0 /\ cache.id = Latest(conn)
        => cache.view = View(conn)

\* What the client shows after this answer.
Shown(c) == IF answer[c].status = 304 THEN copy[c].view ELSE answer[c].view
IsRead(c) == pc[c] = "answered" /\ answer[c].status \in {200, 304}

\* A 304 is only sent to a client whose copy is the view of this instant.
NotModifiedIsFresh ==
    [][\A c \in Clients :
        pc[c] = "validate" /\ IsRead(c)' => copy[c].view = View(conn)]_vars

\* Read your writes, and everyone else's: an answer shows every snapshot that
\* was committed and visible when the request was made, also when the client
\* is told to keep its copy.
ReadsSeeTheCommitted == \A c \in Clients : IsRead(c) => floor[c] \subseteq Shown(c)

\* A snapshot acknowledged with a 201 is in the file under db_path, and is
\* still there after a crash; it never went to the in-memory schema.
AckedIsDurable == acked \subseteq Committed

\* What a client shows never goes back to an older state of the market.
CopiesNeverGoBack ==
    [][\A c \in Clients : copy[c].view \subseteq copy[c]'.view]_vars

\* Every request ends in a response or a closed connection: no thread waits
\* for ever for a lock some exception left taken.
EveryRequestEnds == \A c \in Clients : (pc[c] # "idle") ~> (pc[c] = "idle")

-----------------------------------------------------------------------------
(* Refinement *)

IdsOf(refs) == {r[2] : r \in refs}

ServedLog == IdsOf(Visible)
Calls == [c \in Clients |->
            CASE pc[c] \in {"validate", "serve"} -> "pending"
              [] pc[c] = "answered" -> IF IsRead(c) THEN "answered" ELSE "failed"
              [] OTHER -> "idle"]
Floors == [c \in Clients |-> IdsOf(floor[c])]
Shows == [c \in Clients |-> IF IsRead(c) THEN IdsOf(Shown(c)) ELSE {}]

Service == INSTANCE MarketService WITH
    log <- ServedLog, call <- Calls, floor <- Floors, view <- Shows

\* The threads, the lock, the late connection, the memo and the validators
\* together are one linear log: each answer is a state of it that was current
\* between the request and the answer.
ServesTheLog == Service!ServiceSpec

-----------------------------------------------------------------------------
(* What the repository says and the code does not do *)

\* main's comment: a database that cannot be opened "is not fatal - the first
\* request reports it with the status code that belongs to it".
FailuresAreReported ==
    \A c \in Clients : pc[c] = "answered" => answer[c].status # NoResponse

\* _conn's docstring: "Before the first snapshot the file does not exist yet,
\* so the empty state is served from an in-memory schema instead of erroring".
EmptyStateIsServed == stage = "query" /\ file = NoFile => conn # Closed
=============================================================================
