---------------------------- MODULE MarketService ----------------------------
(***************************************************************************)
(* What the read API promises to its clients: every answer is a state of   *)
(* the append-only log of snapshots that was current at some instant       *)
(* between the request and its answer, whether the answer carries the view *)
(* or lets the client keep its own copy (304).  It hides the connection,   *)
(* the lock, the cache and the validators.  WebApp implements it.          *)
(***************************************************************************)
EXTENDS Integers

CONSTANT Clients

VARIABLES
    log,         \* ids of the served snapshots
    call,        \* client -> "idle", "pending", "answered", "failed"
    floor,       \* client -> the log when its latest request was made
    view         \* client -> the snapshots its answer shows, while it is answered

serviceVars == <<log, call, floor, view>>

ServiceInit ==
    /\ log \subseteq Nat
    /\ call = [c \in Clients |-> "idle"]
    /\ floor = [c \in Clients |-> {}]
    /\ view = [c \in Clients |-> {}]

Append ==
    /\ \E id \in log' : log' = log \cup {id} /\ \A old \in log : old < id
    /\ UNCHANGED <<call, floor, view>>

Invoke(c) ==
    /\ call[c] = "idle"
    /\ call' = [call EXCEPT ![c] = "pending"]
    /\ floor' = [floor EXCEPT ![c] = log]
    /\ UNCHANGED <<log, view>>

\* The log never shrinks, so its states are its prefixes.
IsStateOf(ids) == ids \subseteq log /\ \A id \in ids : \A old \in log : old < id => old \in ids

Answer(c) ==
    /\ call[c] = "pending"
    /\ IsStateOf(view[c]') /\ floor[c] \subseteq view[c]'
    /\ call' = [call EXCEPT ![c] = "answered"]
    /\ view' = [view EXCEPT ![c] = view[c]']
    /\ UNCHANGED <<log, floor>>

\* Some requests fail, one alone or all of them in a crash.
Fail ==
    /\ \E C \in SUBSET Clients :
        /\ call' = [c \in Clients |-> IF c \in C /\ call[c] # "idle" THEN "failed" ELSE call[c]]
        /\ view' = [c \in Clients |-> IF c \in C THEN {} ELSE view[c]]
    /\ UNCHANGED <<log, floor>>

Return(c) ==
    /\ call[c] \in {"answered", "failed"}
    /\ call' = [call EXCEPT ![c] = "idle"]
    /\ view' = [view EXCEPT ![c] = {}]
    /\ UNCHANGED <<log, floor>>

ServiceNext ==
    \/ Append
    \/ Fail
    \/ \E c \in Clients : Invoke(c) \/ Answer(c) \/ Return(c)

ServiceSpec == ServiceInit /\ [][ServiceNext]_serviceVars
=============================================================================
