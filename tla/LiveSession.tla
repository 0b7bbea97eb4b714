----------------------------- MODULE LiveSession -----------------------------
(***************************************************************************)
(* One run of `probe`, `probe --game`, `fetch` or `fetch --store`: the     *)
(* login on the Celeste Network service (TCP 4564, aoeo_market/auth.py),   *)
(* then the game service (TCP 1510, aoeo_market/client.py) with its login  *)
(* bundle and one sweep, whose listings are printed or stored.             *)
(* The two servers are external: they answer, refuse, send nonsense, fall  *)
(* silent or hang up, and every socket has a timeout.  What the game       *)
(* server writes is a GameStream, captured by a sniffer at the same time.  *)
(*                                                                         *)
(* `fetch --watch` goes on as MarketWatch describes.  Credentials, the     *)
(* layout of the requests and the contents of a session are left out.      *)
(***************************************************************************)
EXTENDS GameStream

CONSTANT Commands

ASSUME CommandsAssumption == Commands \subseteq {"probe", "probeGame", "fetch"}

VARIABLES
    cmd,             \* the command given
    at,              \* where the program is
    sockets,         \* its open connections
    sentBy,          \* what it has sent: "register", "bundle", "query"
    rx,              \* how many cells it has read
    stored,          \* the outcome of --store
    exit,            \* its exit status, or "raised"
    interrupted,     \* the operator pressed Ctrl-C
    verdict,         \* the login service's answer
    admitted         \* the game service's answer to the bundle

clientVars == <<cmd, at, sockets, sentBy, rx, stored, exit, interrupted>>
serverVars == <<verdict, admitted>>
vars == <<streamVars, clientVars, serverVars>>

Read == SubSeq(stream, 1, rx)

-----------------------------------------------------------------------------
Init ==
    /\ StreamInit
    /\ cmd \in Commands /\ at = "identity"
    /\ sockets = {} /\ sentBy = {} /\ rx = 0
    /\ exit = "running" /\ stored = "unasked" /\ interrupted = FALSE
    /\ verdict = "none" /\ admitted = "none"

Goto(place) == at' = place /\ UNCHANGED <<cmd, exit, interrupted>>

\* Every path out of the program runs the finally blocks that close what is open.
Exit(status) ==
    /\ at' = "end" /\ exit' = status /\ sockets' = {}
    /\ UNCHANGED <<cmd, sentBy, rx, interrupted>>

\* An OSError is caught by nobody.
Break == Exit("raised")

\* _login_identity: the device hash and the CRC of the published manifest; a
\* manifest that cannot be fetched stops the command, one whose body breaks off
\* (an HTTPException, not an OSError) is caught by nobody.
LoginIdentity ==
    /\ at = "identity"
    /\ \/ Goto("login") /\ UNCHANGED <<sockets, sentBy, rx>>
       \/ Exit("2")
       \/ Break
    /\ UNCHANGED <<streamVars, serverVars, stored>>

\* CelesteNetworkClient.login: connect and send the request.
RequestLogin ==
    /\ at = "login"
    /\ \/ /\ Goto("response")
          /\ sockets' = {"login"} /\ UNCHANGED <<sentBy, rx>>
       \/ Break
    /\ UNCHANGED <<streamVars, serverVars, stored>>

\* Mutant: any response that parses is taken for a session.
ReceiveLoginUnchecked ==
    /\ at = "response"
    /\ \/ /\ verdict' \in {"session", "empty"}
          /\ Goto("register") /\ UNCHANGED <<sockets, sentBy, rx>>
       \/ verdict' = "malformed" /\ Exit("1")
       \/ verdict' = "gone" /\ Break
    /\ UNCHANGED <<streamVars, admitted, stored>>

\* _recv_packet and parse_login_response: a session; a response without one or
\* a packet that does not parse; a closed or silent connection.
ReceiveLogin ==
    /\ at = "response"
    /\ \/ /\ verdict' = "session"
          /\ Goto("register") /\ UNCHANGED <<sockets, sentBy, rx>>
       \/ verdict' \in {"empty", "malformed"} /\ Exit("1")
       \/ verdict' = "gone" /\ Break
    /\ UNCHANGED <<streamVars, admitted, stored>>

RegisterSession ==
    /\ at = "register"
    /\ \/ /\ Goto("manifest")
          /\ sentBy' = sentBy \cup {"register"}
          /\ UNCHANGED <<sockets, rx>>
       \/ Break
    /\ UNCHANGED <<streamVars, serverVars, stored>>

\* Mutant: the manifest is waited for until it comes.
AwaitManifest ==
    /\ at = "manifest" /\ "manifest" \in sockets
    /\ IF cmd = "probe" THEN Exit("0")
       ELSE Goto("connect") /\ sockets' = {} /\ UNCHANGED <<sentBy, rx>>
    /\ UNCHANGED <<streamVars, serverVars, stored>>

\* Mutant: the connection stays open while the game service is called.
ReceiveManifestAndStay ==
    /\ at = "manifest"
    /\ IF cmd = "probe" THEN Exit("0")
       ELSE Goto("connect") /\ UNCHANGED <<sockets, sentBy, rx>>
    /\ UNCHANGED <<streamVars, serverVars, stored>>

\* The manifest is read or not, it makes no difference; the connection is
\* closed before the game service is called.
ReceiveManifest ==
    /\ at = "manifest"
    /\ IF cmd = "probe" THEN Exit("0")
       ELSE Goto("connect") /\ sockets' = {} /\ UNCHANGED <<sentBy, rx>>
    /\ UNCHANGED <<streamVars, serverVars, stored>>

\* MarketClient.login: connect and send the bundle.
SendBundle ==
    /\ at = "connect"
    /\ \/ /\ Goto("handshake")
          /\ sockets' = sockets \cup {"game"}
          /\ sentBy' = sentBy \cup {"bundle"}
          /\ UNCHANGED rx
       \/ Break
    /\ UNCHANGED <<streamVars, serverVars, stored>>

\* The game service's reply: a status and, to a session it knows, the offers.
Admit ==
    /\ "bundle" \in sentBy /\ admitted = "none"
    /\ \/ admitted' = "accepted" /\ Write(<<Header, Status>> \o Member(1, 1))
       \/ admitted' = "refused" /\ Write(<<Header, Status>>)
    /\ UNCHANGED <<clientVars, verdict>>

\* It answers a sweep of the sessions it admitted.
AnswerSweep ==
    /\ "query" \in sentBy /\ admitted = "accepted"
    /\ \A i \in DOMAIN stream : stream[i].message < 2
    /\ Write(Member(2, 2))
    /\ UNCHANGED <<clientVars, serverVars>>

\* What has come since the last chunk, wherever that cuts the stream.
Receive ==
    /\ at \in {"handshake", "drain"}
    /\ rx < Sent /\ rx' = Sent
    /\ Goto(at)
    /\ UNCHANGED <<streamVars, serverVars, sockets, sentBy, stored>>

\* _f2_reply_status: the byte after the first 0xF2 header, when it has come.
Status0xF2 ==
    IF \E i \in DOMAIN Read : i > 1 /\ Read[i - 1] = Header THEN admitted ELSE "none"

\* Mutant: the status is not looked at.
EndHandshakeUnchecked ==
    /\ at = "handshake"
    /\ IF cmd = "probeGame" THEN Exit("0") ELSE Goto("request") /\ UNCHANGED <<sockets, sentBy, rx>>
    /\ UNCHANGED <<streamVars, serverVars, stored>>

\* The deadline, a read timeout or the end of the stream ends the handshake; a
\* refusal that was read is an error, and no status at all is an admission.
EndHandshake ==
    /\ at = "handshake"
    /\ IF Status0xF2 = "refused" THEN Exit("1")
       ELSE IF cmd = "probeGame" THEN Exit("0")
       ELSE Goto("request") /\ UNCHANGED <<sockets, sentBy, rx>>
    /\ UNCHANGED <<streamVars, serverVars, stored>>

\* request_market.
RequestMarket ==
    /\ at = "request"
    /\ \/ /\ Goto("drain")
          /\ sentBy' = sentBy \cup {"query"}
          /\ UNCHANGED <<sockets, rx>>
       \/ Break
    /\ UNCHANGED <<streamVars, serverVars, stored>>

\* Mutant: a target that refuses the snapshot is reported and forgotten.
StoreAnyway ==
    /\ at = "store"
    /\ stored' \in {"kept", "rejected"} /\ Exit("0")
    /\ UNCHANGED <<streamVars, serverVars>>

\* _drain_listings ends as the handshake does; the listings are reported and,
\* with --store, stored.
EndDrain ==
    /\ at = "drain"
    /\ \/ Goto("store") /\ UNCHANGED <<sockets, sentBy, rx>>
       \/ Exit("0")
    /\ UNCHANGED <<streamVars, serverVars, stored>>

\* _record_snapshot: stored; refused, which is exit status 1; or an error of the
\* local database, which it does not catch.
Store ==
    /\ at = "store"
    /\ \/ stored' = "kept" /\ Exit("0")
       \/ stored' = "rejected" /\ Exit("1")
       \/ stored' = "rejected" /\ Break
    /\ UNCHANGED <<streamVars, serverVars>>

\* The connection is reset while it is read.
Reset ==
    /\ at \in {"handshake", "drain"}
    /\ Break
    /\ UNCHANGED <<streamVars, serverVars, stored>>

\* Ctrl-C: fetch catches it once it is past _login_identity.
Interrupt ==
    /\ at # "end"
    /\ at' = "end" /\ interrupted' = TRUE /\ sockets' = {}
    /\ exit' = IF cmd = "fetch" /\ at # "identity" THEN "0" ELSE "raised"
    /\ UNCHANGED <<streamVars, serverVars, cmd, sentBy, rx, stored>>

Client ==
    \/ LoginIdentity \/ RequestLogin \/ ReceiveLogin \/ RegisterSession \/ ReceiveManifest
    \/ SendBundle \/ Receive \/ EndHandshake \/ RequestMarket \/ EndDrain \/ Store \/ Reset

\* Nothing is captured after the program has ended.
Server ==
    /\ at # "end"
    /\ Admit \/ AnswerSweep

Network ==
    /\ at # "end"
    /\ Transmit \/ Retransmit
    /\ UNCHANGED <<clientVars, serverVars>>

Next == Client \/ Interrupt \/ Server \/ Network

\* Every call of the client returns within the timeout of its socket; the
\* servers and the network owe it nothing.
Spec == Init /\ [][Next]_vars /\ WF_vars(Client)
-----------------------------------------------------------------------------
(* Properties *)

\* The types of the variables; at most one connection is open at a time, none
\* after the end.
TypeOK ==
    /\ cmd \in Commands
    /\ at \in {"identity", "login", "response", "register", "manifest", "connect",
               "handshake", "request", "drain", "store", "end"}
    /\ sockets \in {{}, {"login"}, {"game"}} /\ (at = "end" => sockets = {})
    /\ sentBy \subseteq {"register", "bundle", "query"}
    /\ rx \in 0 .. Sent
    /\ stored \in {"unasked", "kept", "rejected"} /\ interrupted \in BOOLEAN
    /\ exit \in {"running", "0", "1", "2", "raised"} /\ (exit = "running" <=> at # "end")
    /\ verdict \in {"none", "session", "empty", "malformed", "gone"}
    /\ admitted \in {"none", "accepted", "refused"}

\* Nothing is sent on the strength of a session that was never issued: "the
\* register step is never sent", nor is the account's game service called, and
\* the login connection is closed by then.
OnlyIssuedSessionsAreUsed ==
    /\ sentBy # {} => verdict = "session"
    /\ "game" \in sockets => "register" \in sentBy

\* The exit status is earned: 0 needs a session and, past the login, a bundle
\* whose handshake read no refusal, a sweep that was asked for and a snapshot
\* that, if it was to be stored, was; 1 needs somebody who refused.  What 0 does
\* not say is that nobody refused later: a refusal read after the handshake has
\* given up is not looked at, and `fetch` reports an empty market.
ExitStatusIsEarned ==
    /\ at = "request" => Status0xF2 # "refused"
    /\ exit = "0" /\ interrupted = FALSE =>
        /\ verdict = "session"
        /\ cmd = "probeGame" => "bundle" \in sentBy /\ Status0xF2 # "refused"
        /\ cmd = "fetch" => "query" \in sentBy
        /\ stored # "rejected"
    /\ exit = "1" =>
        verdict \in {"empty", "malformed"} \/ Status0xF2 = "refused" \/ stored = "rejected"

\* "exactly like listings_from_pcap does offline": every listing that was read
\* is reported, in a message cut short as well, and an orderly capture of the
\* same connection holds it too.
LiveAgreesWithOffline ==
    /\ Listings(Read) = {Read[i] : i \in {i \in DOMAIN Read : IsListing(Read[i])}}
    /\ Orderly /\ Seen = 1 .. Sent => Listings(Read) \subseteq Listings(Reassembled)

\* Whatever the servers do or fail to do, the command comes to an end.
EveryCommandEnds == <>(at = "end")
=============================================================================
