--------------------------- MODULE AgentRegistry ---------------------------
(***************************************************************************)
(* The hub's side of the agent connections: the Connect stream handler     *)
(* (hub/internal/grpcserver/handler.go), the connection registry           *)
(* (hub/internal/connmgr), the stale-connection monitor                    *)
(* (hub/internal/grpcserver/server.go), the servers table and the HTTP     *)
(* handlers that create and delete servers.                                *)
(*                                                                         *)
(* Every goroutine is cut where it takes or releases ConnManager.mu, runs  *)
(* an SQL statement or sends on a stream: two goroutines interleave there. *)
(* A stream is one gRPC Connect call; an agent that reconnects uses        *)
(* another stream, so that several may stand for one server.               *)
(***************************************************************************)
EXTENDS Naturals, Fleet

CONSTANTS
    Streams,     \* gRPC Connect calls, each with a handler goroutine
    NoStream,    \* "no entry" in the registry
    NoServer,    \* no client certificate / no server id yet
    Enrolled,    \* the servers registered before the behaviour starts
    MaxRestarts  \* bound: how often the hub process may restart

ASSUME RegistryAssumption ==
    /\ NoStream \notin Streams
    /\ NoServer \notin Servers
    /\ Enrolled \subseteq Servers
    /\ MaxRestarts \in Nat

VARIABLES
    row,      \* row[s]: servers.status; "none" before the INSERT, "deleted" after the DELETE
    token,    \* token[s]: the registration token of the row
    issued,   \* the servers whose client certificate has reached an agent
    conns,    \* ConnManager.streams: server id -> stream
    fresh,    \* fresh[s]: LastSeen of the entry of s is at most 30s old
    link,     \* link[st]: the transport under the stream
    cert,     \* cert[st]: CN of the client certificate of the TLS peer
    sid,      \* sid[st]: the server id the handler works for
    pc,       \* pc[st]: where the handler goroutine of the stream is
    toUnregister, \* delete handlers that still have to call connMgr.Unregister
    toDelete,     \* self-unregister handlers that still have to DELETE
    mon,      \* the heartbeat monitor: its step and the ids it holds
    restarts

vars == <<row, token, issued, conns, fresh, link, cert, sid, pc,
          toUnregister, toDelete, mon, restarts>>

dbVars      == <<row, token, issued>>
connVars    == <<conns, fresh>>
streamVars  == <<link, cert, sid>>
adminVars   == <<toUnregister, toDelete>>

RowStatus == {"none", "pending", "online", "offline", "deleted"}
Present(s) == row[s] \in {"pending", "online", "offline"}

\* Steps of the handler before connMgr.Register ...
Handshaking == {"verified", "setOnline", "ack", "register", "activate", "regAck"}
\* ... while its stream can be the registered one ...
Live        == {"announce", "serve"}
\* ... and after onAgentDisconnected unregistered it.
Leaving     == {"offline", "announceOff", "endAll"}
\* "registered": the bootstrap stream has done its only job; "failed": the
\* handshake was refused; "done": the stream was served and has ended.
Handler     == {"idle"} \cup Handshaking \cup Live \cup Leaving
                        \cup {"registered", "failed", "done"}

MonitorStep == {"idle", "stale", "mark", "query", "orphan"}
IdleMonitor == [step |-> "idle", ids |-> {}, at |-> NoServer]

TypeOK ==
    /\ row \in [Servers -> RowStatus]
    /\ token \in [Servers -> {"none", "valid", "expired"}]
    /\ issued \subseteq Servers
    /\ conns \in [Servers -> Streams \cup {NoStream}]
    /\ fresh \in [Servers -> BOOLEAN]
    /\ link \in [Streams -> {"unused", "up", "cut"}]
    /\ cert \in [Streams -> Servers \cup {NoServer}]
    /\ sid \in [Streams -> Servers \cup {NoServer}]
    /\ pc \in [Streams -> Handler]
    /\ toUnregister \subseteq Servers
    /\ toDelete \subseteq Servers
    /\ mon \in [step : MonitorStep, ids : SUBSET Servers, at : Servers \cup {NoServer}]
    /\ restarts \in 0..MaxRestarts

\* The hub has just started: nobody is connected; the agents of the enrolled
\* servers were registered, connected and disconnected before.
Init ==
    /\ row = [s \in Servers |-> IF s \in Enrolled THEN "offline" ELSE "none"]
    /\ token = [s \in Servers |-> "none"]
    /\ issued = Enrolled
    /\ conns = [s \in Servers |-> NoStream]
    /\ fresh = [s \in Servers |-> FALSE]
    /\ link = [st \in Streams |-> "unused"]
    /\ cert = [st \in Streams |-> NoServer]
    /\ sid = [st \in Streams |-> NoServer]
    /\ pc = [st \in Streams |-> "idle"]
    /\ toUnregister = {}
    /\ toDelete = {}
    /\ mon = IdleMonitor
    /\ restarts = 0

Goto(st, where) == pc' = [pc EXCEPT ![st] = where]

\* UPDATE servers SET status = v WHERE id = s: no effect without a row.
UpdateServerStatus(s, v) ==
    row' = IF Present(s) THEN [row EXCEPT ![s] = v] ELSE row

-----------------------------------------------------------------------------
(* The registry's operations, each one critical section of ConnManager.mu  *)

Register(s, st) ==
    /\ conns' = [conns EXCEPT ![s] = st]
    /\ fresh' = [fresh EXCEPT ![s] = TRUE]

\* Mutant: the entry is marked old but stays in the map.
Unregister_KeepsEntry(s) ==
    /\ fresh' = [fresh EXCEPT ![s] = FALSE]
    /\ UNCHANGED conns

Unregister(s) ==
    /\ conns' = [conns EXCEPT ![s] = NoStream]
    /\ fresh' = [fresh EXCEPT ![s] = FALSE]

IsCurrent(s, st) == conns[s] = st

\* UpdateHeartbeat is keyed by the server id, whichever stream it came on.
UpdateHeartbeat(s) ==
    fresh' = [fresh EXCEPT ![s] = conns[s] # NoStream]

StaleConnections == {s \in Servers : conns[s] # NoStream /\ ~fresh[s]}
ActiveServerIDs  == {s \in Servers : conns[s] # NoStream}
\* Mutant: IN for NOT IN.
GetOnlineServersNotIn_In(ids) == {s \in ids : row[s] = "online"}
GetOnlineServersNotIn(ids) == {s \in Servers \ ids : row[s] = "online"}

-----------------------------------------------------------------------------
(* Registration: the first message of the stream is Register               *)

\* handleRegister up to the signed certificate: the token is looked up, its
\* expiry checked, the CSR signed.  withCSR: the request carried a CSR.
handleRegister(st, s, withCSR) ==
    /\ pc[st] = "idle"
    /\ link' = [link EXCEPT ![st] = "up"]
    /\ IF token[s] = "valid" /\ Present(s) /\ withCSR
       THEN Goto(st, "activate") /\ sid' = [sid EXCEPT ![st] = s]
       ELSE Goto(st, "failed") /\ UNCHANGED sid
    /\ UNCHANGED <<dbVars, connVars, cert, adminVars, mon, restarts>>

\* ActivateServer clears the token and sets the status, by id alone.
ActivateServer(st) ==
    LET s == sid[st] IN
    /\ pc[st] = "activate"
    /\ IF Present(s)
       THEN /\ row' = [row EXCEPT ![s] = "pending"]
            /\ token' = [token EXCEPT ![s] = "none"]
            /\ Goto(st, "regAck")
       ELSE Goto(st, "failed") /\ UNCHANGED <<row, token>>
    /\ UNCHANGED <<issued, connVars, streamVars, adminVars, mon, restarts>>

\* RegisterAck carries the certificate; the bootstrap stream then ends.  On a
\* transport that broke meanwhile Send may fail or merely fill a buffer: the
\* certificate does not arrive either way.
sendRegisterAck(st) ==
    /\ pc[st] = "regAck"
    /\ \/ /\ link[st] = "up"
          /\ issued' = issued \cup {sid[st]}
          /\ Goto(st, "registered")
       \/ /\ link[st] = "cut"
          /\ \E end \in {"registered", "failed"} : Goto(st, end)
          /\ UNCHANGED issued
    /\ UNCHANGED <<row, token, connVars, streamVars, adminVars, mon, restarts>>

-----------------------------------------------------------------------------
(* Reconnect: the first message is a Heartbeat that names server s; c is   *)
(* the CN of the peer certificate (NoServer: none was presented)           *)

\* Mutant: any certificate of the hub's CA will do.
verifyCertCN_AnyCert(s, c) == c # NoServer

verifyCertCN(s, c) == c = s

performHeartbeatHandshake(st, s, c) ==
    /\ pc[st] = "idle"
    /\ link' = [link EXCEPT ![st] = "up"]
    /\ cert' = [cert EXCEPT ![st] = c]
    /\ IF verifyCertCN(s, c)
       THEN Goto(st, "verified") /\ sid' = [sid EXCEPT ![st] = s]
       ELSE Goto(st, "failed") /\ UNCHANGED sid
    /\ UNCHANGED <<dbVars, connVars, adminVars, mon, restarts>>

\* handleHeartbeat reads the row and decides whether to write the status.
GetServerByID(st) ==
    LET s == sid[st] IN
    /\ pc[st] = "verified"
    /\ Goto(st, IF ~Present(s) THEN "failed"
                ELSE IF row[s] = "online" THEN "ack" ELSE "setOnline")
    /\ UNCHANGED <<dbVars, connVars, streamVars, adminVars, mon, restarts>>

\* ... and writes it: the row may have been deleted since it was read.
handleHeartbeat(st) ==
    LET s == sid[st] IN
    /\ pc[st] = "setOnline"
    /\ UpdateServerStatus(s, "online")
    /\ Goto(st, IF Present(s) THEN "ack" ELSE "failed")
    /\ UNCHANGED <<token, issued, connVars, streamVars, adminVars, mon, restarts>>

\* The ack is sent before the stream is registered.  Send on a broken
\* transport may still succeed.
sendHeartbeatAck(st) ==
    /\ pc[st] = "ack"
    /\ \/ Goto(st, "register")
       \/ link[st] = "cut" /\ Goto(st, "failed")
    /\ UNCHANGED <<dbVars, connVars, streamVars, adminVars, mon, restarts>>

connMgrRegister(st) ==
    /\ pc[st] = "register"
    /\ Register(sid[st], st)
    /\ Goto(st, "announce")
    /\ UNCHANGED <<dbVars, streamVars, adminVars, mon, restarts>>

\* The audit entry and Notify, which cancels an offline notice (see Notifier).
onAgentConnected(st) ==
    /\ pc[st] = "announce"
    /\ Goto(st, "serve")
    /\ UNCHANGED <<dbVars, connVars, streamVars, adminVars, mon, restarts>>

-----------------------------------------------------------------------------
(* Serving, and the deferred onAgentDisconnected                           *)

\* An in-stream heartbeat.  The ack is sent only while an entry exists.
handleStreamHeartbeat(st) ==
    /\ pc[st] = "serve"
    /\ link[st] = "up"
    /\ UpdateHeartbeat(sid[st])
    /\ UNCHANGED <<dbVars, conns, streamVars, pc, adminVars, mon, restarts>>

\* Mutant: the handler returns without unregistering its stream.
UnregisterIfCurrent_Forgets(st) ==
    /\ pc[st] = "serve"
    /\ link[st] = "cut"
    /\ Goto(st, "done")
    /\ UNCHANGED <<dbVars, connVars, streamVars, adminVars, mon, restarts>>

\* Mutant: plain Unregister, whoever holds the entry.
UnregisterIfCurrent_Unconditional(st) ==
    /\ pc[st] = "serve"
    /\ link[st] = "cut"
    /\ Unregister(sid[st])
    /\ Goto(st, "offline")
    /\ UNCHANGED <<dbVars, streamVars, adminVars, mon, restarts>>

\* Recv reports the end of the stream; onAgentDisconnected unregisters the
\* stream if it is still the current one, and returns at once otherwise.
UnregisterIfCurrent(st) ==
    LET s == sid[st] IN
    /\ pc[st] = "serve"
    /\ link[st] = "cut"
    /\ IF IsCurrent(s, st)
       THEN Unregister(s) /\ Goto(st, "offline")
       ELSE Goto(st, "done") /\ UNCHANGED connVars
    /\ UNCHANGED <<dbVars, streamVars, adminVars, mon, restarts>>

disconnectSetOffline(st) ==
    /\ pc[st] = "offline"
    /\ UpdateServerStatus(sid[st], "offline")
    /\ Goto(st, "announceOff")
    /\ UNCHANGED <<token, issued, connVars, streamVars, adminVars, mon, restarts>>

\* The audit entry and Notify, which starts the debounce (see Notifier).
disconnectNotify(st) ==
    /\ pc[st] = "announceOff"
    /\ Goto(st, "endAll")
    /\ UNCHANGED <<dbVars, connVars, streamVars, adminVars, mon, restarts>>

\* terminals.EndAll; what it does to the sessions is in TerminalBroker.
disconnectEndAll(st) ==
    /\ pc[st] = "endAll"
    /\ Goto(st, "done")
    /\ UNCHANGED <<dbVars, connVars, streamVars, adminVars, mon, restarts>>

-----------------------------------------------------------------------------
(* sweepStaleConnections, run every 15s by one goroutine                   *)

sweepStart ==
    /\ mon.step = "idle"
    /\ mon' = [mon EXCEPT !.step = "stale", !.ids = StaleConnections]
    /\ UNCHANGED <<dbVars, connVars, streamVars, pc, adminVars, restarts>>

\* Unregister is unconditional: the entry may be a newer one by now.
sweepUnregister(s) ==
    /\ mon.step = "stale"
    /\ s \in mon.ids
    /\ Unregister(s)
    /\ mon' = [step |-> "mark", ids |-> mon.ids \ {s}, at |-> s]
    /\ UNCHANGED <<dbVars, streamVars, pc, adminVars, restarts>>

sweepMarkStale ==
    /\ mon.step = "mark"
    /\ UpdateServerStatus(mon.at, "offline")
    /\ mon' = [mon EXCEPT !.step = "stale", !.at = NoServer]
    /\ UNCHANGED <<token, issued, connVars, streamVars, pc, adminVars, restarts>>

sweepActive ==
    /\ mon.step = "stale"
    /\ mon.ids = {}
    /\ mon' = [mon EXCEPT !.step = "query", !.ids = ActiveServerIDs]
    /\ UNCHANGED <<dbVars, connVars, streamVars, pc, adminVars, restarts>>

sweepQuery ==
    /\ mon.step = "query"
    /\ mon' = [mon EXCEPT !.step = "orphan", !.ids = GetOnlineServersNotIn(mon.ids)]
    /\ UNCHANGED <<dbVars, connVars, streamVars, pc, adminVars, restarts>>

sweepMarkOrphan(s) ==
    /\ mon.step = "orphan"
    /\ s \in mon.ids
    /\ UpdateServerStatus(s, "offline")
    /\ mon' = [mon EXCEPT !.ids = @ \ {s}]
    /\ UNCHANGED <<token, issued, connVars, streamVars, pc, adminVars, restarts>>

sweepEnd ==
    /\ mon.step = "orphan"
    /\ mon.ids = {}
    /\ mon' = IdleMonitor
    /\ UNCHANGED <<dbVars, connVars, streamVars, pc, adminVars, restarts>>

Sweep ==
    \/ sweepStart \/ sweepMarkStale \/ sweepActive \/ sweepQuery \/ sweepEnd
    \/ \E s \in Servers : sweepUnregister(s) \/ sweepMarkOrphan(s)

-----------------------------------------------------------------------------
(* The HTTP handlers that create and delete servers, and open terminals    *)

handleCreateServer(s) ==
    /\ row[s] = "none"
    /\ row' = [row EXCEPT ![s] = "pending"]
    /\ token' = [token EXCEPT ![s] = "valid"]
    /\ UNCHANGED <<issued, connVars, streamVars, pc, adminVars, mon, restarts>>

\* The rows of the batch go in one statement, ids without a row included; a
\* single delete of a missing row answers 404 and stops.
handleDeleteServers(ids, batch) ==
    /\ ids # {}
    /\ \A s \in ids : row[s] # "none"
    /\ batch \/ \E s \in ids : ids = {s} /\ Present(s)
    /\ row' = [s \in Servers |-> IF s \in ids THEN "deleted" ELSE row[s]]
    /\ token' = [s \in Servers |-> IF s \in ids THEN "none" ELSE token[s]]
    /\ toUnregister' = toUnregister \cup ids
    /\ UNCHANGED <<issued, connVars, streamVars, pc, toDelete, mon, restarts>>

\* ... "Disconnect the agent if it's currently connected".
deleteUnregister(s) ==
    /\ s \in toUnregister
    /\ Unregister(s)
    /\ toUnregister' = toUnregister \ {s}
    /\ UNCHANGED <<dbVars, streamVars, pc, toDelete, mon, restarts>>

\* The agent's own farewell: the entry goes first, then the row.
handleSelfUnregister(s) ==
    /\ Present(s)
    /\ Unregister(s)
    /\ toDelete' = toDelete \cup {s}
    /\ UNCHANGED <<dbVars, streamVars, pc, toUnregister, mon, restarts>>

selfUnregisterDelete(s) ==
    /\ s \in toDelete
    /\ row' = [row EXCEPT ![s] = "deleted"]
    /\ token' = [token EXCEPT ![s] = "none"]
    /\ toDelete' = toDelete \ {s}
    /\ UNCHANGED <<issued, connVars, streamVars, pc, toUnregister, mon, restarts>>

\* After the agent acknowledged, or after 10s, the row is deleted; the entry
\* is left to the stream's end.
handleUnregisterServer(s) ==
    /\ Present(s)
    /\ row' = [row EXCEPT ![s] = "deleted"]
    /\ token' = [token EXCEPT ![s] = "none"]
    /\ UNCHANGED <<issued, connVars, streamVars, pc, adminVars, mon, restarts>>

-----------------------------------------------------------------------------
(* The environment                                                         *)

\* An hour passes before the token is used.
tokenExpires(s) ==
    /\ token[s] = "valid"
    /\ token' = [token EXCEPT ![s] = "expired"]
    /\ UNCHANGED <<row, issued, connVars, streamVars, pc, adminVars, mon, restarts>>

\* The agent dies, reconnects, or the network fails under the stream.
linkBreaks(st) ==
    /\ link[st] = "up"
    /\ link' = [link EXCEPT ![st] = "cut"]
    /\ UNCHANGED <<dbVars, connVars, cert, sid, pc, adminVars, mon, restarts>>

\* 30s pass without a heartbeat reaching the entry of s.
entryAges(s) ==
    /\ conns[s] # NoStream
    /\ fresh[s]
    /\ fresh' = [fresh EXCEPT ![s] = FALSE]
    /\ UNCHANGED <<dbVars, conns, streamVars, pc, adminVars, mon, restarts>>

\* The hub process stops and starts: memory is lost, the database stays.
hubRestarts ==
    /\ restarts < MaxRestarts
    /\ restarts' = restarts + 1
    /\ conns' = [s \in Servers |-> NoStream]
    /\ fresh' = [s \in Servers |-> FALSE]
    /\ link' = [st \in Streams |-> IF link[st] = "up" THEN "cut" ELSE link[st]]
    /\ pc' = [st \in Streams |-> IF pc[st] \in Handshaking THEN "failed"
                                 ELSE IF pc[st] \in Live \cup Leaving THEN "done"
                                 ELSE pc[st]]
    /\ toUnregister' = {}
    /\ toDelete' = {}
    /\ mon' = IdleMonitor
    /\ UNCHANGED <<dbVars, cert, sid>>

-----------------------------------------------------------------------------
Accept(st) ==
    \/ \E s \in Servers, csr \in BOOLEAN : handleRegister(st, s, csr)
    \/ \E s \in Servers, c \in issued \cup {NoServer} : performHeartbeatHandshake(st, s, c)

\* The steps of a handler goroutine that do not wait for anyone.
HandlerStep(st) ==
    \/ ActivateServer(st) \/ sendRegisterAck(st)
    \/ GetServerByID(st) \/ handleHeartbeat(st) \/ sendHeartbeatAck(st)
    \/ connMgrRegister(st) \/ onAgentConnected(st)
    \/ UnregisterIfCurrent(st) \/ disconnectSetOffline(st)
    \/ disconnectNotify(st) \/ disconnectEndAll(st)

Admin ==
    \/ \E s \in Servers : \/ handleCreateServer(s) \/ handleSelfUnregister(s)
                          \/ handleUnregisterServer(s)
    \/ \E ids \in SUBSET Servers, batch \in BOOLEAN : handleDeleteServers(ids, batch)

AdminFinishes(s) == deleteUnregister(s) \/ selfUnregisterDelete(s)

Environment ==
    \/ \E s \in Servers : tokenExpires(s) \/ entryAges(s)
    \/ \E st \in Streams : linkBreaks(st)
    \/ hubRestarts

Next ==
    \/ \E st \in Streams : Accept(st) \/ HandlerStep(st) \/ handleStreamHeartbeat(st)
    \/ Sweep
    \/ Admin
    \/ \E s \in Servers : AdminFinishes(s)
    \/ Environment

Spec == Init /\ [][Next]_vars

\* A stream of s on which the agent is still there and the hub still listens.
Reachable(s) ==
    \E st \in Streams : /\ sid[st] = s
                        /\ link[st] = "up"
                        /\ pc[st] \in {"verified", "setOnline", "ack", "register"} \cup Live

(***************************************************************************)
(* Fairness.  Goroutines are scheduled; a broken transport is reported to  *)
(* Recv by the gRPC keepalive (ping after 30s, timeout 10s); the monitor's *)
(* ticker fires; HTTP handlers run to their end; agents send a heartbeat   *)
(* every 10s; and an entry nobody refreshes gets old.  Nothing is assumed  *)
(* of when agents connect, links break or administrators act.              *)
(***************************************************************************)
Fairness ==
    /\ \A st \in Streams : WF_vars(HandlerStep(st)) /\ WF_vars(handleStreamHeartbeat(st))
    /\ WF_vars(Sweep)
    /\ \A s \in Servers : /\ WF_vars(AdminFinishes(s))
                          /\ WF_vars(~Reachable(s) /\ entryAges(s))

FairSpec == Spec /\ Fairness
-----------------------------------------------------------------------------
(* Safety                                                                  *)

\* A registered stream has a handler that will still run its deferred
\* onAgentDisconnected: no entry outlives its handler, so that a message is
\* never sent to a handler that returned (Connect, UnregisterIfCurrent).
RegisteredIsLive ==
    \A s \in Servers : conns[s] # NoStream => pc[conns[s]] \in Live

\* The stream registered for a server presented the certificate issued for
\* that very server, whatever the first message claimed and whichever
\* handshakes run at the same time (performHeartbeatHandshake, verifyCertCN).
RegisteredIsAuthenticated ==
    \A s \in Servers : conns[s] # NoStream =>
        /\ sid[conns[s]] = s
        /\ cert[conns[s]] = s
        /\ s \in issued

\* Streams whose handler has called connMgr.Register, and those of them whose
\* handler is past UnregisterIfCurrent.
Admitted == {st \in Streams : pc[st] \in Live \cup Leaving \cup {"done"}}
HasLeft  == {st \in Streams : pc[st] \in Leaving \cup {"done"}}

\* The registry keeps the promise of ConnSlot: at most one stream per server,
\* a stream is registered once and never comes back after it was superseded,
\* swept or ended, and the end of one stream never takes away the entry of
\* another (Register, UnregisterIfCurrent, sweepStaleConnections).
Slot == INSTANCE ConnSlot WITH cur <- conns, admitted <- Admitted, left <- HasLeft

KeepsOneSlot == Slot!SlotSpec

-----------------------------------------------------------------------------
(* Liveness                                                                *)

\* A server shown online whose agent is gone is eventually shown otherwise,
\* or its agent is back: through a stream's end, the stale sweep or, after a
\* restart of the hub, the orphan sweep (sweepStaleConnections).
GoneIsNotOnline ==
    \A s \in Servers :
        (row[s] = "online" /\ ~Reachable(s)) ~> (row[s] # "online" \/ Reachable(s))

\* A stream whose transport broke eventually leaves the registry, also when
\* it broke in the middle of the handshake (Connect, onAgentDisconnected).
BrokenLeavesRegistry ==
    \A st \in Streams : (link[st] = "cut") ~> (\A s \in Servers : conns[s] # st)

-----------------------------------------------------------------------------
(* What the documents say of the program and the code does not keep        *)

\* Fleet-Dashboard.md: "The registration token is single-use": at most one
\* registration of a server passes the token check and activates the row.
TokenIsSingleUse ==
    \A st1, st2 \in Streams :
        /\ pc[st1] \in {"regAck", "registered"}
        /\ pc[st2] \in {"regAck", "registered"}
        /\ sid[st1] = sid[st2]
        => st1 = st2
=============================================================================
