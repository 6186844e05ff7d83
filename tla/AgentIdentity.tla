---------------------------- MODULE AgentIdentity ----------------------------
(***************************************************************************)
(* How an agent gets, keeps and loses its identity: the agent process      *)
(* (agent/cmd/veyport-agent), its connection loop                          *)
(* (agent/internal/client), the certificate store in memory and on disk    *)
(* (agent/internal/certs), and on the hub the certificate authority        *)
(* (hub/internal/ca) and the handlers that sign.                           *)
(*                                                                         *)
(* StoreCert is cut where it takes or releases the store's lock and at     *)
(* every file it writes: renewals are handled by goroutines of their own,  *)
(* and the process may die between two files.  A key or a CA is a number   *)
(* that nothing else refers to when it is generated; a certificate ages by *)
(* 6 hours at a time: 0 is new, 1 is due for renewal, 2 has expired.       *)
(***************************************************************************)
EXTENDS Naturals, FiniteSets

CONSTANTS
    MaxKeys,     \* bound: key pairs that exist at one time
    MaxCAs,      \* bound: hub CAs that exist at one time
    MaxServers,  \* bound: how often the agent is installed
    MaxFaults,   \* bound: crashes, lost connections and failed writes
    MaxBackoff,  \* maxBackoff, in seconds
    Writers,     \* goroutines that may be inside StoreCert
    None

Keys    == 1..MaxKeys
CAs     == 1..MaxCAs
Ids     == 1..MaxServers
File    == {"crt", "key", "ca"}
Cert    == [key : Keys, ca : CAs, cn : Ids, age : 0..2]
\* certPEM, keyPEM and caPEM of certs.Store; cert and caCert go with them.
Pem     == [cert : Cert, key : Keys, ca : CAs]
\* A StoreCert call: it sets the memory, then writes the files that are left;
\* alone says that no other call has written since.
StoreCall == [step : {"set", "write"}, cert : Cert, key : Keys, ca : CAs,
              left : SUBSET File, alone : BOOLEAN]

ASSUME IdentityAssumption ==
    /\ {MaxKeys, MaxCAs, MaxServers, MaxBackoff} \subseteq Nat \ {0}
    /\ MaxFaults \in Nat
    /\ None \notin Cert \cup Keys \cup CAs \cup Pem \cup StoreCall

VARIABLES
    hub,    \* the hub process: starting, serving or down, and the CA it holds
    db,     \* the hub's database: ca_cert, ca_key and the servers' rows
    agent,  \* the agent process and the store's memory
    disk,   \* the certificate directory: client.crt, client.key, ca.crt
    conf,   \* agent.conf
    setup,  \* the flags of the service: --token and --ca-pin
    wire,   \* the registration on its stream: the request, then the answer
    csrs,   \* renewal requests on their way to the hub
    resps,  \* renewal answers on their way to the agent
    store,  \* the StoreCert calls in progress
    faults, \* faults so far
    torn,   \* ghost: the files may stem from two StoreCert calls
    ioError \* ghost: a file could not be written since the last full StoreCert

vars == <<hub, db, agent, disk, conf, setup, wire, csrs, resps, store,
          faults, torn, ioError>>

hubVars    == <<hub, db>>
streamVars == <<wire, csrs, resps>>
diskVars   == <<disk, conf, setup>>
ghostVars  == <<torn, ioError>>

\* An agent that does not run.
Dead == [proc |-> "down", id |-> 0, cfg |-> FALSE, key |-> 0, pem |-> None,
         peer |-> 0, regFailures |-> 0, backoff |-> 1, cleaning |-> FALSE]

InStream == {"register", "registering", "handshake", "serve"}
Running  == agent.proc \notin {"down", "exited"}
Busy(w)  == store[w] # None
NoStore  == [w \in Writers |-> None]

\* The client and the store's memory: peer is the CN of the certificate its
\* stream was opened with, cleaning whether selfCleanup is due.
AgentState ==
    [proc : {"down", "exited", "dial", "wait", "storing"} \cup InStream,
     id : {0} \cup Ids, cfg : BOOLEAN, key : {0} \cup Keys,
     pem : Pem \cup {None}, peer : {0} \cup Ids,
     regFailures : 0..2, backoff : 1..MaxBackoff, cleaning : BOOLEAN]
Database ==
    [caCert : {0} \cup CAs, caKey : {0} \cup CAs,
     row : [Ids -> {"none", "pending", "expired", "active", "gone"}]]

\* The messages of a registration.
Message ==
    [kind : {"register"}, key : Keys] \cup [kind : {"ack"}, cert : Cert]
        \cup [kind : {"refused"}]

TypeOK ==
    /\ hub \in [pc : {"down", "saving", "up"}, ca : {0} \cup CAs]
    /\ db \in Database /\ agent \in AgentState
    /\ disk \in [File -> Cert \cup Keys \cup CAs \cup {None}]
    /\ disk.crt \in Cert \cup {None}
    /\ disk.key \in Keys \cup {None} /\ disk.ca \in CAs \cup {None}
    /\ conf = None \/ conf \in [id : Ids, pin : CAs]
    /\ setup = None \/ setup \in [token : Ids, pin : CAs]
    /\ wire = None \/ wire \in Message
    /\ csrs \subseteq Keys /\ resps \subseteq Cert
    /\ store \in [Writers -> StoreCall \cup {None}]
    /\ faults \in 0..MaxFaults /\ torn \in BOOLEAN /\ ioError \in BOOLEAN

Init ==
    /\ hub = [pc |-> "down", ca |-> 0]
    /\ db = [caCert |-> 0, caKey |-> 0, row |-> [i \in Ids |-> "none"]]
    /\ agent = Dead
    /\ disk = [f \in File |-> None]
    /\ conf = None /\ setup = None /\ wire = None
    /\ csrs = {} /\ resps = {}
    /\ store = NoStore
    /\ faults = 0 /\ torn = FALSE /\ ioError = FALSE

Least(S) == CHOOSE x \in S : \A y \in S : x <= y
\* A fault takes one of the MaxFaults.
Fault == faults < MaxFaults /\ faults' = faults + 1

-----------------------------------------------------------------------------
(* The certificate authority                                               *)

CertsAround ==
    resps \cup ({disk.crt} \ {None})
          \cup {c.cert : c \in ({agent.pem} \cup {store[w] : w \in Writers}) \ {None}}
          \cup (IF wire # None /\ wire.kind = "ack" THEN {wire.cert} ELSE {})
CAsInUse ==
    {db.caCert, db.caKey, hub.ca, disk.ca} \cup {c.ca : c \in CertsAround}
          \cup {x.pin : x \in {conf, setup} \ {None}}

\* The two rows are not compared: the hub signs with the key.
loadExistingCA == hub' = [pc |-> "up", ca |-> db.caKey] /\ UNCHANGED db

\* A new pair; its certificate is stored first.
GenerateCA(next) ==
    /\ CAs \ CAsInUse # {}
    /\ LET new == Least(CAs \ CAsInUse)
       IN  hub' = [pc |-> next, ca |-> new] /\ db' = [db EXCEPT !.caCert = new]

\* Mutant: the hub serves while the key of its CA has yet to be stored.
InitCA_ServesEarly ==
    /\ hub.pc = "down"
    /\ IF db.caCert # 0 /\ db.caKey # 0 THEN loadExistingCA ELSE GenerateCA("up")
    /\ UNCHANGED <<agent, diskVars, streamVars, store, faults, ghostVars>>

\* The start of the hub: the stored CA when both rows are there.
InitCA ==
    /\ hub.pc = "down"
    /\ IF db.caCert # 0 /\ db.caKey # 0 THEN loadExistingCA ELSE GenerateCA("saving")
    /\ UNCHANGED <<agent, diskVars, streamVars, store, faults, ghostVars>>

\* The second row of a new CA; only then does the hub serve.
generateAndSaveCA ==
    /\ hub.pc = "saving"
    /\ db' = [db EXCEPT !.caKey = hub.ca]
    /\ hub' = [hub EXCEPT !.pc = "up"]
    /\ UNCHANGED <<agent, diskVars, streamVars, store, faults, ghostVars>>

HubCrash ==
    /\ hub.pc # "down" /\ Fault
    /\ hub' = [pc |-> "down", ca |-> 0]
    /\ UNCHANGED <<db, agent, diskVars, streamVars, store, ghostVars>>

\* The CN is the server id whatever the request says; 12 hours of validity.
SignCSR(k, s) == [key |-> k, ca |-> hub.ca, cn |-> s, age |-> 0]

-----------------------------------------------------------------------------
(* Servers come and go                                                     *)

\* The process is gone, and with it the StoreCert calls it was in.
ProcessEnds ==
    /\ agent' = Dead /\ wire' = None /\ csrs' = {} /\ resps' = {} /\ store' = NoStore
    /\ torn' = (torn \/ \E w \in Writers : Busy(w) /\ store[w].step = "write")

\* The hub deletes the row, unless it is not reached or refuses the token.
SelfUnregister(rows, reached) ==
    IF reached THEN [rows EXCEPT ![conf.id] = "gone"] ELSE rows
\* --self-unregister; agent.conf is removed either way.
runSelfUnregister(rows, reached) ==
    IF conf = None THEN rows ELSE SelfUnregister(rows, reached)

\* An administrator creates a server and runs install.sh on the host: an
\* earlier agent unregisters itself and is killed, agent.conf is removed; the
\* certificate directory is left as it is.
Install(s) ==
    /\ hub.pc = "up" /\ db.row[s] = "none" /\ \A t \in 1..(s - 1) : db.row[t] # "none"
    /\ \E reached \in BOOLEAN :
          db' = [db EXCEPT !.row = runSelfUnregister([@ EXCEPT ![s] = "pending"], reached)]
    /\ conf' = None
    /\ setup' = [token |-> s, pin |-> hub.ca]
    /\ ProcessEnds
    /\ UNCHANGED <<hub, disk, faults, ioError>>

ExpireToken(s) ==
    /\ db.row[s] = "pending"
    /\ db' = [db EXCEPT !.row[s] = "expired"]
    /\ UNCHANGED <<hub, agent, diskVars, streamVars, store, faults, ghostVars>>

\* handleDeleteServer, for a server whose agent is not told.
DeleteServer(s) ==
    /\ hub.pc = "up" /\ db.row[s] \in {"pending", "expired", "active"}
    /\ db' = [db EXCEPT !.row[s] = "gone"]
    /\ UNCHANGED <<hub, agent, diskVars, streamVars, store, faults, ghostVars>>

\* handleUnregisterServer: the agent, which has a certificate, acknowledges
\* and goes on for 2 seconds; then the row is deleted.
handleUnregisterRequest ==
    /\ hub.pc = "up" /\ agent.proc = "serve" /\ db.row[agent.id] = "active"
    /\ IF agent.pem # None /\ agent.key # 0
       THEN agent' = [agent EXCEPT !.cleaning = TRUE]
       ELSE UNCHANGED agent
    /\ db' = [db EXCEPT !.row[agent.id] = "gone"]
    /\ UNCHANGED <<hub, diskVars, streamVars, store, faults, ghostVars>>

\* Removes /etc/veyport and the service, which ends the process.
selfCleanup ==
    /\ Running /\ agent.cleaning
    /\ disk' = [f \in File |-> None]
    /\ conf' = None /\ setup' = None
    /\ agent' = Dead /\ wire' = None /\ csrs' = {} /\ resps' = {} /\ store' = NoStore
    /\ torn' = FALSE /\ ioError' = FALSE
    /\ UNCHANGED <<hubVars, faults>>

-----------------------------------------------------------------------------
(* The agent process                                                       *)

verifyCertMatchesKey(c, k) == c.key = k
CheckSignatureFrom(c, ca) == c.ca = ca

\* loadFromDisk: all three files, a signature of that CA, the matching key.
DiskLoads ==
    /\ \A f \in File : disk[f] # None
    /\ CheckSignatureFrom(disk.crt, disk.ca)
    /\ verifyCertMatchesKey(disk.crt, disk.key)

\* agent.conf is preferred to --token, which is then ignored.
resolveConfig == IF conf # None THEN conf.id ELSE 0

\* The start of the process, which ends at once without agent.conf and flags.
\* An expired certificate is loaded like any other.
Start ==
    /\ ~Running
    /\ conf # None \/ setup # None
    /\ agent' = [Dead EXCEPT !.proc = "dial",
                             !.cfg = conf # None,
                             !.id = resolveConfig,
                             !.key = IF DiskLoads THEN disk.key ELSE 0,
                             !.pem = IF DiskLoads
                                     THEN [cert |-> disk.crt, key |-> disk.key, ca |-> disk.ca]
                                     ELSE None]
    /\ UNCHANGED <<hubVars, diskVars, streamVars, store, faults, ghostVars>>

\* The process is killed.
AgentCrash ==
    /\ Running /\ Fault
    /\ ProcessEnds
    /\ UNCHANGED <<hubVars, diskVars, ioError>>

\* saveNewConfig, which main only calls without an earlier agent.conf.
saveNewConfig ==
    conf' = IF ~agent.cfg /\ agent.id # 0 THEN [id |-> agent.id, pin |-> setup.pin]
            ELSE conf

\* SIGTERM: Run looks at the context between two steps of its loop, never in
\* the middle of a registration; main saves what it knows and ends.
Stop ==
    /\ Running /\ agent.proc # "storing"
    /\ saveNewConfig
    /\ ProcessEnds
    /\ UNCHANGED <<hubVars, disk, setup, faults, ioError>>

\* nextBackoff: the wait doubles up to maxBackoff.
nextBackoff(b) == IF b * 2 > MaxBackoff THEN MaxBackoff ELSE b * 2

\* What Run does with an error of connectAndStream: the third registration
\* error in a row ends the process, anything else is tried again.
Failed(registration) ==
    /\ agent' = IF registration /\ agent.regFailures = 2
                THEN [Dead EXCEPT !.proc = "exited"]
                ELSE [agent EXCEPT !.proc = "wait", !.peer = 0,
                                   !.regFailures = IF registration THEN @ + 1 ELSE 0,
                                   !.backoff = nextBackoff(@)]
    /\ wire' = None /\ csrs' = {} /\ resps' = {}

WaitOver ==
    /\ agent.proc = "wait"
    /\ agent' = [agent EXCEPT !.proc = "dial"]
    /\ UNCHANGED <<hubVars, diskVars, streamVars, store, faults, ghostVars>>

\* Without an identity the agent expects the CA of --ca-pin, or of the pin
\* that was saved with the configuration ...
bootstrapTLSConfig == IF agent.cfg THEN conf.pin ELSE setup.pin
\* ... at the end of the hub's chain.
verifyPinnedHubCertificate(pin) == hub.ca = pin

\* With one: the agent verifies the hub against the CA it stored ...
TLSConfig(pem) == pem.ca = hub.ca
\* ... and the hub the agent's certificate, its CA and its expiry.
VerifyClientCertIfGiven(pem) == pem.cert.ca = hub.ca /\ pem.cert.age < 2

HandshakeOK(pem) ==
    /\ hub.pc = "up"
    /\ IF pem # None THEN TLSConfig(pem) /\ VerifyClientCertIfGiven(pem)
       ELSE verifyPinnedHubCertificate(bootstrapTLSConfig)

registerOrHandshake == IF agent.id = 0 THEN "register" ELSE "handshake"

\* Mutant: the bootstrap tier is always used.
dialHub_Bootstrap ==
    /\ agent.proc = "dial"
    /\ IF HandshakeOK(None)
       THEN /\ agent' = [agent EXCEPT !.proc = registerOrHandshake,
                                      !.peer = 0]
            /\ UNCHANGED streamVars
       ELSE Failed(FALSE)
    /\ UNCHANGED <<hubVars, diskVars, store, faults, ghostVars>>

\* dialHub and Connect: the identity in the store when there is one, else
\* TLS with the pinned CA and no certificate.
dialHub ==
    /\ agent.proc = "dial"
    /\ IF HandshakeOK(agent.pem)
       THEN /\ agent' = [agent EXCEPT !.proc = registerOrHandshake,
                                      !.peer = IF agent.pem = None THEN 0 ELSE agent.pem.cert.cn]
            /\ UNCHANGED streamVars
       ELSE Failed(FALSE)
    /\ UNCHANGED <<hubVars, diskVars, store, faults, ghostVars>>

\* The connection is lost: by a fault, or because the hub is down.
Lose ==
    /\ agent.proc \in InStream
    /\ IF hub.pc = "up" THEN Fault ELSE UNCHANGED faults
    /\ Failed(FALSE)
    /\ UNCHANGED <<hubVars, diskVars, store, ghostVars>>

-----------------------------------------------------------------------------
(* Registration                                                            *)

\* Keys the store, the files and the messages still refer to.
KeysInUse ==
    csrs \cup {c.key : c \in CertsAround} \cup {disk.key}
         \cup {c.key : c \in ({agent.pem} \cup {store[w] : w \in Writers}) \ {None}}
\* The new key replaces the one in memory, which may still be waited for.
GenerateCSR == Least(Keys \ KeysInUse)
CanGenerate == Keys \ KeysInUse # {}

sendRegister ==
    /\ agent.proc = "register" /\ CanGenerate
    /\ agent' = [agent EXCEPT !.proc = "registering", !.key = GenerateCSR]
    /\ wire' = [kind |-> "register", key |-> GenerateCSR]
    /\ UNCHANGED <<hubVars, diskVars, csrs, resps, store, faults, ghostVars>>

issueRegistrationCertificate(s) == SignCSR(wire.key, s)

\* A valid token buys a certificate and is gone.
handleRegister ==
    /\ hub.pc = "up" /\ wire # None /\ wire.kind = "register"
    /\ IF db.row[setup.token] = "pending"
       THEN /\ db' = [db EXCEPT !.row[setup.token] = "active"]
            /\ wire' = [kind |-> "ack", cert |-> issueRegistrationCertificate(setup.token)]
       ELSE /\ wire' = [kind |-> "refused"]
            /\ UNCHANGED db
    /\ UNCHANGED <<hub, agent, diskVars, csrs, resps, store, faults, ghostVars>>

registrationRejected ==
    /\ agent.proc = "registering" /\ wire # None /\ wire.kind = "refused"
    /\ Failed(TRUE)
    /\ UNCHANGED <<hubVars, diskVars, store, faults, ghostVars>>

\* StoreCert begins: the key is read under the lock and the certificate
\* checked against it.
Storing(c) == [step |-> "set", cert |-> c, key |-> agent.key, ca |-> c.ca,
               left |-> File, alone |-> TRUE]

\* sendRegister's second half up to StoreCert, which it waits for.
registered ==
    /\ agent.proc = "registering" /\ wire # None /\ wire.kind = "ack"
    /\ verifyCertMatchesKey(wire.cert, agent.key)
    /\ \E w \in Writers :
          /\ ~Busy(w)
          /\ store' = [store EXCEPT ![w] = Storing(wire.cert)]
    /\ agent' = [agent EXCEPT !.proc = "storing", !.id = wire.cert.cn]
    /\ wire' = None
    /\ UNCHANGED <<hubVars, diskVars, csrs, resps, faults, ghostVars>>

\* Mutant: agent.conf is written before the certificates.
OnRegistered_First ==
    /\ agent.proc = "storing"
    /\ saveNewConfig
    /\ agent' = [agent EXCEPT !.proc = "dial", !.regFailures = 0, !.backoff = 1]
    /\ UNCHANGED <<hubVars, disk, setup, streamVars, store, faults, ghostVars>>

\* OnRegistered saves agent.conf; connectAndStream returns
\* errReconnectWithMTLS and Run dials again at once.
OnRegistered ==
    /\ agent.proc = "storing" /\ \A w \in Writers : ~Busy(w)
    /\ saveNewConfig
    /\ agent' = [agent EXCEPT !.proc = "dial", !.regFailures = 0, !.backoff = 1]
    /\ UNCHANGED <<hubVars, disk, setup, streamVars, store, faults, ghostVars>>

\* The CN of the certificate that was presented when the stream was opened.
verifyCertCN == agent.peer = agent.id

\* The first heartbeat: the certificate is checked, then the row must exist.
sendHeartbeatHandshake ==
    /\ agent.proc = "handshake" /\ hub.pc = "up"
    /\ IF verifyCertCN /\ db.row[agent.id] # "gone"
       THEN /\ agent' = [agent EXCEPT !.proc = "serve", !.backoff = 1]
            /\ UNCHANGED streamVars
       ELSE Failed(FALSE)
    /\ UNCHANGED <<hubVars, diskVars, store, faults, ghostVars>>

-----------------------------------------------------------------------------
(* Renewal                                                                 *)

HasCert == agent.pem # None /\ agent.key # 0
NeedsRenewal == agent.pem # None /\ agent.pem.cert.age >= 1

\* startCertRenewalTicker, every 10 seconds, whether or not an earlier
\* request has been answered.
RenewalTick ==
    /\ agent.proc = "serve" /\ HasCert /\ NeedsRenewal /\ CanGenerate
    /\ agent' = [agent EXCEPT !.key = GenerateCSR]
    /\ csrs' = csrs \cup {GenerateCSR}
    /\ UNCHANGED <<hubVars, diskVars, wire, resps, store, faults, ghostVars>>

\* The answer is dropped when the connection is not registered any more.
handleCertRenewal(k) ==
    /\ hub.pc = "up" /\ k \in csrs
    /\ csrs' = csrs \ {k}
    /\ \/ resps' = resps \cup {SignCSR(k, agent.id)}
       \/ UNCHANGED resps
    /\ UNCHANGED <<hubVars, agent, diskVars, wire, store, faults, ghostVars>>

\* handleCertRenewResponse in a goroutine of its own, up to the checks of
\* StoreCert: an answer to an earlier request than the last does not match.
handleCertRenewResponse(c) ==
    /\ agent.proc = "serve" /\ c \in resps
    /\ resps' = resps \ {c}
    /\ IF verifyCertMatchesKey(c, agent.key)
       THEN \E w \in Writers :
               ~Busy(w) /\ store' = [store EXCEPT ![w] = Storing(c)]
       ELSE UNCHANGED store
    /\ UNCHANGED <<hubVars, agent, diskVars, wire, csrs, faults, ghostVars>>

Writing == {w \in Writers : Busy(w) /\ store[w].step = "write"}

\* Mutant: the key in memory is encoded, not the one that was checked.
StoreSet_LatestKey(w) ==
    /\ Busy(w) /\ store[w].step = "set"
    /\ agent' = [agent EXCEPT !.pem = [cert |-> store[w].cert, key |-> agent.key,
                                       ca |-> store[w].ca]]
    /\ store' = [v \in Writers |->
                   IF v = w THEN [store[v] EXCEPT !.step = "write", !.alone = Writing = {}]
                   ELSE IF v \in Writing THEN [store[v] EXCEPT !.alone = FALSE]
                   ELSE store[v]]
    /\ UNCHANGED <<hubVars, diskVars, streamVars, faults, ghostVars>>

\* StoreCert's second critical section: certificate, key and CA at once.
StoreSet(w) ==
    /\ Busy(w) /\ store[w].step = "set"
    /\ agent' = [agent EXCEPT !.pem = [cert |-> store[w].cert, key |-> store[w].key,
                                       ca |-> store[w].ca]]
    /\ store' = [v \in Writers |->
                   IF v = w THEN [store[v] EXCEPT !.step = "write", !.alone = Writing = {}]
                   ELSE IF v \in Writing THEN [store[v] EXCEPT !.alone = FALSE]
                   ELSE store[v]]
    /\ UNCHANGED <<hubVars, diskVars, streamVars, faults, ghostVars>>

\* What the file f of a StoreCert call gets.
Content(w, f) == CASE f = "crt" -> store[w].cert
                   [] f = "key" -> store[w].key
                   [] f = "ca"  -> store[w].ca

\* Mutant: the key file is written only when there is none.
StoreWrite_KeepsKey(w, f) ==
    /\ w \in Writing /\ f \in store[w].left
    /\ disk' = IF f = "key" /\ disk[f] # None THEN disk
               ELSE [disk EXCEPT ![f] = Content(w, f)]
    /\ IF store[w].left = {f}
       THEN /\ store' = [store EXCEPT ![w] = None]
            /\ torn' = ~store[w].alone
            /\ ioError' = FALSE
       ELSE /\ store' = [store EXCEPT ![w].left = @ \ {f}]
            /\ UNCHANGED ghostVars
    /\ UNCHANGED <<hubVars, agent, conf, setup, streamVars, faults>>

\* One file of StoreCert's loop over a map: in any order.
StoreWrite(w, f) ==
    /\ w \in Writing /\ f \in store[w].left
    /\ disk' = [disk EXCEPT ![f] = Content(w, f)]
    /\ IF store[w].left = {f}
       THEN /\ store' = [store EXCEPT ![w] = None]
            /\ torn' = ~store[w].alone
            /\ ioError' = FALSE
       ELSE /\ store' = [store EXCEPT ![w].left = @ \ {f}]
            /\ UNCHANGED ghostVars
    /\ UNCHANGED <<hubVars, agent, conf, setup, streamVars, faults>>

\* A file cannot be written: StoreCert returns, the caller logs and goes on.
StoreError(w) ==
    /\ w \in Writing /\ Fault
    /\ store' = [store EXCEPT ![w] = None]
    /\ torn' = TRUE /\ ioError' = TRUE
    /\ UNCHANGED <<hubVars, agent, diskVars, streamVars>>

\* Six hours pass.
Older(c) == IF c = None THEN None ELSE [c EXCEPT !.age = IF @ = 2 THEN 2 ELSE @ + 1]
OlderIn(x) == IF x = None THEN None ELSE [x EXCEPT !.cert = Older(@)]

SixHours ==
    /\ agent' = [agent EXCEPT !.pem = OlderIn(@)]
    /\ disk' = [disk EXCEPT !.crt = Older(@)]
    /\ store' = [w \in Writers |-> OlderIn(store[w])]
    /\ resps' = {Older(c) : c \in resps}
    /\ wire' = IF wire # None /\ wire.kind = "ack" THEN OlderIn(wire) ELSE wire
    /\ UNCHANGED <<hubVars, conf, setup, csrs, faults, ghostVars>>

-----------------------------------------------------------------------------
Next ==
    \/ InitCA \/ generateAndSaveCA \/ HubCrash
    \/ \E s \in Ids : Install(s) \/ ExpireToken(s) \/ DeleteServer(s)
    \/ handleUnregisterRequest \/ selfCleanup
    \/ Start \/ Stop \/ AgentCrash \/ WaitOver \/ dialHub \/ Lose
    \/ sendRegister \/ handleRegister \/ registrationRejected \/ registered
    \/ OnRegistered \/ sendHeartbeatHandshake
    \/ RenewalTick
    \/ \E k \in Keys : handleCertRenewal(k)
    \/ \E c \in resps : handleCertRenewResponse(c)
    \/ \E w \in Writers : StoreSet(w) \/ StoreError(w) \/ \E f \in File : StoreWrite(w, f)
    \/ SixHours

Spec == Init /\ [][Next]_vars

\* The agent's loop, its goroutines and the hub's handlers keep running; a
\* hub that is down is not owed a start, nor a stopped agent.
FairSpec ==
    /\ Spec
    /\ WF_vars(generateAndSaveCA)
    /\ WF_vars(WaitOver) /\ WF_vars(dialHub) /\ WF_vars(hub.pc # "up" /\ Lose)
    /\ WF_vars(sendRegister) /\ WF_vars(handleRegister)
    /\ WF_vars(registrationRejected) /\ WF_vars(registered) /\ WF_vars(OnRegistered)
    /\ WF_vars(sendHeartbeatHandshake)
    /\ \A w \in Writers : WF_vars(StoreSet(w)) /\ WF_vars(\E f \in File : StoreWrite(w, f))

-----------------------------------------------------------------------------
\* The certificate and the key the agent presents belong together, although
\* every renewal tick replaces the key in memory while an earlier answer is
\* being stored (certs.go GenerateCSR and StoreCert).
IdentityIsWhole ==
    agent.pem # None =>
        /\ agent.pem.cert.key = agent.pem.key
        /\ agent.pem.cert.ca = agent.pem.ca

\* An agent that will start with a saved server id, and so never register
\* again, has an identity on disk: agent.conf is written after the three
\* files, whatever interrupts the process (main.go OnRegistered), unless one
\* of the files could not be written.
ConfigHasIdentity ==
    conf # None /\ ~ioError => \A f \in File : disk[f] # None

\* What a restart would load is what the running agent presents, once no
\* StoreCert is at work, unless one was interrupted or two overlapped
\* (certs.go StoreCert and loadFromDisk).
DiskFollowsMemory ==
    Running /\ agent.pem # None /\ ~torn /\ (\A w \in Writers : ~Busy(w)) =>
        /\ disk.crt = agent.pem.cert
        /\ disk.key = agent.pem.key
        /\ disk.ca = agent.pem.ca

\* A CA that has signed anything is the one every later start of the hub
\* loads, even after a crash between the two rows of the first start
\* (ca.go generateAndSaveCA).
CAIsStable ==
    \A c \in CertsAround : c.ca = db.caCert /\ c.ca = db.caKey

\* Why a running agent may never be served: its server is gone, its identity
\* has expired, is missing or is another server's, or the hub's CA is not the
\* one it was installed for.
Stranded ==
    \/ agent.id # 0 /\ db.row[agent.id] = "gone"
    \/ agent.pem # None /\ ~HandshakeOK(agent.pem)
    \/ agent.pem # None /\ agent.id # 0 /\ agent.pem.cert.cn # agent.id
    \/ agent.pem = None /\ (agent.id # 0 \/ ~HandshakeOK(None))

\* An agent that keeps running while the hub is up is served sooner or later,
\* gives up after three refused registrations, or is stranded
\* (client.go Run and connectAndStream).
ServedOrStranded ==
    []<>(~Running \/ hub.pc # "up" \/ agent.proc = "serve" \/ Stranded)
=============================================================================
