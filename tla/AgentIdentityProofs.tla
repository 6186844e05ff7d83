------------------------- MODULE AgentIdentityProofs -------------------------
(***************************************************************************)
(* Proofs about AgentIdentity, for any number of StoreCert calls at the    *)
(* same time, of keys, CAs, installations and faults: type correctness,    *)
(* the identity in memory is whole, agent.conf only exists beside an       *)
(* identity, the files follow the memory, and the hub keeps the CA that    *)
(* signed.                                                                 *)
(*                                                                         *)
(* None of them is inductive: what a StoreCert call will write was read    *)
(* steps before, what leads to agent.conf is the process's place in its    *)
(* loop, and what a restart of the hub loads are two rows written at       *)
(* different times.  IInv says what is true in between.                    *)
(***************************************************************************)
EXTENDS AgentIdentity, WellFoundedInduction, TLAPS

\* What the place of the process in its loop says of its id and its flags.
Process ==
    /\ Running /\ ~agent.cfg => setup # None
    /\ agent.cfg => agent.id # 0
    /\ ~Running => agent.id = 0
    /\ agent.proc \in {"register", "registering"} => agent.id = 0
    /\ agent.proc \in {"storing", "handshake", "serve"} => agent.id # 0
    /\ wire # None => agent.proc = "registering"
    /\ csrs # {} => agent.proc = "serve"
    /\ \A w \in Writers : Busy(w) => agent.id # 0

\* The hub serves with the CA of both rows, and a key is only ever stored
\* beside its own certificate.
HubCA ==
    /\ hub.pc = "up" => hub.ca # 0 /\ hub.ca = db.caCert /\ hub.ca = db.caKey
    /\ hub.pc = "saving" => hub.ca # 0 /\ hub.ca = db.caCert /\ db.caKey = 0
    /\ db.caKey # 0 => db.caCert = db.caKey

\* CAIsStable, place by place.
BySavedCA(c) == c.ca = db.caCert /\ c.ca = db.caKey
Signed ==
    /\ \A c \in resps : BySavedCA(c)
    /\ disk.crt # None => BySavedCA(disk.crt)
    /\ agent.pem # None => BySavedCA(agent.pem.cert)
    /\ \A w \in Writers : Busy(w) => BySavedCA(store[w].cert)
    /\ wire # None /\ wire.kind = "ack" => BySavedCA(wire.cert)

\* A StoreCert call has a certificate with its key and its CA, whatever
\* happened to the key in memory since.
StoredIsWhole ==
    \A w \in Writers : Busy(w) =>
        store[w].cert.key = store[w].key /\ store[w].cert.ca = store[w].ca

AllFiles == \A f \in File : disk[f] # None

\* How the three files come to be there: no call forgets a file, the call of
\* a registration ends before agent.conf can be written, and what may lead
\* to an agent.conf has them.
Files ==
    /\ \A w \in Writers : Busy(w) => \A f \in File \ store[w].left : disk[f] # None
    /\ \A w \in Writers : Busy(w) /\ store[w].step = "set" => store[w].left = File
    /\ agent.proc = "storing" /\ ~ioError => AllFiles \/ \E w \in Writers : Busy(w)
    /\ conf # None \/ (agent.id # 0 /\ agent.proc # "storing") => ioError \/ AllFiles

\* The files F of the directory d have what the agent with p presents.
Follows(d, p, F) == \A f \in F : d[f] = (CASE f = "crt" -> p.cert
                                            [] f = "key" -> p.key
                                            [] f = "ca"  -> p.ca)

\* A call that writes alone is the last that set the memory, and what it has
\* written is what it set.
Following ==
    /\ Running /\ agent.pem # None /\ ~torn /\ Writing = {} => Follows(disk, agent.pem, File)
    /\ \A w \in Writing : store[w].alone =>
          /\ Writing = {w} /\ agent.pem # None
          /\ agent.pem = [cert |-> store[w].cert, key |-> store[w].key, ca |-> store[w].ca]
          /\ Follows(disk, agent.pem, File \ store[w].left)

IInv == /\ TypeOK /\ Process /\ HubCA /\ Signed
        /\ IdentityIsWhole /\ StoredIsWhole /\ Files /\ Following

\* A set of numbers that is not empty has a least element: what GenerateCA and
\* GenerateCSR return is new.
LEMMA LeastIsIn == ASSUME NEW S, S \subseteq Nat, S # {} PROVE Least(S) \in S
<1>1. IsWellFoundedOn(OpToRel(<, Nat), Nat)
  BY NatLessThanWellFounded
<1>2. PICK x \in S : \A y \in S : ~(<<y, x>> \in OpToRel(<, Nat))
  BY <1>1, WFMin, Zenon
<1>3. ASSUME NEW y \in S PROVE x <= y
  <2>1. x \in Nat /\ y \in Nat
    OBVIOUS
  <2>2. ~(y < x)
    BY <1>2, <2>1, Zenon DEF OpToRel
  <2> QED
    BY <2>1, <2>2
<1> QED
  BY <1>3 DEF Least

\* A dead agent is a state of the agent.
LEMMA DeadType == Dead \in AgentState
  BY IdentityAssumption DEF Dead, AgentState

\* A fresh hub and a host without an agent satisfy the inductive invariant.
LEMMA InitIInv == Init => IInv
<1> SUFFICES ASSUME Init PROVE IInv
  OBVIOUS
<1> USE IdentityAssumption DEF Init, NoStore
<1>1. TypeOK
  <2>1. db \in Database
    BY DEF Database
  <2>2. /\ disk.crt = None /\ disk.key = None /\ disk.ca = None
        /\ disk \in [File -> Cert \cup Keys \cup CAs \cup {None}]
        /\ store \in [Writers -> StoreCall \cup {None}]
    BY DEF File
  <2>3. hub \in [pc : {"down", "saving", "up"}, ca : {0} \cup CAs] /\ faults \in 0..MaxFaults
    OBVIOUS
  <2>4. agent \in AgentState
    BY DeadType
  <2> QED
    BY <2>1, <2>2, <2>3, <2>4, Zenon DEF TypeOK, Init
<1>2. Process /\ HubCA
  BY DEF Process, HubCA, Dead, Running, Busy
<1>3. Signed /\ IdentityIsWhole /\ StoredIsWhole
  BY DEF Signed, IdentityIsWhole, StoredIsWhole, Busy, Dead, File
<1>4. Files /\ Following
  BY DEF Files, Following, AllFiles, Busy, Dead, Running, Writing
<1> QED
  BY <1>1, <1>2, <1>3, <1>4 DEF IInv

-----------------------------------------------------------------------------
(* Steps of the same kind                                                  *)

\* Steps of the hub that leave the agent, its files and its messages alone.
LEMMA HubMoves ==
    ASSUME IInv, UNCHANGED <<agent, disk, conf, setup, wire, csrs, resps, store, torn, ioError>>,
           hub' \in [pc : {"down", "saving", "up"}, ca : {0} \cup CAs],
           db' \in Database, faults' \in 0..MaxFaults, HubCA',
           \/ db'.caCert = db.caCert /\ db'.caKey = db.caKey
           \/ db.caKey = 0
    PROVE  IInv'
<1> USE DEF IInv
<1>1. TypeOK' /\ Process'
  BY DEF TypeOK, Process, Running, Busy
<1>2. IdentityIsWhole' /\ StoredIsWhole' /\ Files'
  BY DEF IdentityIsWhole, StoredIsWhole, Files, AllFiles, Busy
<1>3. Following'
  BY DEF Following, Running, Busy, Writing
<1>4. Signed'
  <2>1. CASE db'.caCert = db.caCert /\ db'.caKey = db.caKey
    BY <2>1 DEF Signed, BySavedCA, Busy
  <2>2. CASE db.caKey = 0
    <3>1. \A c \in Cert : ~BySavedCA(c)
      BY <2>2, IdentityAssumption DEF BySavedCA, Cert, CAs
    <3>2. resps = {} /\ disk.crt = None /\ agent.pem = None
      BY <3>1 DEF Signed, TypeOK, AgentState, Pem
    <3>3. \A w \in Writers : ~Busy(w)
      BY <3>1 DEF Signed, TypeOK, StoreCall, Busy
    <3>4. ~(wire # None /\ wire.kind = "ack")
      <4> SUFFICES ASSUME wire # None, wire.kind = "ack" PROVE FALSE
        OBVIOUS
      <4>1. wire \in Message
        BY DEF TypeOK
      <4>2. wire \in [kind : {"ack"}, cert : Cert]
        BY <4>1 DEF Message
      <4> QED
        BY <3>1, <4>2 DEF Signed
    <3> QED
      BY <3>2, <3>3, <3>4 DEF Signed, Busy
  <2> QED
    BY <2>1, <2>2
<1> QED
  BY <1>1, <1>2, <1>3, <1>4

\* The end of the process, whoever brings it about.
LEMMA EndKeeps ==
    ASSUME IInv, ProcessEnds, UNCHANGED <<hub, disk, ioError>>,
           db' \in Database, db'.caCert = db.caCert, db'.caKey = db.caKey,
           conf' = None \/ conf' \in [id : Ids, pin : CAs],
           setup' = None \/ setup' \in [token : Ids, pin : CAs],
           conf' # None => ioError \/ AllFiles,
           faults' \in 0..MaxFaults
    PROVE  IInv'
<1> USE DEF IInv, ProcessEnds, NoStore
<1>1. TypeOK'
  BY DeadType DEF TypeOK
<1>2. Process' /\ HubCA'
  BY DEF Process, HubCA, Running, Busy, Dead
<1>3. Signed' /\ IdentityIsWhole' /\ StoredIsWhole'
  BY DEF Signed, BySavedCA, IdentityIsWhole, StoredIsWhole, Busy, Dead
<1>4. Files' /\ Following'
  BY DEF Files, Following, AllFiles, Running, Busy, Writing, Dead
<1> QED
  BY <1>1, <1>2, <1>3, <1>4

\* Steps of the agent's loop that neither load nor store a certificate.
LEMMA AgentMoves ==
    ASSUME IInv, Running, UNCHANGED <<hub, disk, setup, store, torn, ioError>>,
           agent' \in AgentState, agent'.pem = agent.pem, agent'.proc # "storing",
           db' \in Database, db'.caCert = db.caCert, db'.caKey = db.caKey,
           conf' = None \/ conf' \in [id : Ids, pin : CAs],
           conf' # None \/ agent'.id # 0 => ioError \/ AllFiles,
           csrs' \subseteq Keys, resps' \subseteq resps,
           wire' # None => wire' \in Message /\ wire'.kind # "ack",
           faults' \in 0..MaxFaults, Process'
    PROVE  IInv'
<1> USE DEF IInv
<1>1. TypeOK'
  BY DEF TypeOK
<1>2. HubCA'
  BY DEF HubCA
<1>3. Signed' /\ IdentityIsWhole' /\ StoredIsWhole'
  BY DEF Signed, BySavedCA, IdentityIsWhole, StoredIsWhole, Busy
<1>4. Files'
  BY DEF Files, AllFiles, Busy
<1>5. Following'
  BY DEF Following, Running, Busy, Writing
<1> QED
  BY <1>1, <1>2, <1>3, <1>4, <1>5

\* An error of connectAndStream outside a StoreCert that it waits for; the
\* process only ends with errors of a registration, before it has an id.
LEMMA FailedKeeps ==
    ASSUME IInv, NEW registration \in BOOLEAN, Failed(registration),
           agent.proc \in {"dial"} \cup InStream, registration => agent.id = 0,
           UNCHANGED <<hub, db, disk, conf, setup, store, torn, ioError>>,
           faults' \in 0..MaxFaults
    PROVE  IInv'
<1> USE DEF IInv
<1>1. agent \in AgentState /\ Running
  BY DEF TypeOK, Running, InStream
<1>2. wire' = None /\ csrs' = {} /\ resps' = {}
  BY DEF Failed
<1>3. CASE registration /\ agent.regFailures = 2
  <2>1. agent' = [Dead EXCEPT !.proc = "exited"]
    BY <1>3 DEF Failed
  <2>2. /\ agent' \in AgentState /\ agent'.id = 0 /\ agent'.pem = None
        /\ agent'.proc = "exited" /\ ~agent'.cfg
    <3>1. agent' \in AgentState
      BY <2>1, DeadType DEF AgentState
    <3>2. /\ agent'.id = 0 /\ agent'.pem = None
          /\ agent'.proc = "exited" /\ ~agent'.cfg
      BY <2>1 DEF Dead
    <3> QED
      BY <3>1, <3>2
  <2>3. \A w \in Writers : ~Busy(w)
    BY <1>3 DEF Process
  <2>4. TypeOK' /\ HubCA'
    BY <1>2, <2>2 DEF TypeOK, HubCA
  <2>5. Process'
    BY <1>2, <2>2, <2>3 DEF Process, Running, Busy
  <2>6. Signed' /\ IdentityIsWhole' /\ StoredIsWhole'
    BY <1>2, <2>2, <2>3 DEF Signed, BySavedCA, IdentityIsWhole, StoredIsWhole, Busy
  <2>7. Files' /\ Following'
    BY <2>2, <2>3 DEF Files, Following, AllFiles, Running, Busy, Writing
  <2> QED
    BY <2>4, <2>5, <2>6, <2>7
<1>4. CASE ~(registration /\ agent.regFailures = 2)
  <2>1. agent' = [agent EXCEPT !.proc = "wait", !.peer = 0,
                               !.regFailures = IF registration THEN @ + 1 ELSE 0,
                               !.backoff = nextBackoff(@)]
    BY <1>4 DEF Failed
  <2>2. nextBackoff(agent.backoff) \in 1..MaxBackoff
    BY <1>1, IdentityAssumption DEF nextBackoff, AgentState
  <2>3. (IF registration THEN agent.regFailures + 1 ELSE 0) \in 0..2
    BY <1>1, <1>4 DEF AgentState
  <2>4. agent' \in AgentState
    BY <1>1, <2>1, <2>2, <2>3 DEF AgentState
  <2>5. /\ agent'.proc = "wait" /\ agent'.pem = agent.pem
        /\ agent'.id = agent.id /\ agent'.cfg = agent.cfg
    BY <1>1, <2>1 DEF AgentState
  <2>6. Process'
    BY <1>1, <1>2, <2>5 DEF Process, Running, Busy
  <2>7. conf' # None \/ agent'.id # 0 => ioError \/ AllFiles
    BY <2>5 DEF Files, InStream
  <2>8. db' \in Database /\ (conf' = None \/ conf' \in [id : Ids, pin : CAs])
    BY DEF TypeOK
  <2> QED
    BY <1>1, <1>2, <2>4, <2>5, <2>6, <2>7, <2>8, AgentMoves
<1> QED
  BY <1>3, <1>4

\* StoreCert begins: the certificate matches the key it was checked against.
LEMMA StoreBegins ==
    ASSUME IInv, NEW w \in Writers, ~Busy(w), NEW c \in Cert, BySavedCA(c),
           verifyCertMatchesKey(c, agent.key),
           store' = [store EXCEPT ![w] = Storing(c)],
           UNCHANGED <<hub, db, disk, conf, setup, csrs, faults, torn, ioError>>,
           agent' \in AgentState, agent'.pem = agent.pem,
           Running, agent'.proc = "storing" \/ UNCHANGED agent,
           resps' \subseteq resps, wire' = None, Process'
    PROVE  IInv'
<1> USE IdentityAssumption DEF IInv
<1> DEFINE call == Storing(c)
<1>1. /\ call \in StoreCall /\ call # None /\ call.cert = c /\ call.key = c.key /\ call.ca = c.ca
      /\ call.step = "set" /\ call.left = File
  <2>1. agent.key = c.key /\ c.key \in Keys /\ c.ca \in CAs
    BY DEF Cert, verifyCertMatchesKey
  <2>2. call = [step |-> "set", cert |-> c, key |-> c.key, ca |-> c.ca, left |-> File, alone |-> TRUE]
    BY <2>1 DEF Storing
  <2>3. call \in StoreCall
    BY <2>1, <2>2 DEF StoreCall
  <2>4. call # None
    BY <2>3
  <2> QED
    BY <2>2, <2>3, <2>4
<1> HIDE DEF call
<1>2. /\ store'[w] = call
      /\ \A v \in Writers \ {w} : store'[v] = store[v]
      /\ store' \in [Writers -> StoreCall \cup {None}]
  BY <1>1 DEF TypeOK, call
<1>3. TypeOK'
  BY <1>2 DEF TypeOK
<1>4. HubCA' /\ IdentityIsWhole'
  BY DEF HubCA, IdentityIsWhole
<1>5. Signed' /\ StoredIsWhole'
  BY <1>1, <1>2 DEF Signed, StoredIsWhole, BySavedCA, Busy
<1>6. Files'
  BY <1>1, <1>2 DEF Files, AllFiles, Busy
<1>7. Following'
  <2>1. Writing' = Writing /\ \A v \in Writing : store'[v] = store[v]
    BY <1>1, <1>2 DEF Writing, Busy
  <2> QED
    BY <2>1 DEF Following
<1> QED
  BY <1>3, <1>4, <1>5, <1>6, <1>7

\* A certificate that gets older stays a certificate of its key and its CA.
LEMMA OlderKeeps ==
    ASSUME NEW c \in Cert
    PROVE  Older(c) \in Cert /\ Older(c).key = c.key /\ Older(c).ca = c.ca
<1>1. c # None /\ Older(c) = [c EXCEPT !.age = IF @ = 2 THEN 2 ELSE @ + 1]
  BY IdentityAssumption DEF Older
<1>2. (IF c.age = 2 THEN 2 ELSE c.age + 1) \in 0..2
  BY DEF Cert
<1> QED
  BY <1>1, <1>2 DEF Cert


-----------------------------------------------------------------------------
\* Every step of hub, host, agent and time keeps the inductive invariant.
LEMMA StepIInv == IInv /\ [Next]_vars => IInv'
<1> SUFFICES ASSUME IInv, [Next]_vars PROVE IInv'
  OBVIOUS
<1> USE IdentityAssumption DEF IInv
<1>a. /\ db \in Database /\ agent \in AgentState /\ faults \in 0..MaxFaults
      /\ conf = None \/ conf \in [id : Ids, pin : CAs]
      /\ setup = None \/ setup \in [token : Ids, pin : CAs]
      /\ hub \in [pc : {"down", "saving", "up"}, ca : {0} \cup CAs]
  BY DEF TypeOK
<1>b. conf # None => ioError \/ AllFiles
  BY DEF Files
<1>c. agent.id # 0 /\ agent.proc # "storing" => ioError \/ AllFiles
  BY DEF Files
<1>1. ASSUME InitCA PROVE IInv'
  <2>1. CASE db.caCert # 0 /\ db.caKey # 0
    <3>1. hub' = [pc |-> "up", ca |-> db.caKey] /\ UNCHANGED db
      BY <1>1, <2>1 DEF InitCA, loadExistingCA
    <3>2. HubCA'
      BY <2>1, <3>1 DEF HubCA
    <3>3. hub' \in [pc : {"down", "saving", "up"}, ca : {0} \cup CAs]
      BY <1>a, <3>1 DEF Database
    <3> QED
      BY <1>1, <1>a, <3>1, <3>2, <3>3, HubMoves DEF InitCA, diskVars, streamVars, ghostVars
  <2>2. CASE ~(db.caCert # 0 /\ db.caKey # 0)
    <3> DEFINE new == Least(CAs \ CAsInUse)
    <3>1. /\ CAs \ CAsInUse # {}
          /\ hub' = [pc |-> "saving", ca |-> new] /\ db' = [db EXCEPT !.caCert = new]
      BY <1>1, <2>2 DEF InitCA, GenerateCA
    <3>2. new \in CAs /\ new # 0
      BY <3>1, LeastIsIn DEF CAs
    <3> HIDE DEF new
    <3>3. db.caKey = 0
      BY <2>2 DEF HubCA
    <3>4. db' \in Database /\ db'.caCert = new /\ db'.caKey = 0
      BY <1>a, <3>1, <3>2, <3>3 DEF Database
    <3>5. HubCA'
      BY <3>1, <3>2, <3>4 DEF HubCA
    <3>6. hub' \in [pc : {"down", "saving", "up"}, ca : {0} \cup CAs]
      BY <3>1, <3>2
    <3> QED
      BY <1>1, <1>a, <3>3, <3>4, <3>5, <3>6, HubMoves DEF InitCA, diskVars, streamVars, ghostVars
  <2> QED
    BY <2>1, <2>2
<1>2. ASSUME generateAndSaveCA PROVE IInv'
  <2>1. db' = [db EXCEPT !.caKey = hub.ca] /\ hub' = [hub EXCEPT !.pc = "up"] /\ hub.pc = "saving"
    BY <1>2 DEF generateAndSaveCA
  <2>2. hub.ca # 0 /\ hub.ca = db.caCert /\ db.caKey = 0
    BY <2>1 DEF HubCA
  <2>3. db' \in Database /\ db'.caKey = hub.ca /\ db'.caCert = db.caCert
    BY <1>a, <2>1 DEF Database
  <2>4. hub' \in [pc : {"down", "saving", "up"}, ca : {0} \cup CAs] /\ hub'.ca = hub.ca /\ hub'.pc = "up"
    BY <1>a, <2>1
  <2>5. HubCA'
    BY <2>2, <2>3, <2>4 DEF HubCA
  <2> QED
    BY <1>2, <1>a, <2>2, <2>3, <2>4, <2>5, HubMoves DEF generateAndSaveCA, diskVars, streamVars, ghostVars
<1>3. ASSUME HubCrash PROVE IInv'
  <2>1. faults' \in 0..MaxFaults
    BY <1>3, <1>a DEF HubCrash, Fault
  <2>2. hub' = [pc |-> "down", ca |-> 0] /\ UNCHANGED db
    BY <1>3 DEF HubCrash
  <2>3. HubCA'
    BY <2>2 DEF HubCA
  <2> QED
    BY <1>3, <1>a, <2>1, <2>2, <2>3, HubMoves DEF HubCrash, diskVars, streamVars, ghostVars
<1>4. ASSUME NEW s \in Ids, Install(s) PROVE IInv'
  <2>1. PICK reached \in BOOLEAN :
          db' = [db EXCEPT !.row = runSelfUnregister([db.row EXCEPT ![s] = "pending"], reached)]
    BY <1>4 DEF Install
  <2>2. runSelfUnregister([db.row EXCEPT ![s] = "pending"], reached)
          \in [Ids -> {"none", "pending", "expired", "active", "gone"}]
    BY <1>a DEF runSelfUnregister, SelfUnregister, Database
  <2>3. db' \in Database /\ db'.caCert = db.caCert /\ db'.caKey = db.caKey
    BY <1>a, <2>1, <2>2 DEF Database
  <2>4. hub.ca \in CAs
    BY <1>4, <1>a DEF Install, HubCA
  <2>5. setup' \in [token : Ids, pin : CAs] /\ conf' = None
    BY <1>4, <2>4 DEF Install
  <2> QED
    BY <1>4, <1>a, <2>3, <2>5, EndKeeps DEF Install
<1>5. ASSUME NEW s \in Ids, ExpireToken(s) PROVE IInv'
  <2>1. db' \in Database /\ db'.caCert = db.caCert /\ db'.caKey = db.caKey
    BY <1>5, <1>a DEF ExpireToken, Database
  <2>2. HubCA'
    BY <1>5, <2>1 DEF ExpireToken, HubCA
  <2> QED
    BY <1>5, <1>a, <2>1, <2>2, HubMoves DEF ExpireToken, diskVars, streamVars, ghostVars
<1>6. ASSUME NEW s \in Ids, DeleteServer(s) PROVE IInv'
  <2>1. db' \in Database /\ db'.caCert = db.caCert /\ db'.caKey = db.caKey
    BY <1>6, <1>a DEF DeleteServer, Database
  <2>2. HubCA'
    BY <1>6, <2>1 DEF DeleteServer, HubCA
  <2> QED
    BY <1>6, <1>a, <2>1, <2>2, HubMoves DEF DeleteServer, diskVars, streamVars, ghostVars
<1>7. ASSUME handleUnregisterRequest PROVE IInv'
  <2>1. db' \in Database /\ db'.caCert = db.caCert /\ db'.caKey = db.caKey
    BY <1>7, <1>a DEF handleUnregisterRequest, Database
  <2>2. agent' = agent \/ agent' = [agent EXCEPT !.cleaning = TRUE]
    BY <1>7 DEF handleUnregisterRequest
  <2>3. /\ agent' \in AgentState /\ agent'.pem = agent.pem /\ agent'.proc = agent.proc
        /\ agent'.id = agent.id /\ agent'.cfg = agent.cfg
    BY <1>a, <2>2 DEF AgentState
  <2>4. Running /\ agent.proc = "serve"
    BY <1>7 DEF handleUnregisterRequest, Running
  <2>5. Process'
    BY <1>7, <2>3 DEF handleUnregisterRequest, Process, Running, Busy, diskVars, streamVars
  <2>6. wire = None /\ csrs \subseteq Keys
    BY <2>4 DEF Process, TypeOK
  <2> QED
    BY <1>7, <1>a, <1>b, <1>c, <2>1, <2>3, <2>4, <2>5, <2>6, AgentMoves
    DEF handleUnregisterRequest, diskVars, streamVars, ghostVars
<1>8. ASSUME selfCleanup PROVE IInv'
  <2> USE <1>8 DEF selfCleanup, hubVars, NoStore
  <2>1. TypeOK'
    BY DeadType DEF TypeOK, File
  <2>2. Process' /\ HubCA'
    BY DEF Process, HubCA, Running, Busy, Dead
  <2>3. Signed' /\ IdentityIsWhole' /\ StoredIsWhole'
    <3>1. disk'.crt = None
      BY DEF File
    <3> QED
      BY <3>1 DEF Signed, IdentityIsWhole, StoredIsWhole, Busy, Dead
  <2>4. Files' /\ Following'
    BY DEF Files, Following, AllFiles, Running, Busy, Writing, Dead
  <2> QED
    BY <2>1, <2>2, <2>3, <2>4, Zenon
<1>9. ASSUME Start PROVE IInv'
  <2> DEFINE pem == IF DiskLoads THEN [cert |-> disk.crt, key |-> disk.key, ca |-> disk.ca] ELSE None
  <2>1. agent' = [Dead EXCEPT !.proc = "dial", !.cfg = conf # None, !.id = resolveConfig,
                              !.key = IF DiskLoads THEN disk.key ELSE 0, !.pem = pem]
    BY <1>9 DEF Start
  <2>2. UNCHANGED <<hub, db, disk, conf, setup, wire, csrs, resps, store, faults, torn, ioError>>
    BY <1>9 DEF Start, hubVars, diskVars, streamVars, ghostVars
  <2>3. ~Running /\ (conf # None \/ setup # None)
    BY <1>9 DEF Start
  <2>4. \A w \in Writers : ~Busy(w)
    BY <2>3 DEF Process
  <2>5. DiskLoads => /\ disk.crt \in Cert /\ disk.key \in Keys /\ disk.ca \in CAs
                     /\ disk.crt.key = disk.key /\ disk.crt.ca = disk.ca /\ disk.crt # None
    BY DEF DiskLoads, File, TypeOK, CheckSignatureFrom, verifyCertMatchesKey
  <2>6. pem \in Pem \cup {None}
    BY <2>5 DEF Pem
  <2>7. resolveConfig \in {0} \cup Ids /\ (conf # None <=> resolveConfig # 0)
    BY <1>a DEF resolveConfig, Ids
  <2>8. agent' \in AgentState
    <3> DEFINE key == IF DiskLoads THEN disk.key ELSE 0
    <3>1. key \in {0} \cup Keys
      BY <2>5
    <3>2. (conf # None) \in BOOLEAN /\ 0 \in 0..2 /\ 1 \in 1..MaxBackoff
      OBVIOUS
    <3> HIDE DEF pem, key
    <3>3. agent' = [proc |-> "dial", id |-> resolveConfig, cfg |-> conf # None, key |-> key,
                    pem |-> pem, peer |-> 0, regFailures |-> 0, backoff |-> 1, cleaning |-> FALSE]
      BY <2>1 DEF Dead, key
    <3> QED
      BY <2>6, <2>7, <3>1, <3>2, <3>3 DEF AgentState
  <2>9. /\ agent'.proc = "dial" /\ agent'.cfg = (conf # None) /\ agent'.id = resolveConfig
        /\ agent'.pem = pem
    BY <2>1 DEF Dead
  <2>10. TypeOK' /\ HubCA'
    BY <2>2, <2>8 DEF TypeOK, HubCA
  <2>11. Process'
    <3>1. csrs = {} /\ wire = None
      BY <2>3 DEF Process, Running
    <3> QED
      BY <2>2, <2>3, <2>4, <2>7, <2>9, <3>1 DEF Process, Running, Busy
  <2>12. Signed' /\ IdentityIsWhole' /\ StoredIsWhole'
    <3>1. IdentityIsWhole'
      BY <2>5, <2>9 DEF IdentityIsWhole
    <3>2. Signed' /\ StoredIsWhole'
      BY <2>2, <2>4, <2>5, <2>9 DEF Signed, StoredIsWhole, BySavedCA, Busy
    <3> QED
      BY <3>1, <3>2
  <2>13. Files'
    BY <1>b, <2>2, <2>4, <2>7, <2>9 DEF Files, AllFiles, Busy
  <2>14. Following'
    <3>1. Writing' = {}
      BY <2>2, <2>4 DEF Writing, Busy
    <3>2. ASSUME pem # None PROVE Follows(disk', agent'.pem, File)
      BY <2>2, <2>9, <3>2 DEF Follows, File
    <3> QED
      BY <2>9, <3>1, <3>2 DEF Following
  <2> QED
    BY <2>10, <2>11, <2>12, <2>13, <2>14, Zenon
<1>10. ASSUME Stop PROVE IInv'
  <2>1. conf' = IF ~agent.cfg /\ agent.id # 0 THEN [id |-> agent.id, pin |-> setup.pin] ELSE conf
    BY <1>10 DEF Stop, saveNewConfig
  <2>2. ~agent.cfg => setup # None
    BY <1>10 DEF Stop, Process
  <2>3. conf' = None \/ conf' \in [id : Ids, pin : CAs]
    BY <1>a, <2>1, <2>2 DEF AgentState
  <2>4. conf' # None => ioError \/ AllFiles
    BY <1>10, <1>b, <1>c, <2>1 DEF Stop
  <2> QED
    BY <1>10, <1>a, <2>3, <2>4, EndKeeps DEF Stop, hubVars
<1>11. ASSUME AgentCrash PROVE IInv'
  <2>1. faults' \in 0..MaxFaults
    BY <1>11, <1>a DEF AgentCrash, Fault
  <2> QED
    BY <1>11, <1>a, <1>b, <2>1, EndKeeps DEF AgentCrash, hubVars, diskVars
<1>12. ASSUME WaitOver PROVE IInv'
  <2>1. agent' = [agent EXCEPT !.proc = "dial"] /\ agent.proc = "wait"
    BY <1>12 DEF WaitOver
  <2>2. UNCHANGED <<hub, db, disk, conf, setup, wire, csrs, resps, store, faults, torn, ioError>>
    BY <1>12 DEF WaitOver, hubVars, diskVars, streamVars, ghostVars
  <2>3. /\ agent' \in AgentState /\ agent'.pem = agent.pem /\ agent'.proc = "dial"
        /\ agent'.id = agent.id /\ agent'.cfg = agent.cfg /\ Running
    BY <1>a, <2>1 DEF AgentState, Running
  <2>4. wire = None /\ csrs = {}
    BY <2>1 DEF Process
  <2>5. Process'
    BY <2>1, <2>2, <2>3, <2>4 DEF Process, Running, Busy
  <2> QED
    BY <1>a, <1>b, <1>c, <2>1, <2>2, <2>3, <2>4, <2>5, AgentMoves
<1>13. ASSUME dialHub PROVE IInv'
  <2>1. /\ UNCHANGED <<hub, db, disk, conf, setup, store, faults, torn, ioError>>
        /\ agent.proc = "dial"
    BY <1>13 DEF dialHub, hubVars, diskVars, ghostVars
  <2>2. CASE ~HandshakeOK(agent.pem)
    <3>1. Failed(FALSE)
      BY <1>13, <2>2 DEF dialHub
    <3> QED
      BY <1>a, <2>1, <3>1, FailedKeeps
  <2>3. CASE HandshakeOK(agent.pem)
    <3> DEFINE peer == IF agent.pem = None THEN 0 ELSE agent.pem.cert.cn
    <3>1. /\ agent' = [agent EXCEPT !.proc = registerOrHandshake, !.peer = peer]
          /\ UNCHANGED <<wire, csrs, resps>>
      BY <1>13, <2>3 DEF dialHub, streamVars
    <3>2. peer \in {0} \cup Ids
      BY <1>a DEF AgentState, Pem, Cert
    <3> HIDE DEF peer
    <3>3. /\ agent' \in AgentState /\ agent'.pem = agent.pem
          /\ agent'.proc = IF agent.id = 0 THEN "register" ELSE "handshake"
          /\ agent'.id = agent.id /\ agent'.cfg = agent.cfg
      BY <1>a, <3>1, <3>2 DEF AgentState, registerOrHandshake, InStream
    <3>4. wire = None /\ csrs = {} /\ Running
      BY <2>1 DEF Process, Running
    <3>5. Process'
      BY <2>1, <3>1, <3>3, <3>4 DEF Process, Running, Busy
    <3> QED
      BY <1>a, <1>b, <1>c, <2>1, <3>1, <3>3, <3>4, <3>5, AgentMoves
  <2> QED
    BY <2>2, <2>3
<1>14. ASSUME Lose PROVE IInv'
  <2>1. faults' \in 0..MaxFaults
    BY <1>14, <1>a DEF Lose, Fault
  <2> QED
    BY <1>14, <2>1, FailedKeeps DEF Lose, hubVars, diskVars, ghostVars
<1>15. ASSUME sendRegister PROVE IInv'
  <2> DEFINE k == GenerateCSR
  <2>1. /\ agent' = [agent EXCEPT !.proc = "registering", !.key = k] /\ agent.proc = "register"
        /\ wire' = [kind |-> "register", key |-> k] /\ CanGenerate
    BY <1>15 DEF sendRegister
  <2>2. UNCHANGED <<hub, db, disk, conf, setup, csrs, resps, store, faults, torn, ioError>>
    BY <1>15 DEF sendRegister, hubVars, diskVars, ghostVars
  <2>3. k \in Keys
    BY <2>1, LeastIsIn DEF CanGenerate, GenerateCSR, Keys
  <2> HIDE DEF k
  <2>4. /\ agent' \in AgentState /\ agent'.pem = agent.pem /\ agent'.proc = "registering"
        /\ agent'.id = agent.id /\ agent'.cfg = agent.cfg
    BY <1>a, <2>1, <2>3 DEF AgentState, InStream
  <2>5. csrs = {} /\ Running /\ agent.id = 0
    BY <2>1 DEF Process, Running
  <2>6. Process'
    BY <2>1, <2>2, <2>4, <2>5 DEF Process, Running, Busy
  <2>7. wire' \in Message /\ wire'.kind # "ack"
    BY <2>1, <2>3 DEF Message
  <2> QED
    BY <1>a, <1>b, <2>1, <2>2, <2>4, <2>5, <2>6, <2>7, AgentMoves
<1>16. ASSUME handleRegister PROVE IInv'
  <2>1. /\ UNCHANGED <<hub, agent, disk, conf, setup, csrs, resps, store, faults, torn, ioError>>
        /\ hub.pc = "up" /\ wire # None /\ wire.kind = "register"
    BY <1>16 DEF handleRegister, diskVars, ghostVars
  <2>2. wire.key \in Keys
    BY <2>1 DEF TypeOK, Message
  <2>3. hub.ca \in CAs /\ hub.ca = db.caCert /\ hub.ca = db.caKey
    BY <1>a, <2>1 DEF HubCA
  <2>4. setup.token \in Ids
    <3>1. setup # None
      BY <2>1 DEF Process, Running
    <3> QED
      BY <1>a, <3>1
  <2>5. /\ db' \in Database /\ db'.caCert = db.caCert /\ db'.caKey = db.caKey
        /\ wire' \in Message /\ (wire'.kind = "ack" => wire'.cert.ca = hub.ca)
    <3>1. CASE db.row[setup.token] = "pending"
      <4> DEFINE c == issueRegistrationCertificate(setup.token)
      <4>1. db' = [db EXCEPT !.row[setup.token] = "active"] /\ wire' = [kind |-> "ack", cert |-> c]
        BY <1>16, <3>1 DEF handleRegister
      <4>2. c \in Cert /\ c.ca = hub.ca
        BY <2>2, <2>3, <2>4 DEF issueRegistrationCertificate, SignCSR, Cert
      <4> HIDE DEF c
      <4>3. db' \in Database /\ db'.caCert = db.caCert /\ db'.caKey = db.caKey
        BY <1>a, <2>4, <4>1 DEF Database
      <4> QED
        BY <4>1, <4>2, <4>3 DEF Message
    <3>2. CASE db.row[setup.token] # "pending"
      <4>1. wire' = [kind |-> "refused"] /\ UNCHANGED db
        BY <1>16, <3>2 DEF handleRegister
      <4> QED
        BY <1>a, <4>1 DEF Message
    <3> QED
      BY <3>1, <3>2
  <2>6. TypeOK' /\ HubCA'
    BY <2>1, <2>5 DEF TypeOK, HubCA
  <2>7. Process'
    BY <2>1 DEF Process, Running, Busy
  <2>8. IdentityIsWhole' /\ StoredIsWhole' /\ Files'
    BY <2>1 DEF IdentityIsWhole, StoredIsWhole, Files, AllFiles, Busy
  <2>9. Following'
    BY <2>1 DEF Following, Running, Busy, Writing
  <2>10. Signed'
    BY <2>1, <2>3, <2>5 DEF Signed, BySavedCA, Busy
  <2> QED
    BY <2>6, <2>7, <2>8, <2>9, <2>10, Zenon
<1>17. ASSUME registrationRejected PROVE IInv'
  <2>1. agent.proc = "registering" /\ agent.id = 0
    BY <1>17 DEF registrationRejected, Process
  <2> QED
    BY <1>17, <1>a, <2>1, FailedKeeps
    DEF registrationRejected, hubVars, diskVars, ghostVars, InStream
<1>18. ASSUME registered PROVE IInv'
  <2>1. /\ UNCHANGED <<hub, db, disk, conf, setup, csrs, resps, faults, torn, ioError>>
        /\ agent.proc = "registering" /\ wire # None /\ wire.kind = "ack" /\ wire' = None
        /\ verifyCertMatchesKey(wire.cert, agent.key)
        /\ agent' = [agent EXCEPT !.proc = "storing", !.id = wire.cert.cn]
    BY <1>18 DEF registered, hubVars, diskVars, ghostVars
  <2>2. PICK w \in Writers : ~Busy(w) /\ store' = [store EXCEPT ![w] = Storing(wire.cert)]
    BY <1>18 DEF registered
  <2>3. wire.cert \in Cert /\ BySavedCA(wire.cert)
    BY <2>1 DEF TypeOK, Message, Signed
  <2>4. /\ agent' \in AgentState /\ agent'.pem = agent.pem /\ agent'.proc = "storing"
        /\ agent'.id # 0 /\ agent'.cfg = agent.cfg /\ Running
    <3>1. wire.cert.cn \in Ids /\ wire.cert.cn # 0
      BY <2>3 DEF Cert, Ids
    <3>2. agent' \in AgentState
      BY <1>a, <2>1, <3>1 DEF AgentState
    <3> QED
      BY <1>a, <2>1, <3>1, <3>2 DEF AgentState, Running
  <2>5. csrs = {}
    BY <2>1 DEF Process
  <2>6. Process'
    BY <2>1, <2>4, <2>5 DEF Process, Running, Busy
  <2> QED
    BY <2>1, <2>2, <2>3, <2>4, <2>6, StoreBegins
<1>19. ASSUME OnRegistered PROVE IInv'
  <2>1. /\ UNCHANGED <<hub, db, disk, setup, wire, csrs, resps, store, faults, torn, ioError>>
        /\ agent.proc = "storing" /\ \A w \in Writers : ~Busy(w)
        /\ agent' = [agent EXCEPT !.proc = "dial", !.regFailures = 0, !.backoff = 1]
        /\ conf' = IF ~agent.cfg /\ agent.id # 0 THEN [id |-> agent.id, pin |-> setup.pin] ELSE conf
    BY <1>19 DEF OnRegistered, saveNewConfig, hubVars, streamVars, ghostVars
  <2>2. /\ agent' \in AgentState /\ agent'.pem = agent.pem /\ agent'.proc = "dial"
        /\ agent'.id = agent.id /\ agent'.cfg = agent.cfg /\ Running
    <3>1. 1 \in 1..MaxBackoff
      OBVIOUS
    <3>2. agent' = [agent EXCEPT !.proc = "dial", !.regFailures = 0, !.backoff = 1]
      BY <2>1
    <3>3. 0 \in 0..2
      OBVIOUS
    <3>4. agent' \in AgentState
      BY ONLY <1>a, <3>1, <3>2, <3>3 DEF AgentState
    <3> QED
      BY <1>a, <2>1, <3>4 DEF AgentState, Running
  <2>3. wire = None /\ csrs = {} /\ (~agent.cfg => setup # None)
    BY <2>1, <2>2 DEF Process
  <2>4. Process'
    BY <2>1, <2>2, <2>3 DEF Process, Running, Busy
  <2>5. conf' = None \/ conf' \in [id : Ids, pin : CAs]
    BY <1>a, <2>1, <2>3 DEF AgentState
  <2>6. ioError \/ AllFiles
    BY <2>1 DEF Files
  <2> QED
    BY <1>a, <2>1, <2>2, <2>3, <2>4, <2>5, <2>6, AgentMoves
<1>20. ASSUME sendHeartbeatHandshake PROVE IInv'
  <2>1. /\ UNCHANGED <<hub, db, disk, conf, setup, store, faults, torn, ioError>>
        /\ agent.proc = "handshake"
    BY <1>20 DEF sendHeartbeatHandshake, hubVars, diskVars, ghostVars
  <2>2. CASE Failed(FALSE)
    BY <1>a, <2>1, <2>2, FailedKeeps DEF InStream
  <2>3. CASE UNCHANGED streamVars /\ agent' = [agent EXCEPT !.proc = "serve", !.backoff = 1]
    <3>1. /\ agent' \in AgentState /\ agent'.pem = agent.pem /\ agent'.proc = "serve"
          /\ agent'.id = agent.id /\ agent'.cfg = agent.cfg /\ Running
      <4>1. 1 \in 1..MaxBackoff
        OBVIOUS
      <4>2. agent' \in AgentState
        BY <1>a, <2>3, <4>1 DEF AgentState, InStream
      <4> QED
        BY <1>a, <2>1, <2>3, <4>2 DEF AgentState, Running
    <3>2. wire = None /\ csrs = {} /\ UNCHANGED <<wire, csrs, resps>>
      BY <2>1, <2>3 DEF Process, streamVars
    <3>3. Process'
      BY <2>1, <3>1, <3>2 DEF Process, Running, Busy
    <3> QED
      BY <1>a, <1>b, <1>c, <2>1, <3>1, <3>2, <3>3, AgentMoves
  <2> QED
    BY <1>20, <2>2, <2>3 DEF sendHeartbeatHandshake
<1>21. ASSUME RenewalTick PROVE IInv'
  <2> DEFINE k == GenerateCSR
  <2>1. /\ UNCHANGED <<hub, db, disk, conf, setup, wire, resps, store, faults, torn, ioError>>
        /\ agent.proc = "serve" /\ CanGenerate
        /\ agent' = [agent EXCEPT !.key = k] /\ csrs' = csrs \cup {k}
    BY <1>21 DEF RenewalTick, hubVars, diskVars, ghostVars
  <2>2. k \in Keys
    BY <2>1, LeastIsIn DEF CanGenerate, GenerateCSR, Keys
  <2> HIDE DEF k
  <2>3. /\ agent' \in AgentState /\ agent'.pem = agent.pem /\ agent'.proc = "serve"
        /\ agent'.id = agent.id /\ agent'.cfg = agent.cfg /\ Running
    BY <1>a, <2>1, <2>2 DEF AgentState, Running
  <2>4. wire = None
    BY <2>1 DEF Process
  <2>5. Process'
    BY <2>1, <2>3, <2>4 DEF Process, Running, Busy
  <2>6. csrs' \subseteq Keys
    BY <2>1, <2>2 DEF TypeOK
  <2> QED
    BY <1>a, <1>b, <1>c, <2>1, <2>3, <2>4, <2>5, <2>6, AgentMoves
<1>22. ASSUME NEW k \in Keys, handleCertRenewal(k) PROVE IInv'
  <2> DEFINE c == SignCSR(k, agent.id)
  <2>1. /\ UNCHANGED <<hub, db, agent, disk, conf, setup, wire, store, faults, torn, ioError>>
        /\ hub.pc = "up" /\ k \in csrs /\ csrs' = csrs \ {k}
        /\ resps' = resps \cup {c} \/ resps' = resps
    BY <1>22 DEF handleCertRenewal, hubVars, diskVars, ghostVars
  <2>2. agent.id \in Ids
    BY <1>a, <2>1 DEF Process, AgentState
  <2>3. c \in Cert /\ BySavedCA(c)
    BY <1>a, <2>1, <2>2 DEF SignCSR, Cert, BySavedCA, HubCA
  <2> HIDE DEF c
  <2>4. TypeOK' /\ HubCA'
    BY <2>1, <2>3 DEF TypeOK, HubCA
  <2>5. Process' /\ IdentityIsWhole' /\ StoredIsWhole'
    BY <2>1 DEF Process, IdentityIsWhole, StoredIsWhole, Running, Busy
  <2>6. Signed'
    BY <2>1, <2>3 DEF Signed, BySavedCA, Busy
  <2>7. Files'
    BY <2>1 DEF Files, AllFiles, Busy
  <2>8. Following'
    BY <2>1 DEF Following, Running, Busy, Writing
  <2> QED
    BY <2>4, <2>5, <2>6, <2>7, <2>8, Zenon
<1>23. ASSUME NEW c \in resps, handleCertRenewResponse(c) PROVE IInv'
  <2>1. /\ UNCHANGED <<hub, db, agent, disk, conf, setup, wire, csrs, faults, torn, ioError>>
        /\ agent.proc = "serve" /\ resps' = resps \ {c}
    BY <1>23 DEF handleCertRenewResponse, hubVars, diskVars, ghostVars
  <2>2. wire = None /\ Running /\ agent.id # 0 /\ csrs \subseteq Keys
    BY <2>1 DEF Process, Running, TypeOK
  <2>3. CASE verifyCertMatchesKey(c, agent.key)
    <3>1. PICK w \in Writers : ~Busy(w) /\ store' = [store EXCEPT ![w] = Storing(c)]
      BY <1>23, <2>3 DEF handleCertRenewResponse
    <3>2. c \in Cert /\ BySavedCA(c)
      BY DEF TypeOK, Signed
    <3>3. Process'
      BY <2>1, <2>2 DEF Process, Running, Busy
    <3> QED
      BY <1>a, <2>1, <2>2, <2>3, <3>1, <3>2, <3>3, StoreBegins
  <2>4. CASE UNCHANGED store
    <3>1. Process'
      BY <2>1, <2>4 DEF Process, Running, Busy
    <3> QED
      BY <1>a, <1>b, <1>c, <2>1, <2>2, <2>4, <3>1, AgentMoves
  <2> QED
    BY <1>23, <2>3, <2>4 DEF handleCertRenewResponse
<1>24. ASSUME NEW w \in Writers, StoreSet(w) PROVE IInv'
  <2>1. UNCHANGED <<hub, db, disk, conf, setup, wire, csrs, resps, faults, torn, ioError>>
    BY <1>24 DEF StoreSet, hubVars, diskVars, streamVars, ghostVars
  <2>2. store[w] \in StoreCall /\ Busy(w) /\ store[w].step = "set" /\ store[w].left = File
    BY <1>24 DEF StoreSet, TypeOK, Files, Busy
  <2> DEFINE pem == [cert |-> store[w].cert, key |-> store[w].key, ca |-> store[w].ca]
  <2>3. agent' = [agent EXCEPT !.pem = pem]
    BY <1>24 DEF StoreSet
  <2>4. /\ pem \in Pem /\ pem # None /\ pem.cert = store[w].cert /\ pem.key = store[w].key
        /\ pem.ca = store[w].ca
    <3>1. pem \in Pem
      BY <2>2 DEF Pem, StoreCall
    <3> QED
      BY <3>1
  <2> HIDE DEF pem
  <2>5. agent' \in AgentState
    BY <1>a, <2>3, <2>4 DEF AgentState
  <2>6. /\ agent'.pem = pem /\ agent'.proc = agent.proc /\ agent'.id = agent.id
        /\ agent'.cfg = agent.cfg
    BY <1>a, <2>3 DEF AgentState
  <2>7. /\ store'[w] \in StoreCall
        /\ store'[w].cert = store[w].cert /\ store'[w].key = store[w].key
        /\ store'[w].ca = store[w].ca /\ store'[w].left = store[w].left
        /\ store'[w].step = "write" /\ store'[w].alone = (Writing = {})
    <3>1. store'[w] = [store[w] EXCEPT !.step = "write", !.alone = Writing = {}]
      BY <1>24 DEF StoreSet
    <3> QED
      BY <2>2, <3>1 DEF StoreCall
  <2>8. ASSUME NEW v \in Writing
        PROVE  /\ v # w /\ store[v] \in StoreCall /\ store'[v] \in StoreCall
               /\ store'[v].cert = store[v].cert /\ store'[v].key = store[v].key
               /\ store'[v].ca = store[v].ca /\ store'[v].left = store[v].left
               /\ store'[v].step = "write" /\ ~store'[v].alone
    <3>1. v # w /\ v \in Writers /\ store[v] \in StoreCall /\ store[v].step = "write"
      BY <2>2, <2>8 DEF Writing, TypeOK, Busy
    <3>2. store'[v] = [store[v] EXCEPT !.alone = FALSE]
      BY <1>24, <2>8, <3>1 DEF StoreSet
    <3> QED
      BY <3>1, <3>2 DEF StoreCall
  <2>9. \A v \in Writers \ (Writing \cup {w}) : store'[v] = store[v]
    BY <1>24 DEF StoreSet
  <2>10. \A v \in Writers : Busy(v)' <=> Busy(v)
    BY <2>2, <2>7, <2>8, <2>9 DEF Busy
  <2>11. TypeOK'
    <3>1. store' \in [Writers -> StoreCall \cup {None}]
      <4>1. store' = [v \in Writers |-> store'[v]]
        BY <1>24 DEF StoreSet
      <4>2. \A v \in Writers : store'[v] \in StoreCall \cup {None}
        BY <2>7, <2>8, <2>9 DEF TypeOK
      <4> QED
        BY <4>1, <4>2
    <3> QED
      BY <2>1, <2>5, <3>1 DEF TypeOK
  <2>12. Process'
    BY <2>1, <2>6, <2>10 DEF Process, Running
  <2>13. HubCA'
    BY <2>1 DEF HubCA
  <2>14. Signed'
    BY <2>1, <2>2, <2>4, <2>6, <2>7, <2>8, <2>9, <2>10 DEF Signed, BySavedCA
  <2>15. IdentityIsWhole' /\ StoredIsWhole'
    BY <2>2, <2>4, <2>6, <2>7, <2>8, <2>9, <2>10 DEF IdentityIsWhole, StoredIsWhole
  <2>16. Files'
    BY <2>1, <2>2, <2>6, <2>7, <2>8, <2>9, <2>10 DEF Files, AllFiles
  <2>17. Following'
    <3>1. Writing' = Writing \cup {w}
      BY <2>2, <2>7, <2>8, <2>9, <2>10 DEF Writing
    <3>2. ASSUME NEW v \in Writing', store'[v].alone PROVE v = w /\ Writing' = {w}
      BY <2>7, <2>8, <3>1, <3>2
    <3>3. Follows(disk', agent'.pem, File \ store'[w].left)
      BY <2>2, <2>7 DEF Follows
    <3>4. agent'.pem = [cert |-> store'[w].cert, key |-> store'[w].key, ca |-> store'[w].ca]
      BY <2>6, <2>7 DEF pem
    <3> QED
      BY <2>4, <2>6, <2>7, <3>1, <3>2, <3>3, <3>4 DEF Following
  <2> QED
    BY <2>11, <2>12, <2>13, <2>14, <2>15, <2>16, <2>17, Zenon
<1>25. ASSUME NEW w \in Writers, StoreError(w) PROVE IInv'
  <2>1. /\ UNCHANGED <<hub, db, agent, disk, conf, setup, wire, csrs, resps>>
        /\ w \in Writing /\ torn' = TRUE /\ ioError' = TRUE
        /\ store' = [store EXCEPT ![w] = None] /\ faults' \in 0..MaxFaults
    BY <1>25, <1>a DEF StoreError, Fault, hubVars, diskVars, streamVars
  <2>2. /\ store' \in [Writers -> StoreCall \cup {None}] /\ store'[w] = None
        /\ \A v \in Writers \ {w} : store'[v] = store[v]
    BY <2>1 DEF TypeOK
  <2>3. TypeOK' /\ HubCA' /\ IdentityIsWhole'
    BY <2>1, <2>2 DEF TypeOK, HubCA, IdentityIsWhole
  <2>4. Process' /\ StoredIsWhole'
    BY <2>1, <2>2 DEF Process, StoredIsWhole, Running, Busy
  <2>5. Signed'
    BY <2>1, <2>2 DEF Signed, BySavedCA, Busy
  <2>6. Files'
    BY <2>1, <2>2 DEF Files, AllFiles, Busy
  <2>7. Following'
    <3>1. Writing' = Writing \ {w} /\ \A v \in Writing' : store'[v] = store[v]
      BY <2>1, <2>2 DEF Writing, Busy
    <3>2. \A v \in Writing' : ~store'[v].alone
      BY <2>1, <3>1 DEF Following
    <3> QED
      BY <2>1, <3>2 DEF Following
  <2> QED
    BY <2>3, <2>4, <2>5, <2>6, <2>7, Zenon
<1>26. ASSUME NEW w \in Writers, NEW f \in File, StoreWrite(w, f) PROVE IInv'
  <2> DEFINE new == Content(w, f)
  <2>1. /\ UNCHANGED <<hub, db, agent, conf, setup, wire, csrs, resps, faults>>
        /\ w \in Writing /\ f \in store[w].left /\ disk' = [disk EXCEPT ![f] = new]
    BY <1>26 DEF StoreWrite, hubVars, streamVars
  <2>2. store[w] \in StoreCall /\ Busy(w) /\ store[w].step = "write"
    BY <2>1 DEF Writing, Busy, TypeOK
  <2>3. /\ f = "crt" => new = store[w].cert /\ new \in Cert
        /\ f = "key" => new = store[w].key /\ new \in Keys
        /\ f = "ca" => new = store[w].ca /\ new \in CAs
        /\ new # None
    BY <2>2 DEF Content, StoreCall, File
  <2> HIDE DEF new
  <2>4. /\ disk' \in [File -> Cert \cup Keys \cup CAs \cup {None}] /\ disk'[f] = new
        /\ \A g \in File \ {f} : disk'[g] = disk[g]
    BY <2>1, <2>3 DEF TypeOK, File
  <2>5. /\ disk'.crt \in Cert \cup {None}
        /\ disk'.key \in Keys \cup {None} /\ disk'.ca \in CAs \cup {None}
    BY <2>3, <2>4 DEF TypeOK, File
  <2>6. disk'.crt # None => BySavedCA(disk'.crt)
    BY <2>2, <2>3, <2>4 DEF Signed, File
  <2>7. HubCA' /\ IdentityIsWhole'
    BY <2>1 DEF HubCA, IdentityIsWhole
  <2>8. ASSUME NEW g \in File, disk[g] # None PROVE disk'[g] # None
    BY <2>3, <2>4, <2>8
  <2>9. ASSUME NEW F, f \notin F, F \subseteq File, Follows(disk, agent.pem, F)
        PROVE  Follows(disk', agent.pem, F)
    BY <2>4, <2>9 DEF Follows
  <2>10. ASSUME store[w].alone
         PROVE  /\ Writing = {w} /\ agent.pem # None
                /\ agent.pem = [cert |-> store[w].cert, key |-> store[w].key, ca |-> store[w].ca]
                /\ Follows(disk', agent.pem, (File \ store[w].left) \cup {f})
    <3>1. /\ Writing = {w} /\ Follows(disk, agent.pem, File \ store[w].left) /\ agent.pem # None
          /\ agent.pem = [cert |-> store[w].cert, key |-> store[w].key, ca |-> store[w].ca]
      BY <2>1, <2>10 DEF Following
    <3>2. Follows(disk', agent.pem, File \ store[w].left)
      BY <2>1, <2>9, <3>1
    <3>3. Follows(disk', agent.pem, {f})
      BY <2>3, <2>4, <3>1 DEF Follows, File
    <3>4. Follows(disk', agent.pem, (File \ store[w].left) \cup {f})
      BY <3>2, <3>3 DEF Follows
    <3> QED
      BY <3>1, <3>4
  <2>11. ASSUME NEW v \in Writing, v # w PROVE ~store[v].alone
    BY <2>1, <2>11 DEF Following
  <2>12. CASE store[w].left = {f}
    <3>1. store' = [store EXCEPT ![w] = None] /\ torn' = ~store[w].alone /\ ioError' = FALSE
      BY <1>26, <2>12 DEF StoreWrite
    <3>2. /\ store' \in [Writers -> StoreCall \cup {None}] /\ store'[w] = None
          /\ \A v \in Writers \ {w} : store'[v] = store[v]
      BY <3>1 DEF TypeOK
    <3>3. TypeOK'
      BY <2>1, <2>4, <2>5, <3>1, <3>2 DEF TypeOK
    <3>4. Process' /\ StoredIsWhole'
      BY <2>1, <3>2 DEF Process, StoredIsWhole, Running, Busy
    <3>5. Signed'
      BY <2>1, <2>6, <3>2 DEF Signed, BySavedCA, Busy
    <3>6. AllFiles'
      <4>1. \A g \in File \ {f} : disk[g] # None
        BY <2>2, <2>12 DEF Files
      <4> QED
        BY <2>3, <2>4, <4>1 DEF AllFiles
    <3>7. Files'
      BY <2>1, <2>8, <3>2, <3>6 DEF Files, Busy
    <3>8. Following'
      <4>1. Writing' = Writing \ {w} /\ \A v \in Writing' : store'[v] = store[v]
        BY <2>1, <3>2 DEF Writing, Busy
      <4>2. \A v \in Writing' : ~store'[v].alone
        BY <2>11, <4>1
      <4>3. ASSUME store[w].alone PROVE Follows(disk', agent'.pem, File)
        <5>1. (File \ store[w].left) \cup {f} = File
          BY <2>12
        <5> QED
          BY <2>1, <2>10, <4>3, <5>1
      <4> QED
        BY <3>1, <4>2, <4>3 DEF Following
    <3> QED
      BY <2>7, <3>3, <3>4, <3>5, <3>7, <3>8, Zenon
  <2>13. CASE store[w].left # {f}
    <3>1. store' = [store EXCEPT ![w].left = @ \ {f}] /\ UNCHANGED <<torn, ioError>>
      BY <1>26, <2>13 DEF StoreWrite, ghostVars
    <3>2. \A v \in Writers \ {w} : store'[v] = store[v]
      BY <3>1 DEF TypeOK
    <3>3. /\ store'[w] \in StoreCall /\ store'[w].left = store[w].left \ {f}
          /\ store'[w].cert = store[w].cert /\ store'[w].key = store[w].key
          /\ store'[w].ca = store[w].ca /\ store'[w].step = "write"
          /\ store'[w].alone = store[w].alone
      <4>1. store'[w] = [store[w] EXCEPT !.left = @ \ {f}]
        BY <3>1 DEF TypeOK
      <4> QED
        BY <2>2, <4>1 DEF StoreCall
    <3>4. store' \in [Writers -> StoreCall \cup {None}]
      <4>1. store' = [store EXCEPT ![w] = store'[w]]
        BY <3>1, <3>2 DEF TypeOK
      <4> QED
        BY <3>3, <4>1 DEF TypeOK
    <3>5. TypeOK'
      BY <2>1, <2>4, <2>5, <3>1, <3>4 DEF TypeOK
    <3>6. \A v \in Writers : Busy(v)' <=> Busy(v)
      BY <2>2, <3>2, <3>3 DEF Busy
    <3>7. Process' /\ StoredIsWhole'
      <4>1. Process'
        BY <2>1, <3>6 DEF Process, Running
      <4>2. StoredIsWhole'
        BY <2>2, <3>2, <3>3, <3>6 DEF StoredIsWhole
      <4> QED
        BY <4>1, <4>2
    <3>8. Signed'
      BY <2>1, <2>2, <2>6, <3>2, <3>3, <3>6 DEF Signed, BySavedCA
    <3>9. Files'
      BY <2>1, <2>2, <2>3, <2>4, <2>8, <3>1, <3>2, <3>3, <3>6 DEF Files, AllFiles
    <3>10. Following'
      <4>1. Writing' = Writing /\ \A v \in Writing \ {w} : store'[v] = store[v]
        BY <2>2, <3>2, <3>3, <3>6 DEF Writing
      <4>2. ASSUME store[w].alone PROVE Follows(disk', agent'.pem, File \ store'[w].left)
        <5>1. (File \ store[w].left) \cup {f} = File \ store'[w].left
          BY <3>3
        <5> QED
          BY <2>1, <2>10, <4>2, <5>1
      <4> QED
        BY <2>1, <2>10, <2>11, <3>3, <4>1, <4>2 DEF Following
    <3> QED
      BY <2>7, <3>5, <3>7, <3>8, <3>9, <3>10, Zenon
  <2> QED
    BY <2>12, <2>13
<1>27. ASSUME SixHours PROVE IInv'
  <2>1. /\ UNCHANGED <<hub, db, conf, setup, csrs, faults, torn, ioError>>
        /\ agent' = [agent EXCEPT !.pem = OlderIn(@)] /\ disk' = [disk EXCEPT !.crt = Older(@)]
        /\ store' = [w \in Writers |-> OlderIn(store[w])]
        /\ resps' = {Older(c) : c \in resps}
        /\ wire' = IF wire # None /\ wire.kind = "ack" THEN OlderIn(wire) ELSE wire
    BY <1>27 DEF SixHours, hubVars, ghostVars
  <2>2. /\ agent.pem = None => OlderIn(agent.pem) = None
        /\ agent.pem # None =>
             /\ OlderIn(agent.pem) \in Pem /\ OlderIn(agent.pem) # None
             /\ OlderIn(agent.pem).cert = Older(agent.pem.cert) /\ agent.pem.cert \in Cert
             /\ OlderIn(agent.pem).key = agent.pem.key /\ OlderIn(agent.pem).ca = agent.pem.ca
             /\ OlderIn(agent.pem) = [cert |-> Older(agent.pem.cert), key |-> agent.pem.key,
                                      ca |-> agent.pem.ca]
    <3>1. CASE agent.pem = None
      BY <3>1 DEF OlderIn
    <3>2. CASE agent.pem # None
      <4>1. agent.pem \in Pem /\ agent.pem.cert \in Cert
        BY <1>a, <3>2 DEF AgentState, Pem
      <4>2. OlderIn(agent.pem) = [agent.pem EXCEPT !.cert = Older(@)]
        BY <3>2 DEF OlderIn
      <4>3. Older(agent.pem.cert) \in Cert
        BY <4>1, OlderKeeps
      <4>4. OlderIn(agent.pem) \in Pem
        BY <4>1, <4>2, <4>3 DEF Pem
      <4>5. OlderIn(agent.pem) # None
        BY <4>4
      <4> QED
        BY <3>2, <4>1, <4>2, <4>4, <4>5 DEF Pem
    <3> QED
      BY <3>1, <3>2
  <2>3. /\ agent' \in AgentState
        /\ agent'.pem = OlderIn(agent.pem) /\ agent'.proc = agent.proc
        /\ agent'.id = agent.id /\ agent'.cfg = agent.cfg
    <3>1. OlderIn(agent.pem) \in Pem \cup {None}
      BY <2>2
    <3> QED
      BY <1>a, <2>1, <3>1 DEF AgentState
  <2>4. ASSUME NEW w \in Writers, Busy(w)
        PROVE  /\ store'[w] \in StoreCall /\ store'[w] # None
               /\ store'[w].cert = Older(store[w].cert) /\ store[w].cert \in Cert
               /\ store'[w].key = store[w].key /\ store'[w].ca = store[w].ca
               /\ store'[w].left = store[w].left /\ store'[w].step = store[w].step
               /\ store'[w].alone = store[w].alone
    <3>1. store[w] \in StoreCall /\ store[w] # None /\ store[w].cert \in Cert
      BY <2>4 DEF TypeOK, Busy, StoreCall
    <3>2. store'[w] = [store[w] EXCEPT !.cert = Older(@)]
      BY <2>1, <3>1 DEF OlderIn
    <3>3. Older(store[w].cert) \in Cert
      BY <3>1, OlderKeeps
    <3>4. store'[w] \in StoreCall
      BY <3>1, <3>2, <3>3 DEF StoreCall
    <3>5. store'[w] # None
      BY <3>4
    <3> QED
      BY <3>1, <3>2, <3>4, <3>5 DEF StoreCall
  <2>5. ASSUME NEW w \in Writers, ~Busy(w) PROVE store'[w] = None
    BY <2>1, <2>5 DEF Busy, OlderIn
  <2>6. \A w \in Writers : Busy(w)' <=> Busy(w)
    BY <2>4, <2>5 DEF Busy
  <2>7. /\ disk' \in [File -> Cert \cup Keys \cup CAs \cup {None}]
        /\ disk'["crt"] = Older(disk["crt"]) /\ disk'["key"] = disk["key"] /\ disk'["ca"] = disk["ca"]
        /\ disk["crt"] = None => Older(disk["crt"]) = None
        /\ disk["crt"] # None => disk["crt"] \in Cert /\ Older(disk["crt"]) \in Cert
    <3>1. CASE disk["crt"] = None
      <4>1. Older(disk["crt"]) = None
        BY <3>1 DEF Older
      <4> QED
        BY <2>1, <3>1, <4>1 DEF TypeOK, File
    <3>2. CASE disk["crt"] # None
      <4>1. disk["crt"] \in Cert
        BY <3>2 DEF TypeOK
      <4>2. Older(disk["crt"]) \in Cert
        BY <4>1, OlderKeeps
      <4> QED
        BY <2>1, <3>2, <4>1, <4>2 DEF TypeOK, File
    <3> QED
      BY <3>1, <3>2
  <2>8. wire # None /\ wire.kind = "ack" =>
          /\ wire'.kind = "ack" /\ wire' \in Message /\ wire.cert \in Cert
          /\ wire'.cert = Older(wire.cert)
    <3> SUFFICES ASSUME wire # None, wire.kind = "ack"
                 PROVE  /\ wire'.kind = "ack" /\ wire' \in Message /\ wire.cert \in Cert
                        /\ wire'.cert = Older(wire.cert)
      OBVIOUS
    <3>1. wire \in [kind : {"ack"}, cert : Cert]
      BY DEF TypeOK, Message
    <3>2. wire' = [wire EXCEPT !.cert = Older(@)]
      BY <2>1 DEF OlderIn
    <3>3. Older(wire.cert) \in Cert
      BY <3>1, OlderKeeps
    <3>4. wire' \in [kind : {"ack"}, cert : Cert]
      BY <3>1, <3>2, <3>3
    <3> QED
      BY <3>1, <3>2, <3>4 DEF Message
  <2>9. ~(wire # None /\ wire.kind = "ack") => wire' = wire
    BY <2>1
  <2>10. \A d \in resps' : \E c \in resps : d = Older(c) /\ c \in Cert /\ d \in Cert
    BY <2>1, OlderKeeps DEF TypeOK
  <2>11. TypeOK'
    <3>1. store' \in [Writers -> StoreCall \cup {None}]
      <4>1. \A w \in Writers : store'[w] \in StoreCall \cup {None}
        BY <2>4, <2>5
      <4> QED
        BY <2>1, <4>1
    <3>2. wire' = None \/ wire' \in Message
      BY <2>8, <2>9 DEF TypeOK
    <3>3. resps' \subseteq Cert
      BY <2>10
    <3>4. /\ disk'.crt \in Cert \cup {None}
          /\ disk'.key \in Keys \cup {None} /\ disk'.ca \in CAs \cup {None}
      BY <2>7 DEF TypeOK
    <3> QED
      BY <2>1, <2>3, <2>7, <3>1, <3>2, <3>3, <3>4 DEF TypeOK
  <2>12. Process'
    <3>1. wire' # None => wire # None
      BY <2>9
    <3> QED
      BY <2>1, <2>3, <2>6, <3>1 DEF Process, Running
  <2>13. HubCA'
    BY <2>1 DEF HubCA
  <2>14. Signed'
    <3>1. \A d \in resps' : BySavedCA(d)'
      BY <2>1, <2>10, OlderKeeps DEF Signed, BySavedCA
    <3>2. disk'.crt # None => BySavedCA(disk.crt)'
      BY <2>1, <2>7, OlderKeeps DEF Signed, BySavedCA
    <3>3. agent'.pem # None => BySavedCA(agent.pem.cert)'
      BY <2>1, <2>2, <2>3, OlderKeeps DEF Signed, BySavedCA
    <3>4. \A w \in Writers : Busy(w)' => BySavedCA(store[w].cert)'
      BY <2>1, <2>4, <2>6, OlderKeeps DEF Signed, BySavedCA
    <3>5. wire' # None /\ wire'.kind = "ack" => BySavedCA(wire.cert)'
      BY <2>1, <2>8, <2>9, OlderKeeps DEF Signed, BySavedCA
    <3> QED
      BY <3>1, <3>2, <3>3, <3>4, <3>5 DEF Signed
  <2>15. IdentityIsWhole' /\ StoredIsWhole'
    BY <2>2, <2>3, <2>4, <2>6, OlderKeeps DEF IdentityIsWhole, StoredIsWhole
  <2>16. Files'
    <3>1. \A f \in File : disk'[f] # None <=> disk[f] # None
      BY <2>7 DEF File
    <3> QED
      BY <2>1, <2>3, <2>4, <2>6, <3>1 DEF Files, AllFiles
  <2>17. Following'
    <3>1. Writing' = Writing
      BY <2>4, <2>6 DEF Writing
    <3>2. ASSUME NEW F, F \subseteq File, agent.pem # None, Follows(disk, agent.pem, F)
          PROVE  Follows(disk', agent'.pem, F)
      BY <2>2, <2>3, <2>7, <3>2 DEF Follows, File
    <3>3. Running' <=> Running
      BY <2>3 DEF Running
    <3>4. ASSUME Running', agent'.pem # None, ~torn', Writing' = {}
          PROVE  Follows(disk', agent'.pem, File)
      BY <2>1, <2>2, <2>3, <3>1, <3>2, <3>3, <3>4 DEF Following
    <3>5. ASSUME NEW w \in Writing', store'[w].alone
          PROVE  /\ Writing' = {w} /\ agent'.pem # None
                 /\ agent'.pem = [cert |-> store'[w].cert, key |-> store'[w].key, ca |-> store'[w].ca]
                 /\ Follows(disk', agent'.pem, File \ store'[w].left)
      <4>1. w \in Writing /\ Busy(w) /\ store[w].alone /\ store'[w].left = store[w].left
        BY <2>4, <3>1, <3>5 DEF Writing
      <4>2. /\ Writing = {w} /\ agent.pem # None
            /\ agent.pem = [cert |-> store[w].cert, key |-> store[w].key, ca |-> store[w].ca]
            /\ Follows(disk, agent.pem, File \ store[w].left)
        BY <4>1 DEF Following
      <4>3. agent'.pem = [cert |-> store'[w].cert, key |-> store'[w].key, ca |-> store'[w].ca]
        BY <2>2, <2>3, <2>4, <4>1, <4>2 DEF Writing
      <4> QED
        BY <2>2, <2>3, <3>1, <3>2, <4>1, <4>2, <4>3
    <3> QED
      BY <3>4, <3>5 DEF Following
  <2> QED
    BY <2>11, <2>12, <2>13, <2>14, <2>15, <2>16, <2>17, Zenon
<1>28. CASE UNCHANGED vars
  <2> USE <1>28 DEF vars
  <2>1. TypeOK' /\ HubCA' /\ Process'
    BY DEF TypeOK, HubCA, Process, Running, Busy
  <2>2. Signed' /\ IdentityIsWhole' /\ StoredIsWhole'
    BY DEF Signed, BySavedCA, IdentityIsWhole, StoredIsWhole, Busy
  <2>3. Files'
    BY DEF Files, AllFiles, Busy
  <2>4. Following'
    BY DEF Following, Running, Busy, Writing
  <2> QED
    BY <2>1, <2>2, <2>3, <2>4, Zenon
<1> QED
  BY <1>1, <1>2, <1>3, <1>4, <1>5, <1>6, <1>7, <1>8, <1>9, <1>10, <1>11, <1>12, <1>13, <1>14,
     <1>15, <1>16, <1>17, <1>18, <1>19, <1>20, <1>21, <1>22, <1>23, <1>24, <1>25, <1>26, <1>27,
     <1>28 DEF Next

\* The inductive invariant holds in every state.
LEMMA Invariance == Spec => []IInv
  BY InitIInv, StepIInv, PTL DEF Spec

-----------------------------------------------------------------------------
\* Hub, database, agent, files and messages keep their types, for any bounds
\* and any number of StoreCert calls at a time.
THEOREM IdentityTypeCorrect == Spec => []TypeOK
<1>1. IInv => TypeOK
  BY DEF IInv
<1> QED
  BY <1>1, Invariance, PTL

\* The certificate and the key the agent presents belong together, however
\* many renewals are stored at the same time and whatever key a tick makes in
\* between (certs.go GenerateCSR and StoreCert).
THEOREM PresentedIsWhole == Spec => []IdentityIsWhole
<1>1. IInv => IdentityIsWhole
  BY DEF IInv
<1> QED
  BY <1>1, Invariance, PTL

\* An agent.conf is only found beside three files, unless one of them could
\* not be written (main.go OnRegistered, client.go storeMTLSCerts).
THEOREM ConfigComesLast == Spec => []ConfigHasIdentity
<1>1. IInv => ConfigHasIdentity
  BY DEF IInv, Files, AllFiles, ConfigHasIdentity
<1> QED
  BY <1>1, Invariance, PTL

\* Files written by calls that neither overlapped nor were interrupted are
\* what the agent presents (certs.go StoreCert and loadFromDisk).
THEOREM FilesFollow == Spec => []DiskFollowsMemory
<1>1. IInv => DiskFollowsMemory
  <2> SUFFICES ASSUME IInv, Running, agent.pem # None, ~torn, \A w \in Writers : ~Busy(w)
               PROVE  /\ disk.crt = agent.pem.cert
                      /\ disk.key = agent.pem.key
                      /\ disk.ca = agent.pem.ca
    BY DEF DiskFollowsMemory
  <2>1. Writing = {}
    BY DEF Writing
  <2>2. Follows(disk, agent.pem, File)
    BY <2>1 DEF IInv, Following
  <2> QED
    BY <2>2 DEF Follows, File
<1> QED
  BY <1>1, Invariance, PTL

\* Every certificate anywhere was signed by the CA of both rows, so that every
\* later start of the hub loads that CA (ca.go InitCA and generateAndSaveCA).
THEOREM CAStays == Spec => []CAIsStable
<1>1. IInv => CAIsStable
  <2> SUFFICES ASSUME IInv, NEW c \in CertsAround PROVE BySavedCA(c)
    BY DEF CAIsStable, BySavedCA
  <2>1. CASE c \in resps \cup ({disk.crt} \ {None})
    BY <2>1 DEF IInv, Signed
  <2>2. CASE c \in {x.cert : x \in ({agent.pem} \cup {store[w] : w \in Writers}) \ {None}}
    BY <2>2 DEF IInv, Signed, Busy
  <2>3. CASE wire # None /\ wire.kind = "ack" /\ c = wire.cert
    BY <2>3 DEF IInv, Signed
  <2> QED
    BY <2>1, <2>2, <2>3 DEF CertsAround
<1> QED
  BY <1>1, Invariance, PTL
=============================================================================
