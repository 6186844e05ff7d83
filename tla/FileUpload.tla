----------------------------- MODULE FileUpload -----------------------------
(***************************************************************************)
(* Request and answer between the hub and one agent, and the file upload   *)
(* that is built on it:                                                    *)
(*   handlers_upload.go   the hub's handler reads the client's body and    *)
(*                        sends it to the agent chunk by chunk             *)
(*   agent_request.go     list, read and delete: one request, one answer   *)
(*   pending.go           the one-place channels the answers come back on  *)
(*   client.go            the agent's receive goroutine and its handlers   *)
(*   dropzone.go          slots, temporary files and the final rename      *)
(* A handler finds the agent's connection again for every chunk, so an     *)
(* upload may go on over a connection that did not exist when it began;    *)
(* and the goroutine that receives on a connection is not waited for when  *)
(* that connection ends, so it may handle a chunk after the Cleanup.       *)
(***************************************************************************)
EXTENDS Naturals, FiniteSets, Sequences

CONSTANTS Uploads,               \* requests to upload a file
          Asks,                  \* requests to list, read or delete
          Names,                 \* file names
          NameOf,                \* the file name of each upload
          MaxUploadSize,         \* in chunks
          MaxConcurrentUploads,
          MaxConn,               \* bound: connections of the agent
          Window,                \* messages a connection holds before Send blocks
          MaxRequests,           \* bound: requests in one behaviour
          MaxFaults,             \* bound: failing file operations and crashes
          None,                  \* no value, no channel
          Empty                  \* a channel that holds nothing

Requests == Uploads \cup Asks
Conns == 1 .. MaxConn
NoConn == 0
NoName == "no name"

(* What is stored and what is sent: a file, a chunk of an upload, another  *)
(* request, an answer.                                                     *)
Files == [id : Uploads, data : Seq(1 .. MaxUploadSize)]
Chunks == [id : Uploads, name : Names \cup {NoName}, data : 0 .. MaxUploadSize, done : BOOLEAN]
Targets == {"list", "read", "dropzone"} \cup Names \cup Uploads
Questions == [id : Asks, ask : Targets]
Answers == [id : Requests, type : {"ack", "list", "read", "delete"}, ok : BOOLEAN]

ASSUME UploadAssumption ==
  /\ Uploads \cap Asks = {} /\ NameOf \in [Uploads -> Names]
  /\ MaxUploadSize \in Nat /\ MaxConcurrentUploads \in Nat /\ MaxConn \in Nat /\ MaxFaults \in Nat
  /\ Window \in Nat \ {0} /\ MaxRequests \in Nat
  /\ None # Empty /\ {None, Empty} \cap Answers = {}
  /\ None \notin Chunks /\ None \notin {"ok", "failed", "error"}

VARIABLES
  phase,   \* where the hub's handler of each request is
  sent,    \* data chunks an upload's handler has read and sent
  target,  \* what an ask is about: "list", "read", "dropzone", or a file to delete
  answer,  \* what the client was told
  pend,    \* PendingRequests.channels: absent, empty, or the answer it holds
  cur,     \* the connection the hub's map holds for the agent
  open,    \* connections whose handler still runs at the hub
  aconn,   \* the connection the agent's connectAndStream runs on
  nconn,   \* connections made so far
  down,    \* per connection: messages on their way to the agent
  up,      \* per connection: messages on their way to the hub
  hand,    \* per connection: the chunk its receive goroutine is handling
  gor,     \* handler goroutines of the agent: <<connection, message>>
  dz,      \* the dropzone: open uploads and their data, temporary files,
           \* those of them that nobody will remove, final files
  late,    \* uploads with a chunk handled after its connection's Cleanup
  stored,  \* uploads whose file was renamed to its final name
  faults   \* failures of the file system and of the process so far

hub == <<phase, sent, target, answer, pend>>
net == <<cur, open, aconn, nconn>>
agent == <<hand, gor, dz, late, stored, faults>>
vars == <<hub, net, down, up, agent>>

Dropzone == [open : SUBSET Uploads, data : [Uploads -> Seq(1 .. MaxUploadSize)],
             temps : SUBSET Uploads, leaked : SUBSET Uploads, final : [Names -> {None} \cup Files]]

TypeOK ==
  /\ phase \in [Requests -> {"idle", "stream", "wait", "done"}]
  /\ sent \in [Uploads -> 0 .. MaxUploadSize]
  /\ target \in [Asks -> {None} \cup Targets]
  /\ answer \in [Requests -> {None, "ok", "error"}]
  /\ pend \in [Requests -> {None, Empty} \cup Answers]
  /\ cur \in {NoConn} \cup open /\ open \subseteq Conns
  /\ aconn \in {NoConn} \cup Conns /\ nconn \in 0 .. MaxConn
  /\ down \in [Conns -> Seq(Chunks \cup Questions)] /\ up \in [Conns -> Seq(Answers)]
  /\ hand \in [Conns -> {None} \cup Chunks] /\ gor \subseteq Conns \X Questions
  /\ dz \in Dropzone /\ dz.leaked \subseteq dz.temps
  /\ Cardinality(dz.open) <= MaxConcurrentUploads
  /\ late \subseteq Uploads /\ stored \subseteq Uploads
  /\ faults \in 0 .. MaxFaults

NoData == [u \in Uploads |-> <<>>]

Init ==
  /\ phase = [r \in Requests |-> "idle"]
  /\ sent = [u \in Uploads |-> 0]
  /\ target = [a \in Asks |-> None]
  /\ answer = [r \in Requests |-> None]
  /\ pend = [r \in Requests |-> None]
  /\ cur = NoConn /\ open = {} /\ aconn = NoConn /\ nconn = 0
  /\ down = [c \in Conns |-> <<>>] /\ up = [c \in Conns |-> <<>>]
  /\ hand = [c \in Conns |-> None] /\ gor = {}
  /\ dz = [open |-> {}, data |-> NoData, temps |-> {}, leaked |-> {},
            final |-> [n \in Names |-> None]]
  /\ late = {} /\ stored = {} /\ faults = 0

-----------------------------------------------------------------------------
(* PendingRequests.  A key is server and request, and there is one server. *)

Register(p, r) == [p EXCEPT ![r] = Empty]
Remove(p, r) == [p EXCEPT ![r] = None]

(* An answer goes to whichever upload waits: the request is left out of the key. *)
Deliver_AnyRequest(p, m) ==
  LET waiting == {r \in Requests : p[r] = Empty} IN
  IF waiting = {} THEN p ELSE [p EXCEPT ![CHOOSE r \in waiting : TRUE] = m]

(* A full channel keeps its first answer, a missing one takes none. *)
Deliver(p, m) == IF p[m.id] = Empty THEN [p EXCEPT ![m.id] = m] ELSE p

(* deliverPending: the hub's handler of connection c takes the next message. *)
HubRecv(c) ==
  /\ c \in open /\ up[c] # <<>>
  /\ pend' = Deliver(pend, Head(up[c]))
  /\ up' = [up EXCEPT ![c] = Tail(@)]
  /\ UNCHANGED <<phase, sent, target, answer, net, down, agent>>

-----------------------------------------------------------------------------
(* The hub's handlers. *)

(* The response, then the deferred Remove.  Statuses are 2xx or an error. *)
Respond(r, status) ==
  /\ answer' = [answer EXCEPT ![r] = status]
  /\ phase' = [phase EXCEPT ![r] = "done"]
  /\ pend' = Remove(pend, r)

Blocked == cur # NoConn /\ cur = aconn /\ Len(down[cur]) >= Window

(* SendToAgent: no connection is an error; a connection the agent has left *)
(* may report one or swallow the message; flow control blocks the sender   *)
(* while the agent does not read.                                          *)
SendToAgent(msg, Sent, Failed) ==
  \/ /\ cur = NoConn \/ cur # aconn
     /\ Failed /\ UNCHANGED down
  \/ /\ cur # NoConn /\ ~Blocked
     /\ Sent /\ down' = IF cur = aconn THEN [down EXCEPT ![cur] = Append(@, msg)] ELSE down

requireAgent == cur # NoConn
MayStart == Cardinality({r \in Requests : phase[r] # "idle"}) < MaxRequests

(* A body without a usable part "file" is refused before anything else. *)
parseMultipartFileStream == {"ok", "bad"}

handleUploadFile(u) ==
  /\ phase[u] = "idle" /\ MayStart
  /\ \E body \in parseMultipartFileStream :
       \/ body = "bad" /\ Respond(u, "error")
       \/ body = "ok" /\ ~requireAgent /\ Respond(u, "error")
       \/ /\ body = "ok" /\ requireAgent
          /\ pend' = Register(pend, u)
          /\ phase' = [phase EXCEPT ![u] = "stream"]
          /\ UNCHANGED answer
  /\ UNCHANGED <<sent, target, net, down, up, agent>>

(* Every chunk carries the name. *)
chunkFilename_Always(u, isFirst) == NameOf[u]

(* The name goes with the first chunk only. *)
chunkFilename(u, isFirst) == IF isFirst THEN NameOf[u] ELSE NoName

(* streamFileToAgent, a round of its loop: a chunk is read and sent... *)
sendChunkToAgent(u) ==
  /\ phase[u] = "stream" /\ ~Blocked
  /\ IF sent[u] + 1 > MaxUploadSize
     THEN Respond(u, "error") /\ UNCHANGED <<sent, down>>
     ELSE SendToAgent([id |-> u, name |-> chunkFilename(u, sent[u] = 0),
                       data |-> sent[u] + 1, done |-> FALSE],
                      /\ sent' = [sent EXCEPT ![u] = @ + 1]
                      /\ UNCHANGED <<phase, answer, pend>>,
                      Respond(u, "error") /\ UNCHANGED sent)
  /\ UNCHANGED <<target, net, up, agent>>

(* ... the body is at its end and the marker is sent... *)
sendFinalChunk(u) ==
  /\ phase[u] = "stream" /\ ~Blocked
  /\ SendToAgent([id |-> u, name |-> NoName, data |-> 0, done |-> TRUE],
                 /\ phase' = [phase EXCEPT ![u] = "wait"]
                 /\ UNCHANGED <<answer, pend>>,
                 Respond(u, "error"))
  /\ UNCHANGED <<sent, target, net, up, agent>>

(* ... or the read fails, the client is gone: the agent is told nothing.   *)
(* A handler that is blocked is in Send, and reads nothing.                *)
readFails(u) ==
  /\ phase[u] = "stream" /\ ~Blocked
  /\ Respond(u, "error")
  /\ UNCHANGED <<sent, target, net, down, up, agent>>

streamFileToAgent(u) == sendChunkToAgent(u) \/ sendFinalChunk(u) \/ readFails(u)

(* The select at the end of the handler: the acknowledgement... *)
uploadAcked(u) ==
  /\ phase[u] = "wait" /\ pend[u] \notin {None, Empty}
  /\ Respond(u, IF pend[u].type = "ack" /\ pend[u].ok THEN "ok" ELSE "error")
  /\ UNCHANGED <<sent, target, net, down, up, agent>>

(* ... or the timer. *)
uploadTimeout(u) ==
  /\ phase[u] = "wait"
  /\ Respond(u, "error")
  /\ UNCHANGED <<sent, target, net, down, up, agent>>

(* sendAgentRequest: register, send once, wait. *)
sendAgentRequest(a, t) ==
  /\ phase[a] = "idle" /\ MayStart
  /\ \/ ~requireAgent /\ Respond(a, "error") /\ UNCHANGED <<down, target>>
     \/ /\ requireAgent
        /\ SendToAgent([id |-> a, ask |-> t],
                       /\ pend' = Register(pend, a)
                       /\ phase' = [phase EXCEPT ![a] = "wait"]
                       /\ target' = [target EXCEPT ![a] = t]
                       /\ UNCHANGED answer,
                       Respond(a, "error") /\ UNCHANGED target)
  /\ UNCHANGED <<sent, net, up, agent>>

handleDeleteDropzoneFile(a) == \E f \in Names \cup Uploads : sendAgentRequest(a, f)
handleListDropzone(a) == sendAgentRequest(a, "dropzone")
handleListFiles(a) == sendAgentRequest(a, "list")
handleReadFile(a) == sendAgentRequest(a, "read")

(* What the handlers make of an answer: a directory that cannot be listed  *)
(* is an error, but the dropzone is then shown as empty; a file may be too *)
(* large to show.                                                          *)
listStatus(m) == IF m.type = "list" /\ m.ok THEN {"ok"} ELSE {"error"}
dropzoneStatus(m) == IF m.type = "list" THEN {"ok"} ELSE {"error"}
readStatus(m) == IF m.type = "read" /\ m.ok THEN {"ok", "error"} ELSE {"error"}
deleteStatus(m) == IF m.type = "delete" /\ m.ok THEN {"ok"} ELSE {"error"}
askStatus(t, m) ==
  CASE t = "list" -> listStatus(m) [] t = "dropzone" -> dropzoneStatus(m)
    [] t = "read" -> readStatus(m) [] OTHER -> deleteStatus(m)

askAnswered(a) ==
  /\ phase[a] = "wait" /\ pend[a] \notin {None, Empty}
  /\ \E status \in askStatus(target[a], pend[a]) : Respond(a, status)
  /\ target' = [target EXCEPT ![a] = None]
  /\ UNCHANGED <<sent, net, down, up, agent>>

askTimeout(a) ==
  /\ phase[a] = "wait"
  /\ Respond(a, "error")
  /\ target' = [target EXCEPT ![a] = None]
  /\ UNCHANGED <<sent, net, down, up, agent>>

-----------------------------------------------------------------------------
(* The dropzone.  Each operator yields the set of outcomes the file system *)
(* may give: the new dropzone, and the acknowledgement or None.            *)

Forget(d, u) == [d EXCEPT !.open = @ \ {u}, !.data[u] = <<>>]
RemoveTemp(d, u) == [d EXCEPT !.temps = @ \ {u}, !.leaked = @ \ {u}]
Out(d, ack) == [d |-> d, ack |-> ack, bad |-> 0]
Fault(d) == [d |-> d, ack |-> "failed", bad |-> 1]

(* An empty temporary file. *)
Create(d, u) ==
  [d EXCEPT !.open = @ \cup {u}, !.data[u] = <<>>, !.temps = @ \cup {u}, !.leaked = @ \ {u}]

(* The limit is not checked. *)
openNewUpload_NoLimit(d, m) ==
  IF m.name = NoName THEN {Out(d, "failed")} ELSE {Out(Create(d, m.id), None)}

openNewUpload(d, m) ==
  IF Cardinality(d.open) >= MaxConcurrentUploads \/ m.name = NoName
  THEN {Out(d, "failed")}
  ELSE {Fault(d), Out(Create(d, m.id), None)}

(* A failed write leaves the temporary file. *)
writeChunk(d, m) ==
  IF m.data = 0 THEN {Out(d, None)}
  ELSE IF Len(d.data[m.id]) + 1 > MaxUploadSize
  THEN {Out(RemoveTemp(Forget(d, m.id), m.id), "failed")}
  ELSE {Out([d EXCEPT !.data[m.id] = Append(@, m.data)], None),
        Fault([Forget(d, m.id) EXCEPT !.leaked = @ \cup ({m.id} \cap d.temps)])}

finishUpload(d, m) ==
  IF ~m.done THEN {Out(d, None)}
  ELSE IF m.id \notin d.temps THEN {Out(Forget(d, m.id), "failed")}
  ELSE {Fault(RemoveTemp(Forget(d, m.id), m.id)),
        Out([RemoveTemp(Forget(d, m.id), m.id)
               EXCEPT !.final[NameOf[m.id]] = [id |-> m.id, data |-> d.data[m.id]]], "ok")}

HandleChunk(d, m) ==
  LET opened == IF m.id \in d.open THEN {Out(d, None)} ELSE openNewUpload(d, m)
      written == UNION {IF o.ack = None THEN writeChunk(o.d, m) ELSE {o} : o \in opened}
  IN  UNION {IF o.ack = None THEN finishUpload(o.d, m) ELSE {o} : o \in written}

(* The files are closed and left in the directory. *)
Cleanup_KeepsFiles(d) == [d EXCEPT !.open = {}, !.data = NoData]

(* Cleanup: every open upload is closed and its temporary file removed. *)
Cleanup(d) == [d EXCEPT !.open = {}, !.data = NoData, !.temps = @ \ d.open]

-----------------------------------------------------------------------------
(* The agent.  What it puts on the channel of a connection it has left is  *)
(* read by nobody.                                                         *)

Reply(c, m) == up' = IF c = aconn /\ c \in open THEN [up EXCEPT ![c] = Append(@, m)] ELSE up

(* The receive goroutine takes a message: chunks it handles itself, one at *)
(* a time; for anything else it starts a goroutine.                        *)
startRecvLoop(c) ==
  /\ c = aconn /\ hand[c] = None /\ down[c] # <<>>
  /\ IF Head(down[c]).id \in Uploads
     THEN hand' = [hand EXCEPT ![c] = Head(down[c])] /\ UNCHANGED gor
     ELSE gor' = gor \cup {<<c, Head(down[c])>>} /\ UNCHANGED hand
  /\ down' = [down EXCEPT ![c] = Tail(@)]
  /\ UNCHANGED <<hub, net, up, dz, late, stored, faults>>

handleFileUploadRequest(c) ==
  LET m == hand[c] IN
  /\ m # None
  /\ \E o \in HandleChunk(dz, m) :
       /\ faults + o.bad <= MaxFaults
       /\ faults' = faults + o.bad
       /\ dz' = o.d
       /\ IF o.ack = None THEN UNCHANGED up
          ELSE Reply(c, [id |-> m.id, type |-> "ack", ok |-> o.ack = "ok"])
       /\ stored' = IF o.ack = "ok" THEN stored \cup {m.id} ELSE stored
  /\ hand' = [hand EXCEPT ![c] = None]
  /\ late' = IF c = aconn THEN late ELSE late \cup {m.id}
  /\ UNCHANGED <<hub, net, down, gor>>

(* os.Remove of the file the request names: a final file, or the temporary *)
(* file of an upload; the result of a file the dropzone does not have is   *)
(* a failure.                                                              *)
handleFileDeleteRequest(c, m) ==
  LET exists == IF m.ask \in Names THEN dz.final[m.ask] # None ELSE m.ask \in dz.temps IN
  /\ dz' = IF ~exists THEN dz
           ELSE IF m.ask \in Names THEN [dz EXCEPT !.final[m.ask] = None]
           ELSE RemoveTemp(dz, m.ask)
  /\ Reply(c, [id |-> m.id, type |-> "delete", ok |-> exists])

(* The file system answers, or the path is refused. *)
handleFileListRequest(c, m) ==
  \E ok \in BOOLEAN : Reply(c, [id |-> m.id, type |-> "list", ok |-> ok])
handleFileReadRequest(c, m) ==
  \E ok \in BOOLEAN : Reply(c, [id |-> m.id, type |-> "read", ok |-> ok])

handleMessage(g) ==
  /\ g \in gor
  /\ \/ g[2].ask \in {"list", "dropzone"} /\ handleFileListRequest(g[1], g[2]) /\ UNCHANGED dz
     \/ g[2].ask = "read" /\ handleFileReadRequest(g[1], g[2]) /\ UNCHANGED dz
     \/ g[2].ask \in Names \cup Uploads /\ handleFileDeleteRequest(g[1], g[2])
  /\ gor' = gor \ {g}
  /\ UNCHANGED <<hub, net, down, hand, late, stored, faults>>

(* A connection is made: the hub's map now holds it, whatever it held. *)
Connect ==
  /\ aconn = NoConn /\ nconn < MaxConn
  /\ nconn' = nconn + 1 /\ aconn' = nconn' /\ cur' = nconn'
  /\ open' = open \cup {nconn'}
  /\ UNCHANGED <<hub, down, up, agent>>

(* connectAndStream returns and its deferred calls run.  The receive       *)
(* goroutine may still have a chunk in hand.                               *)
Disconnect ==
  /\ aconn # NoConn
  /\ aconn' = NoConn
  /\ dz' = Cleanup(dz)
  /\ down' = [down EXCEPT ![aconn] = <<>>]
  /\ UNCHANGED <<hub, cur, open, nconn, up, hand, gor, late, stored, faults>>

(* The agent's process ends and is started again: the files stay. *)
AgentCrash ==
  /\ aconn # NoConn /\ faults < MaxFaults
  /\ aconn' = NoConn /\ faults' = faults + 1
  /\ down' = [down EXCEPT ![aconn] = <<>>]
  /\ hand' = [c \in Conns |-> None] /\ gor' = {}
  /\ dz' = [dz EXCEPT !.open = {}, !.data = NoData, !.leaked = dz.temps]
  /\ UNCHANGED <<hub, cur, open, nconn, up, late, stored>>

(* The handler of a connection ends at the hub, for whatever reason: it    *)
(* takes its entry out of the map if the entry is still its own.           *)
HubClose(c) ==
  /\ c \in open
  /\ open' = open \ {c}
  /\ cur' = IF cur = c THEN NoConn ELSE cur
  /\ up' = [up EXCEPT ![c] = <<>>]
  /\ UNCHANGED <<hub, aconn, nconn, down, agent>>

-----------------------------------------------------------------------------
HandlerStep(r) ==
  IF r \in Uploads
  THEN streamFileToAgent(r) \/ uploadAcked(r) \/ uploadTimeout(r)
  ELSE askAnswered(r) \/ askTimeout(r)

Next ==
  \/ \E u \in Uploads : handleUploadFile(u)
  \/ \E a \in Asks : \/ handleDeleteDropzoneFile(a) \/ handleListDropzone(a)
                      \/ handleListFiles(a) \/ handleReadFile(a)
  \/ \E r \in Requests : HandlerStep(r)
  \/ \E c \in Conns : \/ HubRecv(c) \/ startRecvLoop(c)
                      \/ handleFileUploadRequest(c) \/ HubClose(c)
  \/ \E g \in gor : handleMessage(g)
  \/ Connect \/ Disconnect \/ AgentCrash

Spec == Init /\ [][Next]_vars

-----------------------------------------------------------------------------
(* A file under its final name is the whole of one upload: its chunks, in  *)
(* order and without a gap, whatever connections they came over, however   *)
(* uploads of the same name overlap and wherever the agent stopped.  The   *)
(* one exception is an upload with a chunk that was handled after the      *)
(* Cleanup of its connection (dropzone.go HandleChunk, client.go           *)
(* startRecvLoop).                                                         *)
FinalIsWhole ==
  \A n \in Names : dz.final[n] # None =>
    LET f == dz.final[n] IN
    \/ f.data = [i \in 1 .. sent[f.id] |-> i] /\ phase[f.id] \in {"wait", "done"}
    \/ f.id \in late

(* A client that is told of success uploaded a file that reached its final name,  *)
(* though answers outlive the requests they belong to and several requests *)
(* wait at once (pending.go Deliver, handlers_upload.go handleUploadFile). *)
SuccessMeansStored ==
  \A u \in Uploads : answer[u] = "ok" => u \in stored

(* A temporary file belongs to an upload in progress, or was left by a     *)
(* failed write or by the end of the process (dropzone.go HandleChunk,     *)
(* Cleanup).                                                               *)
TempHasOwner == dz.temps \subseteq dz.open \cup dz.leaked
=============================================================================
