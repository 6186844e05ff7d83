-------------------------- MODULE FileUploadProofs --------------------------
(***************************************************************************)
(* Proofs about FileUpload, for any number of uploads, other requests,     *)
(* connections and failures, and any size of a file and of the dropzone:   *)
(* type correctness with the limit of open uploads, every temporary file   *)
(* has an owner, success is reported for stored files only, a file under   *)
(* its final name is whole, and a request is answered once.                *)
(*                                                                         *)
(* Wholeness is the hard one.  The chunks of an upload reach the dropzone  *)
(* over connections that come and go, and what is in the dropzone says     *)
(* nothing of the chunks to come.  UploadInv says it: what an upload has   *)
(* open and what is on its way to it over the agent's connection are       *)
(* together all that was sent, in order.                                   *)
(***************************************************************************)
EXTENDS FileUpload, FiniteSetTheorems, TLAPS

-----------------------------------------------------------------------------
(* The inductive invariant. *)

\* The dropzone: every temporary file is open or left over, not both.
DropzoneInv(d) ==
  /\ d \in Dropzone
  /\ IsFiniteSet(d.open) /\ Cardinality(d.open) <= MaxConcurrentUploads
  /\ d.leaked \subseteq d.temps /\ d.leaked \cap d.open = {}
  /\ d.temps \subseteq d.open \cup d.leaked

\* An acknowledgement of success is about a stored upload, on its way and in
\* the channel of its request.
AckIsTrue(m) == m.type = "ack" /\ m.ok => m.id \in stored
AnswersAreTrue ==
  /\ \A c \in Conns : \A i \in DOMAIN up[c] : AckIsTrue(up[c][i])
  /\ \A r \in Requests : pend[r] \notin {None, Empty} => pend[r].id = r /\ AckIsTrue(pend[r])
  /\ SuccessMeansStored

\* While the agent has a connection the hub sends over that one or over none;
\* messages wait on that connection only; and a connection that is still to be
\* made is empty.
OneConnection ==
  /\ aconn <= nconn
  /\ aconn # NoConn => cur \in {NoConn, aconn}
  /\ \A c \in Conns : c # aconn => down[c] = <<>>
  /\ \A c \in Conns : c > nconn => hand[c] = None

\* The places of the chunks of u on the agent's connection: 0 is the hand of
\* the receive goroutine.
Msg(i) == IF i = 0 THEN hand[aconn] ELSE down[aconn][i]
Place(u) ==
  IF aconn = NoConn THEN {}
  ELSE {i \in 0 .. Len(down[aconn]) : Msg(i) # None /\ Msg(i).id = u}

\* A chunk is one that was sent, the name is with the first, and after the
\* marker nothing is sent.
ChunkWasSent(u, m) ==
  /\ m.done => m.data = 0 /\ phase[u] \in {"wait", "done"}
  /\ ~m.done => m.data \in 1 .. sent[u]
  /\ m.data # 1 => m.name = NoName
InOrder(u) ==
  \A i, j \in Place(u) : i < j => ~Msg(i).done /\ (Msg(j).done \/ Msg(i).data < Msg(j).data)
PlacesInv == \A u \in Uploads : InOrder(u) /\ \A i \in Place(u) : ChunkWasSent(u, Msg(i))

\* All that was sent after the first k chunks is on its way.
RestOnWay(u, k) == \A n \in k + 1 .. sent[u] : \E i \in Place(u) : Msg(i).data = n
FirstChunks(k) == [i \in 1 .. k |-> i]

\* What is open begins with the first chunk, goes on without a gap, and lacks
\* what is on its way; what is not open and may yet be opened lacks all.
OpenIsComplete(u) ==
  \E k \in 0 .. sent[u] :
    /\ dz.data[u] = FirstChunks(k) /\ RestOnWay(u, k)
    /\ \A i \in Place(u) : ~Msg(i).done => Msg(i).data > k
FreshIsComplete(u) == (\E i \in Place(u) : Msg(i).data = 1) => RestOnWay(u, 0)
NothingMissing ==
  \A u \in Uploads \ late :
    /\ u \in dz.open => aconn # NoConn /\ OpenIsComplete(u)
    /\ u \notin dz.open => FreshIsComplete(u)

UploadInv ==
  /\ TypeOK /\ DropzoneInv(dz) /\ AnswersAreTrue /\ OneConnection
  /\ PlacesInv /\ NothingMissing /\ FinalIsWhole

-----------------------------------------------------------------------------
(* The dropzone's operators. *)

LEMMA ConstantTypes ==
  /\ Uploads \cap Asks = {} /\ NameOf \in [Uploads -> Names]
  /\ MaxUploadSize \in Nat /\ MaxConcurrentUploads \in Nat /\ MaxConn \in Nat /\ MaxFaults \in Nat
  /\ Window \in Nat \ {0}
  /\ None # Empty /\ None \notin Answers /\ Empty \notin Answers
  /\ None \notin Chunks /\ None # "ok" /\ None # "failed" /\ None # "error"
  BY UploadAssumption

\* delete(d.uploads, id): the upload is no longer open and nothing else changes.
LEMMA ForgetFields ==
  ASSUME NEW d \in Dropzone, NEW u \in Uploads
  PROVE  LET e == Forget(d, u) IN
         /\ e \in Dropzone
         /\ e.open = d.open \ {u} /\ e.data = [d.data EXCEPT ![u] = <<>>]
         /\ e.temps = d.temps /\ e.leaked = d.leaked /\ e.final = d.final
<1>1. d.data \in [Uploads -> Seq(1 .. MaxUploadSize)]
  BY DEF Dropzone
<1>2. <<>> \in Seq(1 .. MaxUploadSize)
  OBVIOUS
<1> DEFINE none == <<>>
<1> HIDE DEF none
<1>3. [d.data EXCEPT ![u] = none] \in [Uploads -> Seq(1 .. MaxUploadSize)]
  BY <1>1, <1>2 DEF none
<1>4. Forget(d, u) = [d EXCEPT !.open = @ \ {u}, !.data = [d.data EXCEPT ![u] = none]]
  BY DEF Dropzone, none, Forget
<1>5. LET e == [d EXCEPT !.open = @ \ {u}, !.data = [d.data EXCEPT ![u] = none]] IN
      /\ e \in Dropzone
      /\ e.open = d.open \ {u} /\ e.data = [d.data EXCEPT ![u] = none]
      /\ e.temps = d.temps /\ e.leaked = d.leaked /\ e.final = d.final
  BY <1>3 DEF Dropzone
<1> QED
  BY <1>4, <1>5 DEF none

\* os.Remove of a temporary file.
LEMMA RemoveTempFields ==
  ASSUME NEW d \in Dropzone, NEW u \in Uploads
  PROVE  LET e == RemoveTemp(d, u) IN
         /\ e \in Dropzone
         /\ e.open = d.open /\ e.data = d.data
         /\ e.temps = d.temps \ {u} /\ e.leaked = d.leaked \ {u} /\ e.final = d.final
  BY DEF RemoveTemp, Dropzone

\* openNewUpload's temporary file is open, empty and not left over.
LEMMA CreateFields ==
  ASSUME NEW d \in Dropzone, NEW u \in Uploads
  PROVE  LET e == Create(d, u) IN
         /\ e \in Dropzone
         /\ e.open = d.open \cup {u} /\ e.data = [d.data EXCEPT ![u] = <<>>]
         /\ e.temps = d.temps \cup {u} /\ e.leaked = d.leaked \ {u} /\ e.final = d.final
<1>1. d.data \in [Uploads -> Seq(1 .. MaxUploadSize)]
  BY DEF Dropzone
<1>2. <<>> \in Seq(1 .. MaxUploadSize)
  OBVIOUS
<1> DEFINE none == <<>>
<1> HIDE DEF none
<1>3. [d.data EXCEPT ![u] = none] \in [Uploads -> Seq(1 .. MaxUploadSize)]
  BY <1>1, <1>2 DEF none
<1>4. Create(d, u) = [d EXCEPT !.open = @ \cup {u}, !.data = [d.data EXCEPT ![u] = none],
                            !.temps = @ \cup {u}, !.leaked = @ \ {u}]
  BY DEF Dropzone, none, Create
<1>5. LET e == [d EXCEPT !.open = @ \cup {u}, !.data = [d.data EXCEPT ![u] = none],
                            !.temps = @ \cup {u}, !.leaked = @ \ {u}] IN
      /\ e \in Dropzone
      /\ e.open = d.open \cup {u} /\ e.data = [d.data EXCEPT ![u] = none]
      /\ e.temps = d.temps \cup {u} /\ e.leaked = d.leaked \ {u} /\ e.final = d.final
  BY <1>3 DEF Dropzone
<1> QED
  BY <1>4, <1>5 DEF none

\* A chunk is written.
Put(d, u, n) == [d EXCEPT !.data[u] = Append(@, n)]
LEMMA WriteFields ==
  ASSUME NEW d \in Dropzone, NEW u \in Uploads, NEW n \in 1 .. MaxUploadSize
  PROVE  LET e == Put(d, u, n) IN
         /\ e \in Dropzone
         /\ e.open = d.open /\ e.data = [d.data EXCEPT ![u] = Append(d.data[u], n)]
         /\ e.temps = d.temps /\ e.leaked = d.leaked /\ e.final = d.final
<1>1. d.data \in [Uploads -> Seq(1 .. MaxUploadSize)]
  BY DEF Dropzone
<1>2. Append(d.data[u], n) \in Seq(1 .. MaxUploadSize)
  BY <1>1
<1>3. [d.data EXCEPT ![u] = Append(d.data[u], n)] \in [Uploads -> Seq(1 .. MaxUploadSize)]
  BY <1>1, <1>2
<1>4. Put(d, u, n) = [d EXCEPT !.data = [d.data EXCEPT ![u] = Append(d.data[u], n)]]
  BY <1>1 DEF Dropzone, Put
<1> HIDE <1>2
<1> QED
  BY <1>1, <1>3, <1>4 DEF Dropzone

\* A failed write leaves its temporary file.
Leak(d, S) == [d EXCEPT !.leaked = @ \cup S]
LEMMA LeakFields ==
  ASSUME NEW d \in Dropzone, NEW S \in SUBSET Uploads
  PROVE  LET e == Leak(d, S) IN
         /\ e \in Dropzone
         /\ e.open = d.open /\ e.data = d.data
         /\ e.temps = d.temps /\ e.leaked = d.leaked \cup S /\ e.final = d.final
  BY DEF Dropzone, Leak

\* os.Rename to the final name.
LEMMA RenameFields ==
  ASSUME NEW d \in Dropzone, NEW n \in Names, NEW f \in Files
  PROVE  LET e == [d EXCEPT !.final[n] = f] IN
         /\ e \in Dropzone
         /\ e.open = d.open /\ e.data = d.data
         /\ e.temps = d.temps /\ e.leaked = d.leaked /\ e.final = [d.final EXCEPT ![n] = f]
  BY DEF Dropzone

\* An upload that ends without its temporary file leaves a sound dropzone.
LEMMA EndKeeps ==
  ASSUME NEW d, DropzoneInv(d), NEW u \in Uploads
  PROVE  /\ DropzoneInv(RemoveTemp(Forget(d, u), u))
         /\ u \notin d.temps => DropzoneInv(Forget(d, u))
         /\ DropzoneInv([Forget(d, u) EXCEPT !.leaked = @ \cup ({u} \cap d.temps)])
<1> DEFINE e == Forget(d, u)
           f == RemoveTemp(e, u)
           g == Leak(e, {u} \cap d.temps)
<1>1. d \in Dropzone /\ IsFiniteSet(d.open) /\ Cardinality(d.open) <= MaxConcurrentUploads
  BY DEF DropzoneInv
<1>2. /\ e \in Dropzone /\ e.open = d.open \ {u}
      /\ e.temps = d.temps /\ e.leaked = d.leaked
  BY <1>1, ForgetFields
<1>3. /\ f \in Dropzone /\ f.open = d.open \ {u}
      /\ f.temps = d.temps \ {u} /\ f.leaked = d.leaked \ {u}
  BY <1>2, RemoveTempFields
<1>4. /\ g \in Dropzone /\ g.open = d.open \ {u}
      /\ g.temps = d.temps /\ g.leaked = d.leaked \cup ({u} \cap d.temps)
  <2>1. {u} \cap d.temps \in SUBSET Uploads
    OBVIOUS
  <2> HIDE DEF e
  <2> QED
    BY <1>2, <2>1, LeakFields
<1>5. IsFiniteSet(d.open \ {u}) /\ Cardinality(d.open \ {u}) <= MaxConcurrentUploads
  <2>1. IsFiniteSet(d.open \ {u}) /\ Cardinality(d.open \ {u}) <= Cardinality(d.open)
    BY <1>1, FS_Subset
  <2>2. Cardinality(d.open) \in Nat /\ Cardinality(d.open \ {u}) \in Nat
    BY <1>1, <2>1, FS_CardinalityType
  <2> QED
    BY <1>1, <2>1, <2>2, ConstantTypes
<1>6. /\ d.leaked \subseteq d.temps /\ d.leaked \cap d.open = {}
      /\ d.temps \subseteq d.open \cup d.leaked
  BY DEF DropzoneInv
<1> HIDE DEF e, f, g
<1>7. DropzoneInv(f)
  BY <1>3, <1>5, <1>6 DEF DropzoneInv
<1>8. u \notin d.temps => DropzoneInv(e)
  BY <1>2, <1>5, <1>6 DEF DropzoneInv
<1>9. DropzoneInv(g)
  BY <1>4, <1>5, <1>6 DEF DropzoneInv
<1> QED
  BY <1>7, <1>8, <1>9 DEF e, f, g, Leak

\* A new upload takes a free slot.
LEMMA CreateKeeps ==
  ASSUME NEW d, DropzoneInv(d), NEW u \in Uploads, ~(Cardinality(d.open) >= MaxConcurrentUploads)
  PROVE  DropzoneInv(Create(d, u))
<1> DEFINE e == Create(d, u)
<1>1. /\ e \in Dropzone /\ e.open = d.open \cup {u}
      /\ e.temps = d.temps \cup {u} /\ e.leaked = d.leaked \ {u}
  BY CreateFields DEF DropzoneInv
<1>2. IsFiniteSet(d.open) /\ Cardinality(d.open) \in Nat
  BY FS_CardinalityType DEF DropzoneInv
<1>3. /\ IsFiniteSet(d.open \cup {u})
      /\ Cardinality(d.open \cup {u}) =
           IF u \in d.open THEN Cardinality(d.open) ELSE Cardinality(d.open) + 1
  BY <1>2, FS_AddElement
<1>4. Cardinality(e.open) <= MaxConcurrentUploads /\ IsFiniteSet(e.open)
  BY <1>1, <1>2, <1>3, ConstantTypes
<1>5. /\ d.leaked \subseteq d.temps /\ d.leaked \cap d.open = {}
      /\ d.temps \subseteq d.open \cup d.leaked
  BY DEF DropzoneInv
<1> HIDE DEF e
<1>6. DropzoneInv(e)
  BY <1>1, <1>4, <1>5 DEF DropzoneInv
<1> QED
  BY <1>6 DEF e

-----------------------------------------------------------------------------
(* HandleChunk, stage by stage. *)

\* From d to e, only the upload u changes.
OthersKept(d, e, u) ==
  \A v \in Uploads \ {u} : (v \in e.open <=> v \in d.open) /\ e.data[v] = d.data[v]

\* What the upload of m has before m is written, and after.
Before(d, m) == IF m.id \in d.open THEN d.data[m.id] ELSE <<>>
After(d, m) == IF m.data = 0 THEN Before(d, m) ELSE Append(Before(d, m), m.data)
MayOpen(d, m) == m.id \in d.open \/ m.name # NoName

\* The upload of m is open already, or opened, or refused.
Opened(d, m) == IF m.id \in d.open THEN {Out(d, None)} ELSE openNewUpload(d, m)

LEMMA OpenStage ==
  ASSUME NEW d, DropzoneInv(d), NEW m \in Chunks, NEW p \in Opened(d, m)
  PROVE  /\ DropzoneInv(p.d) /\ OthersKept(d, p.d, m.id) /\ p.d.final = d.final
         /\ p.ack \in {None, "failed"} /\ p.bad \in {0, 1}
         /\ p.ack = None => m.id \in p.d.open /\ p.d.data[m.id] = Before(d, m) /\ MayOpen(d, m)
         /\ p.ack # None => m.id \notin p.d.open
<1>1. d \in Dropzone /\ m.id \in Uploads
  BY DEF DropzoneInv, Chunks
<1>2. CASE m.id \in d.open
  <2>1. p = Out(d, None)
    BY <1>2 DEF Opened
  <2>2. p.d = d /\ p.ack = None /\ p.bad = 0
    BY <2>1 DEF Out
  <2> QED
    BY <1>2, <2>2 DEF OthersKept, Before, MayOpen
<1>3. CASE m.id \notin d.open /\ (p = Out(d, "failed") \/ p = Fault(d))
  <2>1. p.d = d /\ p.ack = "failed" /\ p.bad \in {0, 1}
    BY <1>3 DEF Out, Fault
  <2> QED
    BY <1>3, <2>1, ConstantTypes DEF OthersKept
<1>4. CASE /\ m.id \notin d.open /\ p = Out(Create(d, m.id), None)
           /\ ~(Cardinality(d.open) >= MaxConcurrentUploads) /\ m.name # NoName
  <2>1. p.d = Create(d, m.id) /\ p.ack = None /\ p.bad = 0
    BY <1>4 DEF Out
  <2>2. DropzoneInv(p.d)
    BY <1>1, <1>4, <2>1, CreateKeeps
  <2>3. /\ p.d.open = d.open \cup {m.id} /\ p.d.data = [d.data EXCEPT ![m.id] = <<>>]
        /\ p.d.final = d.final
    BY <1>1, <2>1, CreateFields
  <2>4. d.data \in [Uploads -> Seq(1 .. MaxUploadSize)]
    BY <1>1 DEF Dropzone
  <2>5. p.d.data[m.id] = <<>> /\ \A v \in Uploads \ {m.id} : p.d.data[v] = d.data[v]
    BY <1>1, <2>3, <2>4
  <2> QED
    BY <1>1, <1>4, <2>1, <2>2, <2>3, <2>5 DEF OthersKept, Before, MayOpen
<1>5. CASE m.id \notin d.open
  BY <1>3, <1>4, <1>5 DEF Opened, openNewUpload
<1> QED
  BY <1>2, <1>5

\* The chunk is written, or the upload is given up.
LEMMA WriteStage ==
  ASSUME NEW d, DropzoneInv(d), NEW m \in Chunks, m.id \in d.open, NEW q \in writeChunk(d, m)
  PROVE  /\ DropzoneInv(q.d) /\ OthersKept(d, q.d, m.id) /\ q.d.final = d.final
         /\ q.ack \in {None, "failed"} /\ q.bad \in {0, 1}
         /\ q.ack = None => m.id \in q.d.open /\ q.d.data[m.id] = After(d, m)
         /\ q.ack # None => m.id \notin q.d.open
<1>1. /\ d \in Dropzone /\ m.id \in Uploads
      /\ d.data \in [Uploads -> Seq(1 .. MaxUploadSize)]
  BY DEF DropzoneInv, Chunks, Dropzone
<1> DEFINE e == Forget(d, m.id)
<1>2. /\ e \in Dropzone /\ e.open = d.open \ {m.id}
      /\ e.data = [d.data EXCEPT ![m.id] = <<>>] /\ e.final = d.final
  BY <1>1, ForgetFields
<1>3. OthersKept(d, e, m.id)
  BY <1>1, <1>2 DEF OthersKept
<1> HIDE DEF e
<1>4. CASE m.data = 0 /\ q = Out(d, None)
  <2>1. q.d = d /\ q.ack = None /\ q.bad = 0
    BY <1>4 DEF Out
  <2> QED
    BY <1>4, <2>1 DEF OthersKept, After, Before
<1>5. CASE q = Out(RemoveTemp(e, m.id), "failed")
  <2>1. q.d = RemoveTemp(e, m.id) /\ q.ack = "failed" /\ q.bad = 0
    BY <1>5 DEF Out
  <2>2. q.d.open = e.open /\ q.d.data = e.data /\ q.d.final = e.final
    <3>1. /\ RemoveTemp(e, m.id).open = e.open /\ RemoveTemp(e, m.id).data = e.data
          /\ RemoveTemp(e, m.id).final = e.final
      BY <1>1, <1>2, RemoveTempFields
    <3> QED
      BY <2>1, <3>1
  <2>3. DropzoneInv(q.d)
    BY <1>1, <2>1, EndKeeps DEF e
  <2> QED
    BY <1>2, <1>3, <2>1, <2>2, <2>3, ConstantTypes DEF OthersKept
<1>6. CASE m.data # 0 /\ q = Out([d EXCEPT !.data[m.id] = Append(@, m.data)], None)
  <2>1. q.d = [d EXCEPT !.data[m.id] = Append(@, m.data)] /\ q.ack = None /\ q.bad = 0
    BY <1>6 DEF Out
  <2>2. m.data \in 1 .. MaxUploadSize
    BY <1>6, ConstantTypes DEF Chunks
  <2>3. /\ q.d \in Dropzone /\ q.d.open = d.open
        /\ q.d.data = [d.data EXCEPT ![m.id] = Append(d.data[m.id], m.data)]
        /\ q.d.temps = d.temps /\ q.d.leaked = d.leaked /\ q.d.final = d.final
    <3> DEFINE w == Put(d, m.id, m.data)
    <3>1. /\ w \in Dropzone /\ w.open = d.open
          /\ w.data = [d.data EXCEPT ![m.id] = Append(d.data[m.id], m.data)]
          /\ w.temps = d.temps /\ w.leaked = d.leaked /\ w.final = d.final
      BY <1>1, <2>2, WriteFields
    <3> HIDE DEF w
    <3>2. q.d = w
      BY <2>1 DEF w, Put
    <3> QED
      BY <3>1, <3>2
  <2>4. DropzoneInv(q.d)
    BY <2>3 DEF DropzoneInv
  <2>5. /\ q.d.data[m.id] = Append(d.data[m.id], m.data)
        /\ \A v \in Uploads \ {m.id} : q.d.data[v] = d.data[v]
    BY <1>1, <2>3
  <2> QED
    BY <1>6, <2>1, <2>3, <2>4, <2>5 DEF OthersKept, After, Before
<1>7. CASE q = Fault([e EXCEPT !.leaked = @ \cup ({m.id} \cap d.temps)])
  <2>1. q.d = [e EXCEPT !.leaked = @ \cup ({m.id} \cap d.temps)] /\ q.ack = "failed" /\ q.bad = 1
    BY <1>7 DEF Fault
  <2>2. {m.id} \cap d.temps \in SUBSET Uploads
    BY <1>1
  <2>3. q.d.open = e.open /\ q.d.data = e.data /\ q.d.final = e.final
    BY <1>2, <2>1, <2>2, LeakFields DEF Leak
  <2>4. DropzoneInv(q.d)
    BY <1>1, <2>1, EndKeeps DEF e
  <2> QED
    BY <1>2, <1>3, <2>1, <2>3, <2>4, ConstantTypes DEF OthersKept
<1> QED
  BY <1>4, <1>5, <1>6, <1>7 DEF writeChunk, e

\* The last chunk ends the upload: with the file under its final name and
\* success, or with neither.
LEMMA FinishStage ==
  ASSUME NEW d, DropzoneInv(d), NEW m \in Chunks, m.id \in d.open, NEW o \in finishUpload(d, m)
  PROVE  /\ DropzoneInv(o.d) /\ OthersKept(d, o.d, m.id)
         /\ o.ack \in {None, "failed", "ok"} /\ o.bad \in {0, 1}
         /\ ~m.done => o.d = d /\ o.ack = None
         /\ m.done => m.id \notin o.d.open
         /\ o.ack = "ok" => m.done /\
              o.d.final = [d.final EXCEPT ![NameOf[m.id]] = [id |-> m.id, data |-> d.data[m.id]]]
         /\ o.ack # "ok" => o.d.final = d.final
<1>1. /\ d \in Dropzone /\ m.id \in Uploads
      /\ d.data \in [Uploads -> Seq(1 .. MaxUploadSize)]
  BY DEF DropzoneInv, Chunks, Dropzone
<1> DEFINE e == Forget(d, m.id)
           r == RemoveTemp(e, m.id)
           f == [id |-> m.id, data |-> d.data[m.id]]
<1>2. /\ e \in Dropzone /\ e.open = d.open \ {m.id}
      /\ e.data = [d.data EXCEPT ![m.id] = <<>>] /\ e.final = d.final
  BY <1>1, ForgetFields
<1>3. OthersKept(d, e, m.id)
  BY <1>1, <1>2 DEF OthersKept
<1>4. DropzoneInv(r) /\ (m.id \notin d.temps => DropzoneInv(e))
  BY <1>1, EndKeeps
<1> HIDE DEF e
<1>5. r \in Dropzone /\ r.open = e.open /\ r.data = e.data /\ r.final = e.final
  BY <1>1, <1>2, RemoveTempFields
<1>6. f \in Files
  BY <1>1 DEF Files
<1>a. OthersKept(d, r, m.id)
  <2> HIDE DEF r
  <2> QED
    BY <1>3, <1>5 DEF OthersKept
<1> HIDE DEF r, f
<1>7. CASE ~m.done
  <2>1. o.d = d /\ o.ack = None /\ o.bad = 0
    BY <1>7 DEF finishUpload, Out
  <2> QED
    BY <1>7, <2>1, ConstantTypes DEF OthersKept
<1>8. CASE m.done /\ m.id \notin d.temps /\ o = Out(e, "failed")
  <2>1. o.d = e /\ o.ack = "failed" /\ o.bad = 0
    BY <1>8 DEF Out
  <2> QED
    BY <1>2, <1>3, <1>4, <1>8, <2>1, ConstantTypes
<1>9. CASE m.done /\ o = Fault(r)
  <2>1. o.d = r /\ o.ack = "failed" /\ o.bad = 1
    BY <1>9 DEF Fault
  <2> QED
    BY <1>2, <1>4, <1>5, <1>a, <1>9, <2>1, ConstantTypes
<1>10. CASE m.done /\ o = Out([r EXCEPT !.final[NameOf[m.id]] = f], "ok")
  <2>1. o.d = [r EXCEPT !.final[NameOf[m.id]] = f] /\ o.ack = "ok" /\ o.bad = 0
    BY <1>10 DEF Out
  <2>2. NameOf[m.id] \in Names
    BY <1>1, ConstantTypes
  <2>3. /\ o.d \in Dropzone /\ o.d.open = r.open /\ o.d.data = r.data
        /\ o.d.temps = r.temps /\ o.d.leaked = r.leaked
        /\ o.d.final = [r.final EXCEPT ![NameOf[m.id]] = f]
    BY <1>5, <1>6, <2>1, <2>2, RenameFields
  <2>4. DropzoneInv(o.d)
    BY <1>4, <2>3 DEF DropzoneInv
  <2>5. OthersKept(d, o.d, m.id)
    BY <1>a, <2>3 DEF OthersKept
  <2>6. o.d.final = [d.final EXCEPT ![NameOf[m.id]] = f] /\ m.id \notin o.d.open
    BY <1>2, <1>5, <2>3
  <2> QED
    BY <1>10, <2>1, <2>4, <2>5, <2>6, ConstantTypes DEF f
<1>11. CASE m.done
  BY <1>8, <1>9, <1>10, <1>11 DEF finishUpload, e, r, f
<1> QED
  BY <1>7, <1>11

\* What HandleChunk may do with the upload of m: nothing is open, nothing is
\* published and no success is reported; or m is written; or m is the last
\* chunk and all that was written is published.
GivenUp(d, o, m) == m.id \notin o.d.open /\ o.d.final = d.final /\ o.ack # "ok"
Kept(d, o, m) ==
  /\ MayOpen(d, m) /\ ~m.done
  /\ m.id \in o.d.open /\ o.d.data[m.id] = After(d, m)
  /\ o.d.final = d.final /\ o.ack = None
Published(d, o, m) ==
  /\ MayOpen(d, m) /\ m.done
  /\ m.id \notin o.d.open /\ o.ack = "ok"
  /\ o.d.final = [d.final EXCEPT ![NameOf[m.id]] = [id |-> m.id, data |-> After(d, m)]]

LEMMA ChunkOutcome ==
  ASSUME NEW d, DropzoneInv(d), NEW m \in Chunks, NEW o \in HandleChunk(d, m)
  PROVE  /\ DropzoneInv(o.d) /\ OthersKept(d, o.d, m.id)
         /\ o.ack \in {None, "failed", "ok"} /\ o.bad \in {0, 1}
         /\ GivenUp(d, o, m) \/ Kept(d, o, m) \/ Published(d, o, m)
<1>1. PICK p \in Opened(d, m) :
        \E q \in IF p.ack = None THEN writeChunk(p.d, m) ELSE {p} :
          o \in IF q.ack = None THEN finishUpload(q.d, m) ELSE {q}
  BY DEF HandleChunk, Opened
<1>2. PICK q \in IF p.ack = None THEN writeChunk(p.d, m) ELSE {p} :
          o \in IF q.ack = None THEN finishUpload(q.d, m) ELSE {q}
  BY <1>1
<1>3. /\ DropzoneInv(p.d) /\ OthersKept(d, p.d, m.id) /\ p.d.final = d.final
      /\ p.ack \in {None, "failed"} /\ p.bad \in {0, 1}
      /\ p.ack = None => m.id \in p.d.open /\ p.d.data[m.id] = Before(d, m) /\ MayOpen(d, m)
      /\ p.ack # None => m.id \notin p.d.open
  BY OpenStage
<1>4. CASE p.ack # None
  <2>1. q = p /\ o = p
    BY <1>1, <1>2, <1>4
  <2> QED
    BY <1>3, <1>4, <2>1, ConstantTypes DEF GivenUp
<1>5. CASE p.ack = None
  <2>1. /\ DropzoneInv(q.d) /\ OthersKept(p.d, q.d, m.id) /\ q.d.final = p.d.final
        /\ q.ack \in {None, "failed"} /\ q.bad \in {0, 1}
        /\ q.ack = None => m.id \in q.d.open /\ q.d.data[m.id] = After(p.d, m)
        /\ q.ack # None => m.id \notin q.d.open
    BY <1>2, <1>3, <1>5, WriteStage
  <2>2. After(p.d, m) = After(d, m)
    BY <1>3, <1>5 DEF After, Before
  <2>3. OthersKept(d, q.d, m.id)
    BY <1>3, <2>1 DEF OthersKept
  <2>4. CASE q.ack # None
    <3>1. o = q
      BY <1>2, <2>4
    <3> QED
      BY <1>3, <2>1, <2>3, <2>4, <3>1, ConstantTypes DEF GivenUp
  <2>5. CASE q.ack = None
    <3>1. /\ DropzoneInv(o.d) /\ OthersKept(q.d, o.d, m.id)
          /\ o.ack \in {None, "failed", "ok"} /\ o.bad \in {0, 1}
          /\ ~m.done => o.d = q.d /\ o.ack = None
          /\ m.done => m.id \notin o.d.open
          /\ o.ack = "ok" => m.done /\
               o.d.final = [q.d.final EXCEPT ![NameOf[m.id]] = [id |-> m.id, data |-> q.d.data[m.id]]]
          /\ o.ack # "ok" => o.d.final = q.d.final
      BY <1>2, <2>1, <2>5, FinishStage
    <3>2. OthersKept(d, o.d, m.id)
      BY <2>3, <3>1 DEF OthersKept
    <3>3. CASE ~m.done
      <4>1. Kept(d, o, m)
        BY <1>3, <1>5, <2>1, <2>2, <2>5, <3>1, <3>3, ConstantTypes DEF Kept
      <4> QED
        BY <3>1, <3>2, <4>1
    <3>4. CASE m.done /\ o.ack # "ok"
      <4>1. GivenUp(d, o, m)
        BY <1>3, <2>1, <3>1, <3>4 DEF GivenUp
      <4> QED
        BY <3>1, <3>2, <4>1
    <3>5. CASE o.ack = "ok"
      <4>1. Published(d, o, m)
        BY <1>3, <1>5, <2>1, <2>2, <2>5, <3>1, <3>5 DEF Published
      <4> QED
        BY <3>1, <3>2, <4>1
    <3> QED
      BY <3>3, <3>4, <3>5
  <2> QED
    BY <2>4, <2>5
<1> QED
  BY <1>4, <1>5

-----------------------------------------------------------------------------
(* The hub's handlers. *)

LEMMA InitUploadInv == Init => UploadInv
<1> SUFFICES ASSUME Init PROVE UploadInv
  OBVIOUS
<1> USE DEF Init
<1>1. DropzoneInv(dz)
  <2>1. NoData \in [Uploads -> Seq(1 .. MaxUploadSize)]
    BY DEF NoData
  <2>2. dz \in Dropzone
    BY <2>1 DEF Dropzone
  <2>3. IsFiniteSet(dz.open) /\ Cardinality(dz.open) = 0
    BY FS_EmptySet
  <2> QED
    BY <2>2, <2>3, ConstantTypes DEF DropzoneInv
<1>2. TypeOK
  <2>1. /\ phase \in [Requests -> {"idle", "stream", "wait", "done"}]
        /\ sent \in [Uploads -> 0 .. MaxUploadSize]
        /\ target \in [Asks -> {None} \cup Targets]
        /\ answer \in [Requests -> {None, "ok", "error"}]
        /\ pend \in [Requests -> {None, Empty} \cup Answers]
    BY ConstantTypes
  <2>2. /\ cur \in {NoConn} \cup open /\ open \subseteq Conns
        /\ aconn \in {NoConn} \cup Conns /\ nconn \in 0 .. MaxConn /\ faults \in 0 .. MaxFaults
    BY ConstantTypes
  <2>3. /\ down \in [Conns -> Seq(Chunks \cup Questions)] /\ up \in [Conns -> Seq(Answers)]
    OBVIOUS
  <2>4. /\ hand \in [Conns -> {None} \cup Chunks] /\ gor \subseteq Conns \X Questions
        /\ late \subseteq Uploads /\ stored \subseteq Uploads
    OBVIOUS
  <2>5. dz \in Dropzone /\ dz.leaked \subseteq dz.temps /\ Cardinality(dz.open) <= MaxConcurrentUploads
    BY <1>1 DEF DropzoneInv
  <2> QED
    BY <2>1, <2>2, <2>3, <2>4, <2>5 DEF TypeOK
<1>3. AnswersAreTrue
  <2>1. \A c \in Conns : up[c] = <<>>
    OBVIOUS
  <2>2. \A r \in Requests : pend[r] = None /\ answer[r] = None
    OBVIOUS
  <2>3. SuccessMeansStored
    BY <2>2, ConstantTypes DEF SuccessMeansStored, Requests
  <2> QED
    BY <2>1, <2>2, <2>3 DEF AnswersAreTrue
<1>4. OneConnection
  BY DEF OneConnection, NoConn, Conns
<1>5. \A u \in Uploads : Place(u) = {}
  BY DEF Place, NoConn
<1>6. PlacesInv /\ NothingMissing
  BY <1>5 DEF PlacesInv, InOrder, NothingMissing, FreshIsComplete
<1>7. FinalIsWhole
  BY DEF FinalIsWhole
<1> QED
  BY <1>1, <1>2, <1>3, <1>4, <1>6, <1>7 DEF UploadInv

\* A handler that has sent its last chunk, or has answered, sends no more.
Settled(u) == phase[u] \in {"wait", "done"}
StaysSettled == \A u \in Uploads : Settled(u) => Settled(u)'

\* Where the chunks are depends on the agent's connection only.
SamePlaces == \A u \in Uploads : Place(u)' = Place(u) /\ \A i \in Place(u) : Msg(i)' = Msg(i)

LEMMA PlaceKept ==
  ASSUME UNCHANGED <<aconn, down, hand>>
  PROVE  SamePlaces
  BY DEF SamePlaces, Place, Msg

LEMMA FinalKept ==
  ASSUME TypeOK, FinalIsWhole, UNCHANGED sent, dz'.final = dz.final, late \subseteq late', StaysSettled
  PROVE  FinalIsWhole'
<1> SUFFICES ASSUME NEW n \in Names, dz.final[n] # None
             PROVE  LET f == dz.final[n] IN
                    \/ f.data = [i \in 1 .. sent[f.id] |-> i] /\ Settled(f.id)'
                    \/ f.id \in late'
  BY DEF FinalIsWhole, Settled
<1> DEFINE f == dz.final[n]
<1>1. f.id \in Uploads
  BY DEF TypeOK, Dropzone, Files
<1>2. (f.data = [i \in 1 .. sent[f.id] |-> i] /\ Settled(f.id)) \/ f.id \in late
  BY DEF FinalIsWhole, Settled
<1> QED
  BY <1>1, <1>2 DEF StaysSettled

\* A step that leaves the agent's side alone.
LEMMA PipeKept ==
  ASSUME UploadInv, SamePlaces, UNCHANGED <<sent, aconn, dz, late>>, StaysSettled
  PROVE  PlacesInv' /\ NothingMissing' /\ FinalIsWhole' /\ DropzoneInv(dz')
<1>1. \A u \in Uploads : Place(u)' = Place(u) /\ \A i \in Place(u) : Msg(i)' = Msg(i)
  BY DEF SamePlaces
<1>2. PlacesInv'
  <2> SUFFICES ASSUME NEW u \in Uploads
               PROVE  InOrder(u)' /\ \A i \in Place(u) : ChunkWasSent(u, Msg(i))'
    BY <1>1 DEF PlacesInv
  <2>1. InOrder(u) /\ \A i \in Place(u) : ChunkWasSent(u, Msg(i))
    BY DEF UploadInv, PlacesInv
  <2>2. InOrder(u)'
    BY <1>1, <2>1 DEF InOrder
  <2>3. ASSUME NEW i \in Place(u) PROVE ChunkWasSent(u, Msg(i))'
    BY <1>1, <2>1 DEF ChunkWasSent, StaysSettled, Settled
  <2> QED
    BY <2>2, <2>3
<1>3. NothingMissing'
  BY <1>1 DEF UploadInv, NothingMissing, OpenIsComplete, FreshIsComplete, RestOnWay
<1>4. FinalIsWhole'
  BY FinalKept DEF UploadInv
<1>5. DropzoneInv(dz')
  BY DEF UploadInv, DropzoneInv
<1> QED
  BY <1>2, <1>3, <1>4, <1>5

\* The types a handler of the hub may disturb.
HubTypes ==
  /\ phase \in [Requests -> {"idle", "stream", "wait", "done"}]
  /\ sent \in [Uploads -> 0 .. MaxUploadSize]
  /\ target \in [Asks -> {None} \cup Targets]
  /\ answer \in [Requests -> {None, "ok", "error"}]
  /\ pend \in [Requests -> {None, Empty} \cup Answers]

LEMMA HubTypesSuffice ==
  ASSUME TypeOK, HubTypes', UNCHANGED <<net, up, agent>>,
         down' \in [Conns -> Seq(Chunks \cup Questions)]
  PROVE  TypeOK'
  BY DEF TypeOK, HubTypes, net, agent

\* A handler answers: success only for what is stored.
LEMMA RespondKeeps ==
  ASSUME UploadInv, NEW r \in Requests, NEW status \in {"ok", "error"}, Respond(r, status),
         r \in Uploads /\ status = "ok" => r \in stored,
         target' \in [Asks -> {None} \cup Targets],
         UNCHANGED <<sent, net, down, up, agent>>
  PROVE  UploadInv'
<1>1. TypeOK /\ AnswersAreTrue /\ OneConnection
  BY DEF UploadInv
<1>2. /\ answer' = [answer EXCEPT ![r] = status] /\ phase' = [phase EXCEPT ![r] = "done"]
      /\ pend' = [pend EXCEPT ![r] = None]
  BY DEF Respond, Remove
<1>3. /\ phase \in [Requests -> {"idle", "stream", "wait", "done"}]
      /\ answer \in [Requests -> {None, "ok", "error"}]
      /\ pend \in [Requests -> {None, Empty} \cup Answers]
  BY <1>1 DEF TypeOK
<1>4. TypeOK'
  <2>1. HubTypes'
    BY <1>1, <1>2, <1>3 DEF HubTypes, TypeOK
  <2> QED
    BY <1>1, <2>1, HubTypesSuffice DEF TypeOK
<1>5. StaysSettled
  BY <1>2, <1>3 DEF StaysSettled, Settled, Requests
<1>6. AnswersAreTrue'
  <2>1. stored' = stored /\ up' = up
    BY DEF agent
  <2>2. \A c \in Conns : \A i \in DOMAIN up'[c] : AckIsTrue(up[c][i])'
    BY <1>1, <2>1 DEF AnswersAreTrue, AckIsTrue
  <2>3. \A s \in Requests : pend'[s] \notin {None, Empty} => pend'[s].id = s /\ AckIsTrue(pend[s])'
    BY <1>1, <1>2, <1>3, <2>1 DEF AnswersAreTrue, AckIsTrue
  <2>4. SuccessMeansStored'
    BY <1>1, <1>2, <1>3, <2>1 DEF AnswersAreTrue, SuccessMeansStored, Requests
  <2> QED
    BY <2>1, <2>2, <2>3, <2>4 DEF AnswersAreTrue
<1>7. OneConnection'
  BY <1>1 DEF OneConnection, net, agent
<1>8. PlacesInv' /\ NothingMissing' /\ FinalIsWhole' /\ DropzoneInv(dz')
  BY <1>5, PlaceKept, PipeKept DEF net, agent
<1> QED
  BY <1>4, <1>6, <1>7, <1>8 DEF UploadInv

\* A request enters its channel into the table.
LEMMA RegisterKeeps ==
  ASSUME UploadInv, NEW r \in Requests, pend' = Register(pend, r),
         UNCHANGED <<answer, up, stored>>
  PROVE  AnswersAreTrue' /\ pend' \in [Requests -> {None, Empty} \cup Answers]
<1>1. pend' = [pend EXCEPT ![r] = Empty] /\ pend \in [Requests -> {None, Empty} \cup Answers]
  BY DEF Register, UploadInv, TypeOK
<1>2. \A s \in Requests : pend'[s] \notin {None, Empty} => pend'[s] = pend[s]
  BY <1>1
<1>3. \A c \in Conns : \A i \in DOMAIN up'[c] : AckIsTrue(up[c][i])'
  BY DEF UploadInv, AnswersAreTrue, AckIsTrue
<1>4. \A s \in Requests : pend'[s] \notin {None, Empty} => pend'[s].id = s /\ AckIsTrue(pend[s])'
  BY <1>2 DEF UploadInv, AnswersAreTrue, AckIsTrue
<1>5. SuccessMeansStored'
  BY DEF UploadInv, AnswersAreTrue, SuccessMeansStored
<1> QED
  BY <1>1, <1>3, <1>4, <1>5 DEF AnswersAreTrue

\* handleUploadFile: refused, or registered and about to stream.
LEMMA HandleUploadFile ==
  ASSUME UploadInv, NEW u \in Uploads, handleUploadFile(u)
  PROVE  UploadInv'
<1>1. u \in Requests /\ target \in [Asks -> {None} \cup Targets]
  BY DEF Requests, UploadInv, TypeOK
<1>2. CASE Respond(u, "error")
  BY <1>1, <1>2, RespondKeeps DEF handleUploadFile
<1>3. CASE pend' = Register(pend, u) /\ phase' = [phase EXCEPT ![u] = "stream"] /\ UNCHANGED answer
  <2>1. phase[u] = "idle" /\ UNCHANGED <<sent, target, net, down, up, agent>>
    BY DEF handleUploadFile
  <2>2. AnswersAreTrue' /\ pend' \in [Requests -> {None, Empty} \cup Answers]
    BY <1>1, <1>3, <2>1, RegisterKeeps DEF agent
  <2>3. phase \in [Requests -> {"idle", "stream", "wait", "done"}]
    BY DEF UploadInv, TypeOK
  <2>4. HubTypes'
    BY <1>1, <1>3, <2>1, <2>2, <2>3 DEF HubTypes, UploadInv, TypeOK
  <2>5. TypeOK'
    BY <2>1, <2>4, HubTypesSuffice DEF UploadInv, TypeOK
  <2>6. StaysSettled
    BY <1>1, <1>3, <2>1, <2>3 DEF StaysSettled, Settled, Requests
  <2>7. OneConnection'
    BY <2>1 DEF UploadInv, OneConnection, net, agent
  <2>8. PlacesInv' /\ NothingMissing' /\ FinalIsWhole' /\ DropzoneInv(dz')
    BY <2>1, <2>6, PlaceKept, PipeKept DEF net, agent
  <2> QED
    BY <2>2, <2>5, <2>7, <2>8 DEF UploadInv
<1> QED
  BY <1>2, <1>3 DEF handleUploadFile

-----------------------------------------------------------------------------
(* Sending to the agent. *)

\* A message that is sent takes the place after all others.
LEMMA AppendPlaces ==
  ASSUME UploadInv, aconn # NoConn, NEW m \in Chunks \cup Questions,
         down' = [down EXCEPT ![aconn] = Append(@, m)], UNCHANGED <<aconn, hand>>,
         NEW n, n = Len(down[aconn]) + 1
  PROVE  /\ down' \in [Conns -> Seq(Chunks \cup Questions)]
         /\ Msg(n)' = m /\ n \in Nat
         /\ \A u : \A i \in Place(u) : i \in Nat /\ i < n /\ Msg(i)' = Msg(i)
         /\ \A u \in Uploads : Place(u)' = Place(u) \cup (IF m.id = u THEN {n} ELSE {})
<1>1. /\ aconn \in Conns /\ down \in [Conns -> Seq(Chunks \cup Questions)]
      /\ down[aconn] \in Seq(Chunks \cup Questions) /\ Len(down[aconn]) \in Nat
  BY DEF UploadInv, TypeOK
<1>2. down' \in [Conns -> Seq(Chunks \cup Questions)] /\ down'[aconn] = Append(down[aconn], m)
  BY <1>1
<1>3. Len(down'[aconn]) = n /\ n \in Nat /\ n > 0
  BY <1>1, <1>2
<1>4. down'[aconn][n] = m /\ \A i \in 1 .. Len(down[aconn]) : down'[aconn][i] = down[aconn][i]
  BY <1>1, <1>2
<1>5. Msg(n)' = m
  BY <1>3, <1>4 DEF Msg
<1>6. \A i \in 0 .. Len(down[aconn]) : Msg(i)' = Msg(i)
  BY <1>4 DEF Msg
<1>7. ASSUME NEW u, NEW i \in Place(u) PROVE i \in Nat /\ i < n /\ Msg(i)' = Msg(i)
  <2>1. i \in 0 .. Len(down[aconn])
    BY DEF Place
  <2> QED
    BY <1>1, <1>6, <2>1
<1>8. ASSUME NEW u \in Uploads
      PROVE  Place(u)' = Place(u) \cup (IF m.id = u THEN {n} ELSE {})
  <2>1. Place(u)' = {i \in 0 .. n : Msg(i)' # None /\ Msg(i)'.id = u}
    BY <1>3 DEF Place
  <2>2. Place(u) = {i \in 0 .. Len(down[aconn]) : Msg(i) # None /\ Msg(i).id = u}
    BY DEF Place
  <2>3. 0 .. n = (0 .. Len(down[aconn])) \cup {n}
    BY <1>1
  <2>4. m.id = u => m # None
    <3>1. m.id = u => m \in Chunks
      BY ConstantTypes DEF Questions
    <3> QED
      BY <3>1, ConstantTypes
  <2> QED
    BY <1>5, <1>6, <2>1, <2>2, <2>3, <2>4
<1> QED
  BY <1>2, <1>3, <1>5, <1>7, <1>8

\* A message that is lost at the hub: the agent has no connection.
LEMMA LostMessage ==
  ASSUME UploadInv, cur # NoConn, cur # aconn
  PROVE  aconn = NoConn /\ \A u : Place(u) = {}
  BY DEF UploadInv, OneConnection, Place

\* The places after an action that does not connect and changes no place.
LEMMA NoPlaces ==
  ASSUME aconn' = NoConn
  PROVE  PlacesInv' /\ \A u : Place(u)' = {}
<1>1. \A u : Place(u)' = {}
  BY DEF Place
<1> QED
  BY <1>1 DEF PlacesInv, InOrder

\* A handler whose upload is not settled has no file under a final name.
LEMMA UnsettledHasNoFile ==
  ASSUME UploadInv, NEW u \in Uploads, ~Settled(u), NEW n \in Names, dz.final[n] # None,
         dz.final[n].id = u
  PROVE  u \in late
  BY DEF UploadInv, FinalIsWhole, Settled

\* sendChunkToAgent, the chunk sent.
LEMMA SendChunk ==
  ASSUME UploadInv, NEW u \in Uploads, phase[u] = "stream", sent[u] + 1 <= MaxUploadSize,
         NEW m \in Chunks, m.id = u, m.data = sent[u] + 1, ~m.done, m.data # 1 => m.name = NoName,
         cur # NoConn,
         down' = IF cur = aconn THEN [down EXCEPT ![cur] = Append(@, m)] ELSE down,
         sent' = [sent EXCEPT ![u] = @ + 1],
         UNCHANGED <<phase, answer, pend, target, net, up, agent>>
  PROVE  UploadInv'
<1>1. /\ TypeOK /\ AnswersAreTrue /\ OneConnection /\ PlacesInv /\ NothingMissing /\ FinalIsWhole
      /\ sent \in [Uploads -> 0 .. MaxUploadSize]
  BY DEF UploadInv, TypeOK
<1>2. /\ sent' \in [Uploads -> 0 .. MaxUploadSize] /\ sent'[u] = sent[u] + 1
      /\ \A v \in Uploads \ {u} : sent'[v] = sent[v]
      /\ \A v \in Uploads : sent[v] \in Nat /\ sent'[v] \in Nat
  BY <1>1, ConstantTypes
<1>4. m.id = u /\ m.data = sent[u] + 1 /\ ~m.done /\ (m.data # 1 => m.name = NoName)
  OBVIOUS
<1>5. UNCHANGED <<aconn, hand, dz, late>>
  BY DEF net, agent
<1>6. StaysSettled /\ ~Settled(u)
  BY DEF StaysSettled, Settled
<1>7. AnswersAreTrue' /\ DropzoneInv(dz')
  BY <1>1 DEF AnswersAreTrue, AckIsTrue, SuccessMeansStored, agent, UploadInv, DropzoneInv
<1>8. FinalIsWhole'
  <2> SUFFICES ASSUME NEW n \in Names, dz.final[n] # None
               PROVE  LET f == dz.final[n] IN
                      \/ f.data = [i \in 1 .. sent'[f.id] |-> i] /\ phase[f.id] \in {"wait", "done"}
                      \/ f.id \in late
    BY <1>5 DEF FinalIsWhole
  <2> DEFINE f == dz.final[n]
  <2>1. f.id \in Uploads
    BY <1>1 DEF TypeOK, Dropzone, Files
  <2>2. CASE f.id = u
    BY <1>6, <2>2, UnsettledHasNoFile
  <2>3. CASE f.id # u
    BY <1>1, <1>2, <2>1, <2>3 DEF FinalIsWhole
  <2> QED
    BY <2>2, <2>3
<1>9. CASE cur = aconn
  <2>1. PICK n : n = Len(down[aconn]) + 1
    OBVIOUS
  <2>2. aconn # NoConn /\ down' = [down EXCEPT ![aconn] = Append(@, m)] /\ m \in Chunks \cup Questions
    BY <1>9
  <2>3. /\ down' \in [Conns -> Seq(Chunks \cup Questions)]
        /\ Msg(n)' = m /\ n \in Nat
        /\ \A v : \A i \in Place(v) : i \in Nat /\ i < n /\ Msg(i)' = Msg(i)
        /\ \A v \in Uploads : Place(v)' = Place(v) \cup (IF m.id = v THEN {n} ELSE {})
    BY <1>5, <2>1, <2>2, AppendPlaces
  <2>4. Place(u)' = Place(u) \cup {n} /\ \A v \in Uploads \ {u} : Place(v)' = Place(v)
    BY <2>3
  <2>5. \A i \in Place(u) : ~Msg(i).done /\ Msg(i).data \in 1 .. sent[u]
    BY <1>1, <1>6 DEF PlacesInv, ChunkWasSent, Settled
  <2>6. PlacesInv'
    <3> SUFFICES ASSUME NEW v \in Uploads
                 PROVE  InOrder(v)' /\ \A i \in Place(v)' : ChunkWasSent(v, Msg(i))'
      BY DEF PlacesInv
    <3>1. InOrder(v) /\ \A i \in Place(v) : ChunkWasSent(v, Msg(i))
      BY <1>1 DEF PlacesInv
    <3>2. CASE v # u
      <4>1. Place(v)' = Place(v) /\ sent'[v] = sent[v]
        BY <1>2, <2>4, <3>2
      <4> QED
        BY <2>3, <3>1, <4>1 DEF InOrder, ChunkWasSent
    <3>3. CASE v = u
      <4>1. \A i \in Place(u) : ChunkWasSent(u, Msg(i))'
        BY <1>2, <2>3, <3>1, <3>3 DEF ChunkWasSent
      <4>2. ChunkWasSent(u, Msg(n))'
        BY <1>2, <1>4, <2>3 DEF ChunkWasSent
      <4>3. InOrder(u)'
        <5> SUFFICES ASSUME NEW i \in Place(u)', NEW j \in Place(u)', i < j
                     PROVE  ~Msg(i)'.done /\ (Msg(j)'.done \/ Msg(i)'.data < Msg(j)'.data)
          BY DEF InOrder
        <5>1. i \in Place(u)
          BY <2>3, <2>4
        <5>2. CASE j = n
          BY <1>2, <1>4, <2>3, <2>5, <5>1, <5>2
        <5>3. CASE j \in Place(u)
          BY <2>3, <3>1, <3>3, <5>1, <5>3 DEF InOrder
        <5> QED
          BY <2>4, <5>2, <5>3
      <4> QED
        BY <2>4, <3>3, <4>1, <4>2, <4>3
    <3> QED
      BY <3>2, <3>3
  <2>7. NothingMissing'
    <3> SUFFICES ASSUME NEW v \in Uploads \ late
                 PROVE  /\ v \in dz.open => aconn # NoConn /\ OpenIsComplete(v)'
                        /\ v \notin dz.open => FreshIsComplete(v)'
      BY <1>5 DEF NothingMissing
    <3>1. /\ v \in dz.open => aconn # NoConn /\ OpenIsComplete(v)
          /\ v \notin dz.open => FreshIsComplete(v)
      BY <1>1 DEF NothingMissing
    <3>2. CASE v # u
      <4>1. Place(v)' = Place(v) /\ sent'[v] = sent[v]
        BY <1>2, <2>4, <3>2
      <4>2. \A k : RestOnWay(v, k) => RestOnWay(v, k)'
        BY <2>3, <4>1 DEF RestOnWay
      <4> QED
        BY <1>5, <2>3, <3>1, <4>1, <4>2 DEF OpenIsComplete, FreshIsComplete
    <3>3. CASE v = u
      <4>1. ASSUME NEW k \in Nat, RestOnWay(u, k) PROVE RestOnWay(u, k)'
        <5> SUFFICES ASSUME NEW x \in k + 1 .. sent'[u] PROVE \E i \in Place(u)' : Msg(i)'.data = x
          BY DEF RestOnWay
        <5>1. CASE x = sent[u] + 1
          BY <1>4, <2>3, <2>4, <5>1
        <5>2. CASE x # sent[u] + 1
          <6>1. x \in k + 1 .. sent[u]
            BY <1>2, <5>2
          <6> QED
            BY <2>3, <2>4, <4>1, <6>1 DEF RestOnWay
        <5> QED
          BY <5>1, <5>2
      <4>2. ASSUME u \in dz.open PROVE OpenIsComplete(u)'
        <5>1. PICK k \in 0 .. sent[u] :
                /\ dz.data[u] = FirstChunks(k) /\ RestOnWay(u, k)
                /\ \A i \in Place(u) : ~Msg(i).done => Msg(i).data > k
          BY <3>1, <3>3, <4>2 DEF OpenIsComplete
        <5>2. k \in 0 .. sent'[u] /\ dz'.data[u] = FirstChunks(k) /\ RestOnWay(u, k)'
          BY <1>2, <1>5, <4>1, <5>1
        <5>3. \A i \in Place(u)' : ~Msg(i)'.done => Msg(i)'.data > k
          BY <1>2, <1>4, <2>3, <2>4, <5>1
        <5> QED
          BY <5>2, <5>3 DEF OpenIsComplete
      <4>3. ASSUME u \notin dz.open PROVE FreshIsComplete(u)'
        <5> SUFFICES ASSUME NEW i \in Place(u)', Msg(i)'.data = 1 PROVE RestOnWay(u, 0)'
          BY DEF FreshIsComplete
        <5>1. CASE i \in Place(u)
          BY <2>3, <3>1, <3>3, <4>1, <4>3, <5>1 DEF FreshIsComplete
        <5>2. CASE i = n
          <6>1. sent[u] = 0
            BY <1>2, <1>4, <2>3, <5>2
          <6>2. RestOnWay(u, 0)
            BY <6>1 DEF RestOnWay
          <6> QED
            BY <4>1, <6>2
        <5> QED
          BY <2>4, <5>1, <5>2
      <4> QED
        BY <1>5, <3>1, <3>3, <4>2, <4>3
    <3> QED
      BY <3>2, <3>3
  <2>8. OneConnection'
    <3>1. \A c \in Conns : c # aconn => down'[c] = down[c]
      BY <1>1, <2>2 DEF TypeOK
    <3> QED
      BY <1>1, <1>5, <3>1 DEF OneConnection, net
  <2>9. TypeOK'
    <3>1. HubTypes'
      BY <1>1, <1>2 DEF HubTypes, TypeOK
    <3> QED
      BY <1>1, <2>3, <3>1, HubTypesSuffice
  <2> QED
    BY <1>7, <1>8, <2>6, <2>7, <2>8, <2>9 DEF UploadInv
<1>10. CASE cur # aconn
  <2>1. aconn = NoConn /\ down' = down
    BY <1>10, LostMessage
  <2>2. PlacesInv' /\ \A v : Place(v)' = {}
    BY <1>5, <2>1, NoPlaces
  <2>3. NothingMissing'
    BY <1>1, <1>5, <2>1, <2>2 DEF NothingMissing, FreshIsComplete
  <2>4. OneConnection'
    BY <1>1, <1>5, <2>1 DEF OneConnection, net
  <2>5. TypeOK'
    <3>1. HubTypes'
      BY <1>1, <1>2 DEF HubTypes, TypeOK
    <3> QED
      BY <1>1, <2>1, <3>1, HubTypesSuffice DEF TypeOK
  <2> QED
    BY <1>7, <1>8, <2>2, <2>3, <2>4, <2>5 DEF UploadInv
<1> QED
  BY <1>9, <1>10

\* streamFileToAgent's next chunk: too much, sent, or not sent.
LEMMA SendChunkToAgent ==
  ASSUME UploadInv, NEW u \in Uploads, sendChunkToAgent(u)
  PROVE  UploadInv'
<1>1. /\ u \in Requests /\ phase[u] = "stream" /\ UNCHANGED <<target, net, up, agent>>
      /\ target \in [Asks -> {None} \cup Targets] /\ sent[u] \in Nat
  BY ConstantTypes DEF Requests, UploadInv, TypeOK, sendChunkToAgent
<1>2. CASE Respond(u, "error") /\ UNCHANGED <<sent, down>>
  BY <1>1, <1>2, RespondKeeps
<1>3. CASE sent[u] + 1 <= MaxUploadSize
  <2> DEFINE m == [id |-> u, name |-> chunkFilename(u, sent[u] = 0),
                   data |-> sent[u] + 1, done |-> FALSE]
  <2>1. chunkFilename(u, sent[u] = 0) \in Names \cup {NoName}
    BY ConstantTypes DEF chunkFilename
  <2>2. sent[u] + 1 \in 0 .. MaxUploadSize
    BY <1>1, <1>3, ConstantTypes
  <2>3. /\ m \in Chunks /\ m.id = u /\ m.data = sent[u] + 1 /\ ~m.done
        /\ m.data # 1 => m.name = NoName
    BY <1>1, <2>1, <2>2 DEF Chunks, chunkFilename
  <2>4. \/ Respond(u, "error") /\ UNCHANGED <<sent, down>>
        \/ /\ cur # NoConn
           /\ down' = IF cur = aconn THEN [down EXCEPT ![cur] = Append(@, m)] ELSE down
           /\ sent' = [sent EXCEPT ![u] = @ + 1] /\ UNCHANGED <<phase, answer, pend>>
    BY <1>1, <1>3, ConstantTypes DEF sendChunkToAgent, SendToAgent
  <2> HIDE DEF m
  <2>5. CASE /\ cur # NoConn
             /\ down' = IF cur = aconn THEN [down EXCEPT ![cur] = Append(@, m)] ELSE down
             /\ sent' = [sent EXCEPT ![u] = @ + 1] /\ UNCHANGED <<phase, answer, pend>>
    BY <1>1, <1>3, <2>3, <2>5, SendChunk
  <2> QED
    BY <1>2, <2>4, <2>5
<1>4. CASE ~(sent[u] + 1 <= MaxUploadSize)
  <2>1. sent[u] + 1 > MaxUploadSize
    BY <1>1, <1>4, ConstantTypes
  <2> QED
    BY <1>2, <2>1 DEF sendChunkToAgent
<1> QED
  BY <1>3, <1>4

\* The marker goes after everything its upload has sent.
LEMMA SendMarker ==
  ASSUME UploadInv, NEW u \in Uploads, phase[u] = "stream", cur # NoConn,
         NEW m \in Chunks, m.id = u, m.data = 0, m.done, m.name = NoName,
         down' = IF cur = aconn THEN [down EXCEPT ![cur] = Append(@, m)] ELSE down,
         phase' = [phase EXCEPT ![u] = "wait"],
         UNCHANGED <<sent, answer, pend, target, net, up, agent>>
  PROVE  UploadInv'
<1>1. /\ TypeOK /\ AnswersAreTrue /\ OneConnection /\ PlacesInv /\ NothingMissing /\ FinalIsWhole
      /\ phase \in [Requests -> {"idle", "stream", "wait", "done"}] /\ u \in Requests
  BY DEF UploadInv, TypeOK, Requests
<1>2. /\ phase' \in [Requests -> {"idle", "stream", "wait", "done"}]
      /\ StaysSettled /\ Settled(u)' /\ ~Settled(u)
  BY <1>1 DEF StaysSettled, Settled, Requests
<1>3. UNCHANGED <<aconn, hand, dz, late>>
  BY DEF net, agent
<1>4. AnswersAreTrue' /\ DropzoneInv(dz')
  BY <1>1 DEF AnswersAreTrue, AckIsTrue, SuccessMeansStored, agent, UploadInv, DropzoneInv
<1>5. FinalIsWhole'
  BY <1>1, <1>2, <1>3, FinalKept
<1>6. HubTypes'
  BY <1>1, <1>2 DEF HubTypes, TypeOK
<1>7. CASE cur = aconn
  <2>1. PICK n : n = Len(down[aconn]) + 1
    OBVIOUS
  <2>2. aconn # NoConn /\ down' = [down EXCEPT ![aconn] = Append(@, m)] /\ m \in Chunks \cup Questions
    BY <1>7
  <2>3. /\ down' \in [Conns -> Seq(Chunks \cup Questions)]
        /\ Msg(n)' = m /\ n \in Nat
        /\ \A v : \A i \in Place(v) : i \in Nat /\ i < n /\ Msg(i)' = Msg(i)
        /\ \A v \in Uploads : Place(v)' = Place(v) \cup (IF m.id = v THEN {n} ELSE {})
    BY <1>3, <2>1, <2>2, AppendPlaces
  <2>4. Place(u)' = Place(u) \cup {n} /\ \A v \in Uploads \ {u} : Place(v)' = Place(v)
    BY <2>3
  <2>5. \A i \in Place(u) : ~Msg(i).done
    BY <1>1, <1>2 DEF PlacesInv, ChunkWasSent, Settled
  <2>6. PlacesInv'
    <3> SUFFICES ASSUME NEW v \in Uploads
                 PROVE  InOrder(v)' /\ \A i \in Place(v)' : ChunkWasSent(v, Msg(i))'
      BY DEF PlacesInv
    <3>1. InOrder(v) /\ \A i \in Place(v) : ChunkWasSent(v, Msg(i))
      BY <1>1 DEF PlacesInv
    <3>2. \A i \in Place(v) : ChunkWasSent(v, Msg(i))'
      BY <1>2, <2>3, <3>1 DEF ChunkWasSent, StaysSettled, Settled
    <3>3. CASE v # u
      <4>1. Place(v)' = Place(v)
        BY <2>4, <3>3
      <4> QED
        BY <2>3, <3>1, <3>2, <4>1 DEF InOrder
    <3>4. CASE v = u
      <4>1. ChunkWasSent(u, Msg(n))'
        BY <1>2, <2>3 DEF ChunkWasSent, Settled
      <4>2. InOrder(u)'
        <5> SUFFICES ASSUME NEW i \in Place(u)', NEW j \in Place(u)', i < j
                     PROVE  ~Msg(i)'.done /\ (Msg(j)'.done \/ Msg(i)'.data < Msg(j)'.data)
          BY DEF InOrder
        <5>1. i \in Place(u)
          BY <2>3, <2>4
        <5>2. CASE j = n
          BY <2>3, <2>5, <5>1, <5>2
        <5>3. CASE j \in Place(u)
          BY <2>3, <3>1, <3>4, <5>1, <5>3 DEF InOrder
        <5> QED
          BY <2>4, <5>2, <5>3
      <4> QED
        BY <2>4, <3>2, <3>4, <4>1, <4>2
    <3> QED
      BY <3>3, <3>4
  <2>7. NothingMissing'
    <3> SUFFICES ASSUME NEW v \in Uploads \ late
                 PROVE  /\ v \in dz.open => aconn # NoConn /\ OpenIsComplete(v)'
                        /\ v \notin dz.open => FreshIsComplete(v)'
      BY <1>3 DEF NothingMissing
    <3>1. /\ v \in dz.open => aconn # NoConn /\ OpenIsComplete(v)
          /\ v \notin dz.open => FreshIsComplete(v)
      BY <1>1 DEF NothingMissing
    <3>2. \A k : RestOnWay(v, k) => RestOnWay(v, k)'
      BY <2>3 DEF RestOnWay
    <3>3. \A i \in Place(v)' : i \in Place(v) \/ (Msg(i)'.done /\ Msg(i)'.data = 0)
      BY <2>3
    <3>4. v \in dz.open => OpenIsComplete(v)'
      BY <1>3, <2>3, <3>1, <3>2, <3>3 DEF OpenIsComplete
    <3>5. v \notin dz.open => FreshIsComplete(v)'
      BY <2>3, <3>1, <3>2, <3>3 DEF FreshIsComplete
    <3> QED
      BY <3>1, <3>4, <3>5
  <2>8. OneConnection'
    <3>1. \A c \in Conns : c # aconn => down'[c] = down[c]
      BY <1>1, <2>2 DEF TypeOK
    <3> QED
      BY <1>1, <1>3, <3>1 DEF OneConnection, net
  <2>9. TypeOK'
    BY <1>1, <1>6, <2>3, HubTypesSuffice
  <2> QED
    BY <1>4, <1>5, <2>6, <2>7, <2>8, <2>9 DEF UploadInv
<1>8. CASE cur # aconn
  <2>1. aconn = NoConn /\ down' = down
    BY <1>8, LostMessage
  <2>2. PlacesInv' /\ \A v : Place(v)' = {}
    BY <1>3, <2>1, NoPlaces
  <2>3. NothingMissing'
    BY <1>1, <1>3, <2>1, <2>2 DEF NothingMissing, FreshIsComplete
  <2>4. OneConnection'
    BY <1>1, <1>3, <2>1 DEF OneConnection, net
  <2>5. TypeOK'
    BY <1>1, <1>6, <2>1, HubTypesSuffice DEF TypeOK
  <2> QED
    BY <1>4, <1>5, <2>2, <2>3, <2>4, <2>5 DEF UploadInv
<1> QED
  BY <1>7, <1>8

\* sendFinalChunk: the marker is sent, or the handler answers.
LEMMA SendFinalChunk ==
  ASSUME UploadInv, NEW u \in Uploads, sendFinalChunk(u)
  PROVE  UploadInv'
<1>1. /\ u \in Requests /\ phase[u] = "stream" /\ UNCHANGED <<sent, target, net, up, agent>>
      /\ target \in [Asks -> {None} \cup Targets]
  BY DEF Requests, UploadInv, TypeOK, sendFinalChunk
<1> DEFINE m == [id |-> u, name |-> NoName, data |-> 0, done |-> TRUE]
<1>2. m \in Chunks /\ m.id = u /\ m.data = 0 /\ m.done /\ m.name = NoName
  BY ConstantTypes DEF Chunks
<1>3. \/ Respond(u, "error") /\ UNCHANGED down
      \/ /\ cur # NoConn
         /\ down' = IF cur = aconn THEN [down EXCEPT ![cur] = Append(@, m)] ELSE down
         /\ phase' = [phase EXCEPT ![u] = "wait"] /\ UNCHANGED <<answer, pend>>
  BY DEF sendFinalChunk, SendToAgent
<1> HIDE DEF m
<1>4. CASE Respond(u, "error") /\ UNCHANGED down
  BY <1>1, <1>4, RespondKeeps
<1>5. CASE /\ cur # NoConn
           /\ down' = IF cur = aconn THEN [down EXCEPT ![cur] = Append(@, m)] ELSE down
           /\ phase' = [phase EXCEPT ![u] = "wait"] /\ UNCHANGED <<answer, pend>>
  BY <1>1, <1>2, <1>5, SendMarker
<1> QED
  BY <1>3, <1>4, <1>5

\* The client is gone, or the timer ran out.
LEMMA GiveUp ==
  ASSUME UploadInv, NEW u \in Uploads, readFails(u) \/ uploadTimeout(u)
  PROVE  UploadInv'
<1>1. /\ u \in Requests /\ target' \in [Asks -> {None} \cup Targets]
      /\ Respond(u, "error") /\ UNCHANGED <<sent, net, down, up, agent>>
  BY DEF Requests, UploadInv, TypeOK, readFails, uploadTimeout
<1> QED
  BY <1>1, RespondKeeps

\* The acknowledgement in the channel of an upload is its own.
LEMMA UploadAcked ==
  ASSUME UploadInv, NEW u \in Uploads, uploadAcked(u)
  PROVE  UploadInv'
<1> DEFINE ok == pend[u].type = "ack" /\ pend[u].ok
<1>1. /\ u \in Requests /\ target' \in [Asks -> {None} \cup Targets]
      /\ pend[u] \notin {None, Empty} /\ Respond(u, IF ok THEN "ok" ELSE "error")
      /\ UNCHANGED <<sent, net, down, up, agent>>
  BY DEF Requests, UploadInv, TypeOK, uploadAcked
<1>2. ok => u \in stored
  BY <1>1 DEF UploadInv, AnswersAreTrue, AckIsTrue
<1> HIDE DEF ok
<1>3. CASE ok
  BY <1>1, <1>2, <1>3, RespondKeeps
<1>4. CASE ~ok
  BY <1>1, <1>4, RespondKeeps
<1> QED
  BY <1>3, <1>4

\* Another request is sent.
LEMMA SendQuestion ==
  ASSUME UploadInv, NEW a \in Asks, NEW t \in Targets, NEW q \in Questions, q.id = a,
         phase[a] = "idle", cur # NoConn,
         down' = IF cur = aconn THEN [down EXCEPT ![cur] = Append(@, q)] ELSE down,
         pend' = Register(pend, a), phase' = [phase EXCEPT ![a] = "wait"],
         target' = [target EXCEPT ![a] = t],
         UNCHANGED <<answer, sent, net, up, agent>>
  PROVE  UploadInv'
<1>1. /\ TypeOK /\ OneConnection /\ a \in Requests /\ a \notin Uploads
      /\ phase \in [Requests -> {"idle", "stream", "wait", "done"}]
      /\ target \in [Asks -> {None} \cup Targets]
  BY ConstantTypes DEF UploadInv, TypeOK, Requests
<1>2. AnswersAreTrue' /\ pend' \in [Requests -> {None, Empty} \cup Answers]
  BY <1>1, RegisterKeeps DEF agent
<1>3. HubTypes'
  BY <1>1, <1>2 DEF HubTypes, TypeOK
<1>4. StaysSettled
  BY <1>1 DEF StaysSettled, Settled, Requests
<1>5. UNCHANGED <<aconn, hand, dz, late>>
  BY DEF net, agent
<1>6. /\ down' \in [Conns -> Seq(Chunks \cup Questions)] /\ SamePlaces
      /\ \A c \in Conns : c # aconn => down'[c] = down[c]
  <2>1. CASE cur = aconn
    <3>1. PICK n : n = Len(down[aconn]) + 1
      OBVIOUS
    <3>2. aconn # NoConn /\ down' = [down EXCEPT ![aconn] = Append(@, q)] /\ q \in Chunks \cup Questions
      BY <2>1
    <3>3. /\ down' \in [Conns -> Seq(Chunks \cup Questions)]
          /\ \A v : \A i \in Place(v) : i \in Nat /\ i < n /\ Msg(i)' = Msg(i)
          /\ \A v \in Uploads : Place(v)' = Place(v) \cup (IF q.id = v THEN {n} ELSE {})
      BY <1>5, <3>1, <3>2, AppendPlaces
    <3>4. SamePlaces
      <4>1. \A v \in Uploads : q.id # v
        BY <1>1
      <4>2. \A v \in Uploads : Place(v)' = Place(v)
        BY <3>3, <4>1
      <4> QED
        BY <3>3, <4>2 DEF SamePlaces
    <3>5. \A c \in Conns : c # aconn => down'[c] = down[c]
      BY <1>1, <3>2 DEF TypeOK
    <3> QED
      BY <3>3, <3>4, <3>5
  <2>2. CASE cur # aconn
    <3>1. down' = down
      BY <2>2
    <3> QED
      BY <1>1, <1>5, <3>1, PlaceKept DEF TypeOK
  <2> QED
    BY <2>1, <2>2
<1>7. TypeOK'
  BY <1>1, <1>3, <1>6, HubTypesSuffice
<1>8. OneConnection'
  BY <1>1, <1>5, <1>6 DEF OneConnection, net
<1>9. PlacesInv' /\ NothingMissing' /\ FinalIsWhole' /\ DropzoneInv(dz')
  BY <1>4, <1>5, <1>6, PipeKept
<1> QED
  BY <1>2, <1>7, <1>8, <1>9 DEF UploadInv

\* sendAgentRequest: refused, sent, or not sent.
LEMMA SendAgentRequest ==
  ASSUME UploadInv, NEW a \in Asks, NEW t \in Targets, sendAgentRequest(a, t)
  PROVE  UploadInv'
<1>1. /\ a \in Requests /\ a \notin Uploads /\ target \in [Asks -> {None} \cup Targets]
      /\ phase[a] = "idle" /\ UNCHANGED <<sent, net, up, agent>>
  BY ConstantTypes DEF Requests, UploadInv, TypeOK, sendAgentRequest
<1> DEFINE q == [id |-> a, ask |-> t]
<1>2. q \in Questions /\ q.id = a
  BY DEF Questions
<1>3. \/ Respond(a, "error") /\ UNCHANGED <<down, target>>
      \/ /\ cur # NoConn
         /\ down' = IF cur = aconn THEN [down EXCEPT ![cur] = Append(@, q)] ELSE down
         /\ pend' = Register(pend, a) /\ phase' = [phase EXCEPT ![a] = "wait"]
         /\ target' = [target EXCEPT ![a] = t] /\ UNCHANGED answer
  BY DEF sendAgentRequest, SendToAgent
<1> HIDE DEF q
<1>4. CASE Respond(a, "error") /\ UNCHANGED <<down, target>>
  BY <1>1, <1>4, RespondKeeps
<1>5. CASE /\ cur # NoConn
           /\ down' = IF cur = aconn THEN [down EXCEPT ![cur] = Append(@, q)] ELSE down
           /\ pend' = Register(pend, a) /\ phase' = [phase EXCEPT ![a] = "wait"]
           /\ target' = [target EXCEPT ![a] = t] /\ UNCHANGED answer
  BY <1>1, <1>2, <1>5, SendQuestion
<1> QED
  BY <1>3, <1>4, <1>5

\* A list, read or delete is answered, or times out.
LEMMA AskEnds ==
  ASSUME UploadInv, NEW a \in Asks, askAnswered(a) \/ askTimeout(a)
  PROVE  UploadInv'
<1>1. /\ a \in Requests /\ a \notin Uploads /\ target' \in [Asks -> {None} \cup Targets]
      /\ UNCHANGED <<sent, net, down, up, agent>>
  BY ConstantTypes DEF Requests, UploadInv, TypeOK, askAnswered, askTimeout
<1>2. PICK status \in {"ok", "error"} : Respond(a, status)
  BY DEF askAnswered, askTimeout, askStatus, listStatus, dropzoneStatus, readStatus, deleteStatus
<1> QED
  BY <1>1, <1>2, RespondKeeps

\* deliverPending: an answer goes to the channel of its own request.
LEMMA HubRecvKeeps ==
  ASSUME UploadInv, NEW c \in Conns, HubRecv(c)
  PROVE  UploadInv'
<1>1. /\ TypeOK /\ AnswersAreTrue /\ OneConnection
      /\ up \in [Conns -> Seq(Answers)] /\ up[c] \in Seq(Answers) /\ up[c] # <<>>
      /\ pend \in [Requests -> {None, Empty} \cup Answers]
  BY DEF UploadInv, TypeOK, HubRecv
<1>2. /\ pend' = Deliver(pend, Head(up[c])) /\ up' = [up EXCEPT ![c] = Tail(@)]
      /\ UNCHANGED <<phase, sent, target, answer, net, down, agent>>
  BY DEF HubRecv
<1>3. PICK m \in Answers : m = Head(up[c]) /\ m = up[c][1] /\ 1 \in DOMAIN up[c]
  BY <1>1
<1>4. AckIsTrue(m) /\ m.id \in Requests
  BY <1>1, <1>3 DEF AnswersAreTrue, Answers
<1>5. /\ pend' \in [Requests -> {None, Empty} \cup Answers]
      /\ \A r \in Requests : pend'[r] = pend[r] \/ (r = m.id /\ pend'[r] = m)
  BY <1>1, <1>2, <1>3, <1>4 DEF Deliver
<1>6. /\ up' \in [Conns -> Seq(Answers)]
      /\ \A b \in Conns : \A i \in DOMAIN up'[b] : \E j \in DOMAIN up[b] : up'[b][i] = up[b][j]
  <2>1. up' \in [Conns -> Seq(Answers)]
    BY <1>1, <1>2
  <2>2. \A i \in DOMAIN Tail(up[c]) : i + 1 \in DOMAIN up[c] /\ Tail(up[c])[i] = up[c][i + 1]
    BY <1>1
  <2>3. up'[c] = Tail(up[c]) /\ \A b \in Conns \ {c} : up'[b] = up[b]
    BY <1>1, <1>2
  <2> QED
    BY <2>1, <2>2, <2>3
<1>7. AnswersAreTrue'
  <2>1. UNCHANGED <<stored, answer>>
    BY <1>2 DEF agent
  <2>2. \A b \in Conns : \A i \in DOMAIN up'[b] : AckIsTrue(up[b][i])'
    BY <1>1, <1>6, <2>1 DEF AnswersAreTrue, AckIsTrue
  <2>3. \A r \in Requests : pend'[r] \notin {None, Empty} => pend'[r].id = r /\ AckIsTrue(pend[r])'
    BY <1>1, <1>4, <1>5, <2>1 DEF AnswersAreTrue, AckIsTrue
  <2> QED
    BY <1>1, <2>1, <2>2, <2>3 DEF AnswersAreTrue, SuccessMeansStored
<1>8. TypeOK' /\ OneConnection'
  BY <1>1, <1>2, <1>5, <1>6 DEF TypeOK, OneConnection, net, agent
<1>9. PlacesInv' /\ NothingMissing' /\ FinalIsWhole' /\ DropzoneInv(dz')
  BY <1>2, PlaceKept, PipeKept DEF net, agent, StaysSettled, Settled
<1> QED
  BY <1>7, <1>8, <1>9 DEF UploadInv


-----------------------------------------------------------------------------
(* The agent. *)

\* An answer the agent sends is the last on its connection.
LEMMA ReplyKeeps ==
  ASSUME UploadInv, NEW c \in Conns, NEW m \in Answers, Reply(c, m) \/ UNCHANGED up,
         stored \subseteq stored', AckIsTrue(m)', UNCHANGED <<pend, answer>>
  PROVE  AnswersAreTrue' /\ up' \in [Conns -> Seq(Answers)]
<1>1. AnswersAreTrue /\ up \in [Conns -> Seq(Answers)] /\ up[c] \in Seq(Answers)
  BY DEF UploadInv, TypeOK
<1>2. \A n \in Answers : AckIsTrue(n) => AckIsTrue(n)'
  BY DEF AckIsTrue
<1>3. /\ up' \in [Conns -> Seq(Answers)]
      /\ \A b \in Conns : \A i \in DOMAIN up'[b] :
           up'[b][i] = m \/ (i \in DOMAIN up[b] /\ up'[b][i] = up[b][i])
  <2>1. CASE up' = [up EXCEPT ![c] = Append(@, m)]
    <3>1. up' \in [Conns -> Seq(Answers)] /\ up'[c] = Append(up[c], m)
      BY <1>1, <2>1
    <3>2. \A b \in Conns \ {c} : up'[b] = up[b]
      BY <1>1, <2>1
    <3>3. \A i \in DOMAIN Append(up[c], m) :
            Append(up[c], m)[i] = m \/ (i \in DOMAIN up[c] /\ Append(up[c], m)[i] = up[c][i])
      BY <1>1
    <3> QED
      BY <3>1, <3>2, <3>3
  <2>2. CASE up' = up
    BY <1>1, <2>2
  <2> QED
    BY <2>1, <2>2 DEF Reply
<1>4. \A b \in Conns : \A i \in DOMAIN up'[b] : AckIsTrue(up[b][i])'
  <2> SUFFICES ASSUME NEW b \in Conns, NEW i \in DOMAIN up'[b]
               PROVE  AckIsTrue(up[b][i])'
    OBVIOUS
  <2>1. CASE up'[b][i] = m
    BY <2>1 DEF AckIsTrue
  <2>2. CASE i \in DOMAIN up[b] /\ up'[b][i] = up[b][i]
    BY <1>1, <2>2 DEF AnswersAreTrue, AckIsTrue
  <2> QED
    BY <1>3, <2>1, <2>2
<1>5. \A r \in Requests : pend'[r] \notin {None, Empty} => pend'[r].id = r /\ AckIsTrue(pend[r])'
  BY <1>1 DEF AnswersAreTrue, AckIsTrue
<1>6. SuccessMeansStored'
  BY <1>1 DEF AnswersAreTrue, SuccessMeansStored
<1> QED
  BY <1>3, <1>4, <1>5, <1>6 DEF AnswersAreTrue

\* The receive goroutine takes the first message: every other chunk moves up
\* one place, and a chunk that is taken is now in hand.
LEMMA TakePlaces ==
  ASSUME UploadInv, NEW c \in Conns, startRecvLoop(c), NEW u \in Uploads
  PROVE  /\ \A i \in Place(u)' : i \in Nat /\ i + 1 \in Place(u) /\ Msg(i)' = Msg(i + 1)
         /\ \A j \in Place(u) : j \in Nat /\ j - 1 \in Place(u)' /\ Msg(j - 1)' = Msg(j)
<1> DEFINE s == down[aconn]
<1>1. /\ c = aconn /\ aconn' = aconn /\ aconn # NoConn /\ hand[aconn] = None /\ s # <<>>
      /\ down' = [down EXCEPT ![aconn] = Tail(@)]
      /\ down \in [Conns -> Seq(Chunks \cup Questions)] /\ s \in Seq(Chunks \cup Questions)
      /\ hand \in [Conns -> {None} \cup Chunks]
  <2>1. c # NoConn
    BY ConstantTypes DEF Conns, NoConn
  <2> QED
    BY <2>1 DEF startRecvLoop, net, UploadInv, TypeOK
<1>2. PICK n \in Nat : n + 1 = Len(s)
  <2>1. Len(s) \in Nat /\ Len(s) # 0
    BY <1>1
  <2>2. Len(s) - 1 \in Nat /\ (Len(s) - 1) + 1 = Len(s)
    BY <2>1
  <2> QED
    BY <2>2
<1>3. /\ down'[aconn] = Tail(s) /\ Len(down'[aconn]) = n
      /\ \A i \in 1 .. n : down'[aconn][i] = s[i + 1]
      /\ Head(s) = s[1] /\ s[1] \in Chunks \cup Questions
  BY <1>1, <1>2
<1>4. Place(u)' = {i \in 0 .. n : Msg(i)' # None /\ Msg(i)'.id = u}
  BY <1>1, <1>3 DEF Place
<1>5. Place(u) = {i \in 0 .. n + 1 : Msg(i) # None /\ Msg(i).id = u}
  BY <1>1, <1>2 DEF Place
<1>6. \A i \in 1 .. n : Msg(i)' = Msg(i + 1)
  BY <1>1, <1>2, <1>3 DEF Msg
<1>7. Msg(0) = None /\ Msg(1) = s[1] /\ Msg(0)' = hand'[aconn]
  BY <1>1 DEF Msg
<1>8. \/ Msg(0)' = Msg(1)
      \/ Msg(0)' = None /\ Msg(1).id # u
  <2>1. CASE Head(s).id \in Uploads
    <3>1. hand' = [hand EXCEPT ![aconn] = Head(s)]
      BY <1>1, <2>1 DEF startRecvLoop
    <3> QED
      BY <1>1, <1>3, <1>7, <3>1
  <2>2. CASE Head(s).id \notin Uploads
    <3>1. hand' = hand
      BY <1>1, <2>2 DEF startRecvLoop
    <3> QED
      BY <1>1, <1>3, <1>7, <2>2, <3>1
  <2> QED
    BY <2>1, <2>2
<1> HIDE DEF s
<1>9. ASSUME NEW i \in Place(u)'
      PROVE  i \in Nat /\ i + 1 \in Place(u) /\ Msg(i)' = Msg(i + 1)
  <2>1. i \in 0 .. n /\ Msg(i)' # None /\ Msg(i)'.id = u
    BY <1>4
  <2>2. CASE i = 0
    BY <1>2, <1>5, <1>8, <2>1, <2>2
  <2>3. CASE i \in 1 .. n
    BY <1>2, <1>5, <1>6, <2>1, <2>3
  <2> QED
    BY <1>2, <2>1, <2>2, <2>3
<1>10. ASSUME NEW j \in Place(u)
       PROVE  j \in Nat /\ j - 1 \in Place(u)' /\ Msg(j - 1)' = Msg(j)
  <2>1. j \in 0 .. n + 1 /\ Msg(j) # None /\ Msg(j).id = u
    BY <1>5
  <2>2. j # 0
    BY <1>7, <2>1
  <2>3. CASE j = 1
    BY <1>2, <1>4, <1>8, <2>1, <2>3
  <2>4. CASE j - 1 \in 1 .. n
    <3>1. Msg(j - 1)' = Msg((j - 1) + 1)
      BY <1>6, <2>4
    <3>2. (j - 1) + 1 = j
      BY <1>2, <2>1
    <3> QED
      BY <1>2, <1>4, <2>1, <2>4, <3>1, <3>2
  <2> QED
    BY <1>2, <2>1, <2>2, <2>3, <2>4
<1> QED
  BY <1>9, <1>10

\* startRecvLoop: what is in order and complete stays so.
LEMMA StartRecvLoop ==
  ASSUME UploadInv, NEW c \in Conns, startRecvLoop(c)
  PROVE  UploadInv'
<1>1. /\ c = aconn /\ aconn # NoConn /\ hand[aconn] = None /\ down[c] # <<>>
      /\ down' = [down EXCEPT ![c] = Tail(@)]
      /\ down \in [Conns -> Seq(Chunks \cup Questions)] /\ down[c] \in Seq(Chunks \cup Questions)
      /\ hand \in [Conns -> {None} \cup Chunks] /\ gor \subseteq Conns \X Questions
      /\ UNCHANGED <<hub, net, up, dz, late, stored, faults>>
  <2>1. c # NoConn
    BY ConstantTypes DEF Conns, NoConn
  <2> QED
    BY <2>1 DEF startRecvLoop, UploadInv, TypeOK
<1>2. /\ TypeOK /\ DropzoneInv(dz) /\ AnswersAreTrue /\ OneConnection
      /\ PlacesInv /\ NothingMissing /\ FinalIsWhole
  BY DEF UploadInv
<1>3. \A u \in Uploads :
        /\ \A i \in Place(u)' : i \in Nat /\ i + 1 \in Place(u) /\ Msg(i)' = Msg(i + 1)
        /\ \A j \in Place(u) : j \in Nat /\ j - 1 \in Place(u)' /\ Msg(j - 1)' = Msg(j)
  BY TakePlaces
<1>4. TypeOK'
  <2>1. down' \in [Conns -> Seq(Chunks \cup Questions)]
    BY <1>1
  <2>2. Head(down[c]) \in Chunks \cup Questions
    BY <1>1
  <2>3. hand' \in [Conns -> {None} \cup Chunks] /\ gor' \subseteq Conns \X Questions
    <3>1. CASE Head(down[c]).id \in Uploads
      <4>1. Head(down[c]) \in Chunks
        BY <2>2, <3>1, ConstantTypes DEF Questions
      <4> QED
        BY <1>1, <3>1, <4>1 DEF startRecvLoop
    <3>2. CASE Head(down[c]).id \notin Uploads
      <4>1. Head(down[c]) \in Questions
        BY <2>2, <3>2 DEF Chunks
      <4> QED
        BY <1>1, <3>2, <4>1 DEF startRecvLoop
    <3> QED
      BY <3>1, <3>2
  <2> QED
    BY <1>1, <1>2, <2>1, <2>3 DEF TypeOK, hub, net
<1>5. AnswersAreTrue' /\ FinalIsWhole' /\ DropzoneInv(dz')
  BY <1>1, <1>2 DEF AnswersAreTrue, AckIsTrue, SuccessMeansStored, FinalIsWhole, DropzoneInv, hub
<1>6. OneConnection'
  <2>1. \A b \in Conns : b # aconn => down'[b] = down[b]
    BY <1>1
  <2>2. \A b \in Conns : b # aconn => hand'[b] = hand[b]
    BY <1>1 DEF startRecvLoop
  <2>3. aconn \in Nat /\ nconn \in Nat
    BY <1>2, ConstantTypes DEF TypeOK, NoConn, Conns
  <2>4. \A b \in Conns : b > nconn => b # aconn
    BY <1>2, <2>3 DEF OneConnection, Conns
  <2> QED
    BY <1>1, <1>2, <2>1, <2>2, <2>4 DEF OneConnection, net
<1>7. PlacesInv'
  <2> SUFFICES ASSUME NEW u \in Uploads
               PROVE  InOrder(u)' /\ \A i \in Place(u)' : ChunkWasSent(u, Msg(i))'
    BY DEF PlacesInv
  <2>1. InOrder(u) /\ \A i \in Place(u) : ChunkWasSent(u, Msg(i))
    BY <1>2 DEF PlacesInv
  <2>2. ASSUME NEW i \in Place(u)' PROVE ChunkWasSent(u, Msg(i))'
    BY <1>1, <1>3, <2>1 DEF ChunkWasSent, hub
  <2>3. ASSUME NEW i \in Place(u)', NEW j \in Place(u)', i < j
        PROVE  ~Msg(i)'.done /\ (Msg(j)'.done \/ Msg(i)'.data < Msg(j)'.data)
    <3>1. /\ i \in Nat /\ i + 1 \in Place(u) /\ Msg(i)' = Msg(i + 1)
          /\ j \in Nat /\ j + 1 \in Place(u) /\ Msg(j)' = Msg(j + 1)
      BY <1>3
    <3>2. i + 1 < j + 1
      BY <2>3, <3>1
    <3> QED
      BY <2>1, <3>1, <3>2 DEF InOrder
  <2> QED
    BY <2>2, <2>3 DEF InOrder
<1>8. NothingMissing'
  <2> SUFFICES ASSUME NEW u \in Uploads \ late
               PROVE  /\ u \in dz.open => aconn # NoConn /\ OpenIsComplete(u)'
                      /\ u \notin dz.open => FreshIsComplete(u)'
    BY <1>1 DEF NothingMissing, net
  <2>1. /\ u \in dz.open => OpenIsComplete(u)
        /\ u \notin dz.open => FreshIsComplete(u)
    BY <1>2 DEF NothingMissing
  <2>2. \A k : RestOnWay(u, k) => RestOnWay(u, k)'
    <3> SUFFICES ASSUME NEW k, RestOnWay(u, k), NEW n \in k + 1 .. sent[u]
                 PROVE  \E i \in Place(u)' : Msg(i)'.data = n
      BY <1>1 DEF RestOnWay, hub
    <3>1. PICK j \in Place(u) : Msg(j).data = n
      BY DEF RestOnWay
    <3> QED
      BY <1>3, <3>1
  <2>3. u \in dz.open => OpenIsComplete(u)'
    <3> SUFFICES ASSUME OpenIsComplete(u) PROVE OpenIsComplete(u)'
      BY <2>1
    <3>1. PICK k \in 0 .. sent[u] :
            /\ dz.data[u] = FirstChunks(k) /\ RestOnWay(u, k)
            /\ \A i \in Place(u) : ~Msg(i).done => Msg(i).data > k
      BY DEF OpenIsComplete
    <3>2. \A i \in Place(u)' : ~Msg(i)'.done => Msg(i)'.data > k
      BY <1>3, <3>1
    <3>3. dz'.data[u] = FirstChunks(k) /\ RestOnWay(u, k)' /\ k \in 0 .. sent'[u]
      BY <1>1, <2>2, <3>1 DEF hub
    <3> QED
      BY <3>2, <3>3 DEF OpenIsComplete
  <2>4. u \notin dz.open => FreshIsComplete(u)'
    BY <1>3, <2>1, <2>2 DEF FreshIsComplete
  <2> QED
    BY <1>1, <2>3, <2>4
<1> QED
  BY <1>4, <1>5, <1>6, <1>7, <1>8 DEF UploadInv

\* The chunk in hand is the next of its upload: the first that is missing, or
\* the marker after all of them.
LEMMA HeadChunk ==
  ASSUME UploadInv, aconn # NoConn, NEW m \in Chunks, hand[aconn] = m,
         m.id \notin late, MayOpen(dz, m)
  PROVE  \E k \in 0 .. sent[m.id] :
           /\ Before(dz, m) = FirstChunks(k) /\ RestOnWay(m.id, k)
           /\ ~m.done => m.data = k + 1
           /\ m.done => k = sent[m.id]
<1> DEFINE u == m.id
<1>1. /\ u \in Uploads /\ sent[u] \in Nat /\ m.data \in Nat
      /\ PlacesInv /\ NothingMissing
  BY ConstantTypes DEF Chunks, UploadInv, TypeOK
<1>2. 0 \in Place(u) /\ Msg(0) = m
  <2>1. Len(down[aconn]) \in Nat
    BY DEF UploadInv, TypeOK
  <2>2. m # None
    BY ConstantTypes
  <2> QED
    BY <2>1, <2>2 DEF Place, Msg
<1>3. InOrder(u) /\ \A i \in Place(u) : ChunkWasSent(u, Msg(i)) /\ i \in Nat
  BY <1>1 DEF PlacesInv, Place
<1>4. \A i \in Place(u) : i = 0 \/ (~m.done /\ (Msg(i).done \/ m.data < Msg(i).data))
  BY <1>2, <1>3 DEF InOrder
<1>5. PICK k \in 0 .. sent[u] : /\ Before(dz, m) = FirstChunks(k) /\ RestOnWay(u, k)
                                /\ ~m.done => m.data > k
  <2>1. CASE u \in dz.open
    <3>1. OpenIsComplete(u)
      BY <1>1, <2>1 DEF NothingMissing
    <3> QED
      BY <1>2, <2>1, <3>1 DEF OpenIsComplete, Before
  <2>2. CASE u \notin dz.open
    <3>1. m.data = 1
      BY <1>2, <1>3, <2>2 DEF MayOpen, ChunkWasSent
    <3>2. RestOnWay(u, 0)
      BY <1>1, <1>2, <2>2, <3>1 DEF NothingMissing, FreshIsComplete
    <3>3. Before(dz, m) = FirstChunks(0)
      BY <2>2 DEF Before, FirstChunks
    <3> QED
      BY <1>1, <3>1, <3>2, <3>3
  <2> QED
    BY <2>1, <2>2
<1>6. CASE m.done
  <2>1. m.data = 0 /\ \A i \in Place(u) : i = 0
    BY <1>2, <1>3, <1>4, <1>6 DEF ChunkWasSent
  <2>2. \A n \in k + 1 .. sent[u] : n = 0
    BY <1>2, <1>5, <2>1 DEF RestOnWay
  <2>3. k = sent[u]
    BY <1>1, <1>5, <2>2
  <2> QED
    BY <1>5, <1>6, <2>3
<1>7. CASE ~m.done
  <2>1. m.data \in 1 .. sent[u]
    BY <1>2, <1>3, <1>7 DEF ChunkWasSent
  <2>2. k \in Nat /\ k + 1 \in k + 1 .. sent[u]
    BY <1>1, <1>5, <1>7, <2>1
  <2>3. PICK i \in Place(u) : Msg(i).data = k + 1
    BY <1>5, <2>2 DEF RestOnWay
  <2>4. ~Msg(i).done
    BY <1>3, <2>2, <2>3 DEF ChunkWasSent
  <2>5. m.data = k + 1
    <3>1. i = 0 \/ m.data < k + 1
      BY <1>4, <2>3, <2>4
    <3>2. i = 0
      BY <1>1, <1>5, <1>7, <2>2, <3>1
    <3> QED
      BY <1>2, <2>3, <3>2
  <2> QED
    BY <1>5, <1>7, <2>5
<1> QED
  BY <1>6, <1>7

\* The goroutine's hand is empty after the chunk: its place is gone.
LEMMA HandPlaces ==
  ASSUME UploadInv, NEW c \in Conns, hand' = [hand EXCEPT ![c] = None], UNCHANGED <<aconn, down>>
  PROVE  /\ c # aconn => SamePlaces
         /\ c = aconn => \A u \in Uploads : /\ Place(u)' = Place(u) \ {0}
                                            /\ \A i \in Place(u) \ {0} : Msg(i)' = Msg(i)
<1>1. hand \in [Conns -> {None} \cup Chunks] /\ aconn \in {NoConn} \cup Conns
  BY DEF UploadInv, TypeOK
<1>2. CASE c # aconn
  <2>1. aconn \in Conns => hand'[aconn] = hand[aconn]
    BY <1>1, <1>2
  <2> QED
    BY <1>1, <1>2, <2>1 DEF SamePlaces, Place, Msg
<1>3. CASE c = aconn
  <2>1. hand'[aconn] = None
    BY <1>1, <1>3
  <2>2. c # NoConn
    BY ConstantTypes DEF Conns, NoConn
  <2>3. \A i : i # 0 => Msg(i)' = Msg(i)
    BY DEF Msg
  <2>4. Msg(0)' = None
    BY <2>1 DEF Msg
  <2>5. ASSUME NEW u \in Uploads PROVE Place(u)' = Place(u) \ {0}
    <3>1. /\ Place(u)' = {i \in 0 .. Len(down[aconn]) : Msg(i)' # None /\ Msg(i)'.id = u}
          /\ Place(u) = {i \in 0 .. Len(down[aconn]) : Msg(i) # None /\ Msg(i).id = u}
      BY <1>3, <2>2 DEF Place
    <3> QED
      BY <2>3, <2>4, <3>1
  <2> QED
    BY <1>3, <2>3, <2>5
<1> QED
  BY <1>2, <1>3

\* One more chunk.
LEMMA NextChunk ==
  ASSUME NEW k \in Nat
  PROVE  Append(FirstChunks(k), k + 1) = FirstChunks(k + 1)
<1>1. FirstChunks(k) \in Seq(Nat) /\ Len(FirstChunks(k)) = k
  BY DEF FirstChunks
<1> DEFINE a == Append(FirstChunks(k), k + 1)
<1>2. /\ a \in Seq(Nat) /\ Len(a) = k + 1
      /\ \A i \in 1 .. k + 1 : a[i] = IF i <= k THEN FirstChunks(k)[i] ELSE k + 1
  BY <1>1
<1>3. \A i \in 1 .. k : FirstChunks(k)[i] = i
  BY DEF FirstChunks
<1>4. \A i \in 1 .. k + 1 : a[i] = i
  BY <1>2, <1>3
<1>5. a = [i \in 1 .. k + 1 |-> a[i]]
  BY <1>2
<1> QED
  BY <1>4, <1>5 DEF FirstChunks

\* A chunk of a connection that is gone is handled: its upload is late.
LEMMA LateChunk ==
  ASSUME UploadInv, NEW c \in Conns, c # aconn, NEW m \in Chunks, NEW o \in HandleChunk(dz, m),
         dz' = o.d, hand' = [hand EXCEPT ![c] = None], late' = late \cup {m.id},
         UNCHANGED <<aconn, down, sent, phase>>
  PROVE  PlacesInv' /\ NothingMissing' /\ FinalIsWhole'
<1>1. /\ PlacesInv /\ NothingMissing /\ FinalIsWhole /\ DropzoneInv(dz) /\ m.id \in Uploads
      /\ dz.final \in [Names -> {None} \cup Files]
  BY DEF UploadInv, Chunks, TypeOK, Dropzone
<1>2. SamePlaces
  BY HandPlaces
<1>3. \A u \in Uploads : Place(u)' = Place(u) /\ \A i \in Place(u) : Msg(i)' = Msg(i)
  BY <1>2 DEF SamePlaces
<1>4. OthersKept(dz, dz', m.id) /\ (GivenUp(dz, o, m) \/ Kept(dz, o, m) \/ Published(dz, o, m))
  BY <1>1, ChunkOutcome
<1>5. PlacesInv'
  <2> SUFFICES ASSUME NEW u \in Uploads
               PROVE  InOrder(u)' /\ \A i \in Place(u) : ChunkWasSent(u, Msg(i))'
    BY <1>3 DEF PlacesInv
  <2>1. InOrder(u) /\ \A i \in Place(u) : ChunkWasSent(u, Msg(i))
    BY <1>1 DEF PlacesInv
  <2> QED
    BY <1>3, <2>1 DEF InOrder, ChunkWasSent
<1>6. NothingMissing'
  <2> SUFFICES ASSUME NEW u \in Uploads \ late, u # m.id
               PROVE  /\ u \in dz'.open => aconn # NoConn /\ OpenIsComplete(u)'
                      /\ u \notin dz'.open => FreshIsComplete(u)'
    BY DEF NothingMissing
  <2>1. /\ u \in dz.open => aconn # NoConn /\ OpenIsComplete(u)
        /\ u \notin dz.open => FreshIsComplete(u)
    BY <1>1 DEF NothingMissing
  <2>2. (u \in dz'.open <=> u \in dz.open) /\ dz'.data[u] = dz.data[u]
    BY <1>4 DEF OthersKept
  <2>3. Place(u)' = Place(u) /\ \A i \in Place(u) : Msg(i)' = Msg(i)
    BY <1>3
  <2> QED
    BY <2>1, <2>2, <2>3 DEF OpenIsComplete, FreshIsComplete, RestOnWay
<1>7. FinalIsWhole'
  <2> SUFFICES ASSUME NEW n \in Names, dz'.final[n] # None
               PROVE  LET f == dz'.final[n] IN
                      \/ f.data = [i \in 1 .. sent[f.id] |-> i] /\ phase[f.id] \in {"wait", "done"}
                      \/ f.id \in late'
    BY DEF FinalIsWhole
  <2>1. dz'.final[n] = dz.final[n] \/ dz'.final[n].id = m.id
    BY <1>1, <1>4 DEF GivenUp, Kept, Published
  <2> QED
    BY <1>1, <2>1 DEF FinalIsWhole
<1> QED
  BY <1>5, <1>6, <1>7

\* A chunk of the agent's connection is handled.
LEMMA NextInLine ==
  ASSUME UploadInv, aconn # NoConn, NEW m \in Chunks, hand[aconn] = m, NEW o \in HandleChunk(dz, m),
         dz' = o.d, hand' = [hand EXCEPT ![aconn] = None],
         UNCHANGED <<aconn, down, sent, phase, late>>
  PROVE  PlacesInv' /\ NothingMissing' /\ FinalIsWhole'
<1> DEFINE u == m.id
<1>1. /\ PlacesInv /\ NothingMissing /\ FinalIsWhole /\ DropzoneInv(dz) /\ u \in Uploads
      /\ dz.final \in [Names -> {None} \cup Files] /\ aconn \in Conns
      /\ sent[u] \in Nat /\ m.data \in Nat
  BY ConstantTypes DEF UploadInv, Chunks, TypeOK, Dropzone
<1>2. \A v \in Uploads : /\ Place(v)' = Place(v) \ {0}
                         /\ \A i \in Place(v) \ {0} : Msg(i)' = Msg(i)
  BY <1>1, HandPlaces
<1>3. 0 \in Place(u) /\ Msg(0) = m /\ \A v \in Uploads \ {u} : 0 \notin Place(v)
  <2>1. Len(down[aconn]) \in Nat
    BY <1>1 DEF UploadInv, TypeOK
  <2>2. m # None
    BY ConstantTypes
  <2> QED
    BY <2>1, <2>2 DEF Place, Msg
<1>4. OthersKept(dz, dz', u) /\ (GivenUp(dz, o, m) \/ Kept(dz, o, m) \/ Published(dz, o, m))
  BY <1>1, ChunkOutcome
<1>5. PlacesInv'
  <2> SUFFICES ASSUME NEW v \in Uploads
               PROVE  InOrder(v)' /\ \A i \in Place(v)' : ChunkWasSent(v, Msg(i))'
    BY DEF PlacesInv
  <2>1. InOrder(v) /\ \A i \in Place(v) : ChunkWasSent(v, Msg(i))
    BY <1>1 DEF PlacesInv
  <2>2. \A i \in Place(v)' : i \in Place(v) /\ Msg(i)' = Msg(i)
    BY <1>2
  <2> QED
    BY <2>1, <2>2 DEF InOrder, ChunkWasSent
\* What is on its way after the chunk in hand.
<1>6. \A i \in Place(u)' : /\ i \in Place(u) /\ Msg(i)' = Msg(i) /\ ~m.done
                           /\ Msg(i).done \/ m.data < Msg(i).data
                           /\ Msg(i).done => Msg(i).data = 0
  <2>1. InOrder(u) /\ \A i \in Place(u) : ChunkWasSent(u, Msg(i)) /\ i \in Nat
    BY <1>1 DEF PlacesInv, Place
  <2> SUFFICES ASSUME NEW i \in Place(u)'
               PROVE  /\ i \in Place(u) /\ Msg(i)' = Msg(i) /\ ~m.done
                      /\ Msg(i).done \/ m.data < Msg(i).data
                      /\ Msg(i).done => Msg(i).data = 0
    OBVIOUS
  <2>2. i \in Place(u) /\ i # 0 /\ Msg(i)' = Msg(i)
    BY <1>1, <1>2
  <2>3. i \in Nat /\ 0 < i
    BY <2>1, <2>2
  <2>4. ~Msg(0).done /\ (Msg(i).done \/ Msg(0).data < Msg(i).data)
    BY <1>3, <2>1, <2>2, <2>3 DEF InOrder
  <2>5. Msg(i).done => Msg(i).data = 0
    BY <2>1, <2>2 DEF ChunkWasSent
  <2> QED
    BY <1>3, <2>2, <2>4, <2>5
<1>7. ~m.done => m.data \in 1 .. sent[u]
  BY <1>1, <1>3 DEF PlacesInv, ChunkWasSent
<1>8. u \notin late /\ MayOpen(dz, m) =>
        \E k \in 0 .. sent[u] :
           /\ Before(dz, m) = FirstChunks(k) /\ RestOnWay(u, k)
           /\ ~m.done => m.data = k + 1
           /\ m.done => k = sent[u]
  BY HeadChunk
<1> HIDE DEF u
<1>9. ASSUME u \notin late, Kept(dz, o, m) PROVE OpenIsComplete(u)'
  <2>1. MayOpen(dz, m) /\ ~m.done /\ dz'.data[u] = After(dz, m)
    BY <1>9 DEF Kept, u
  <2>2. PICK k \in 0 .. sent[u] : /\ Before(dz, m) = FirstChunks(k) /\ RestOnWay(u, k)
                                  /\ m.data = k + 1
    BY <1>8, <1>9, <2>1
  <2>3. k \in Nat /\ k + 1 \in 0 .. sent'[u] /\ sent'[u] = sent[u]
    BY <1>1, <1>7, <2>1, <2>2
  <2>4. dz'.data[u] = FirstChunks(k + 1)
    <3>1. After(dz, m) = Append(Before(dz, m), m.data)
      BY <2>2, <2>3 DEF After
    <3> QED
      BY <2>1, <2>2, <2>3, <3>1, NextChunk
  <2>5. RestOnWay(u, k + 1)'
    <3> SUFFICES ASSUME NEW n \in (k + 1) + 1 .. sent[u]
                 PROVE  \E i \in Place(u)' : Msg(i)'.data = n
      BY <2>3 DEF RestOnWay
    <3>1. n \in k + 1 .. sent[u] /\ n # k + 1
      BY <1>1, <2>3
    <3>2. PICK i \in Place(u) : Msg(i).data = n
      BY <2>2, <3>1 DEF RestOnWay
    <3>3. i # 0
      BY <1>3, <2>2, <3>1, <3>2
    <3> QED
      BY <1>1, <1>2, <3>2, <3>3
  <2>6. \A i \in Place(u)' : ~Msg(i)'.done => Msg(i)'.data > k + 1
    <3> SUFFICES ASSUME NEW i \in Place(u)', ~Msg(i)'.done PROVE Msg(i)'.data > k + 1
      OBVIOUS
    <3>1. Msg(i)' = Msg(i) /\ m.data < Msg(i).data
      BY <1>6
    <3> QED
      BY <2>2, <3>1
  <2> QED
    BY <2>3, <2>4, <2>5, <2>6 DEF OpenIsComplete
<1>10. FreshIsComplete(u)'
  <2>1. \A i \in Place(u)' : Msg(i)'.data # 1
    BY <1>1, <1>6, <1>7
  <2> QED
    BY <2>1 DEF FreshIsComplete
<1>11. NothingMissing'
  <2> SUFFICES ASSUME NEW v \in Uploads \ late
               PROVE  /\ v \in dz'.open => aconn # NoConn /\ OpenIsComplete(v)'
                      /\ v \notin dz'.open => FreshIsComplete(v)'
    BY DEF NothingMissing
  <2>1. CASE v = u
    <3>1. v \in dz'.open => Kept(dz, o, m)
      BY <1>4, <2>1 DEF GivenUp, Published, u
    <3> QED
      BY <1>9, <1>10, <2>1, <3>1
  <2>2. CASE v # u
    <3>1. /\ v \in dz.open => OpenIsComplete(v)
          /\ v \notin dz.open => FreshIsComplete(v)
      BY <1>1 DEF NothingMissing
    <3>2. (v \in dz'.open <=> v \in dz.open) /\ dz'.data[v] = dz.data[v]
      BY <1>4, <2>2 DEF OthersKept
    <3>3. Place(v)' = Place(v) /\ \A i \in Place(v) : Msg(i)' = Msg(i)
      BY <1>2, <1>3, <2>2
    <3> QED
      BY <3>1, <3>2, <3>3 DEF OpenIsComplete, FreshIsComplete, RestOnWay
  <2> QED
    BY <2>1, <2>2
<1>12. FinalIsWhole'
  <2> SUFFICES ASSUME NEW n \in Names, dz'.final[n] # None
               PROVE  LET f == dz'.final[n] IN
                      \/ f.data = [i \in 1 .. sent[f.id] |-> i] /\ phase[f.id] \in {"wait", "done"}
                      \/ f.id \in late
    BY DEF FinalIsWhole
  <2>1. CASE dz'.final[n] = dz.final[n]
    BY <1>1, <2>1 DEF FinalIsWhole
  <2>2. CASE Published(dz, o, m) /\ dz'.final[n] # dz.final[n] /\ u \notin late
    <3>1. dz'.final[n].id = u /\ dz'.final[n].data = After(dz, m) /\ MayOpen(dz, m) /\ m.done
      BY <1>1, <2>2 DEF Published, u
    <3>2. m.data = 0 /\ phase[u] \in {"wait", "done"}
      BY <1>1, <1>3, <3>1 DEF PlacesInv, ChunkWasSent
    <3>3. After(dz, m) = FirstChunks(sent[u])
      BY <1>8, <2>2, <3>1, <3>2 DEF After
    <3> QED
      BY <3>1, <3>2, <3>3 DEF FirstChunks
  <2>3. CASE Published(dz, o, m) /\ dz'.final[n] # dz.final[n] /\ u \in late
    BY <1>1, <2>3 DEF Published, u
  <2> QED
    BY <1>4, <2>1, <2>2, <2>3 DEF GivenUp, Kept
<1> QED
  BY <1>5, <1>11, <1>12

\* handleFileUploadRequest: the chunk, the acknowledgement, and the record of
\* what is stored.
LEMMA HandleFileUploadRequest ==
  ASSUME UploadInv, NEW c \in Conns, handleFileUploadRequest(c)
  PROVE  UploadInv'
<1>1. PICK m \in Chunks : m = hand[c]
  BY DEF handleFileUploadRequest, UploadInv, TypeOK
<1>2. /\ TypeOK /\ OneConnection /\ DropzoneInv(dz) /\ m.id \in Uploads
      /\ hand' = [hand EXCEPT ![c] = None] /\ hand \in [Conns -> {None} \cup Chunks]
      /\ late' = IF c = aconn THEN late ELSE late \cup {m.id}
      /\ UNCHANGED <<hub, net, down, gor>>
  BY <1>1 DEF UploadInv, handleFileUploadRequest, TypeOK, Chunks
<1>3. PICK o \in HandleChunk(dz, m) :
        /\ faults + o.bad <= MaxFaults
        /\ faults' = faults + o.bad
        /\ dz' = o.d
        /\ IF o.ack = None THEN UNCHANGED up
           ELSE Reply(c, [id |-> m.id, type |-> "ack", ok |-> o.ack = "ok"])
        /\ stored' = IF o.ack = "ok" THEN stored \cup {m.id} ELSE stored
  BY <1>1 DEF handleFileUploadRequest
<1>4. DropzoneInv(dz') /\ o.bad \in {0, 1}
  BY <1>2, <1>3, ChunkOutcome
<1>5. PlacesInv' /\ NothingMissing' /\ FinalIsWhole'
  <2>1. UNCHANGED <<aconn, down, sent, phase>>
    BY <1>2 DEF hub, net
  <2>2. CASE c = aconn
    <3>1. c # NoConn
      BY ConstantTypes DEF Conns, NoConn
    <3> QED
      BY <1>1, <1>2, <1>3, <2>1, <2>2, <3>1, NextInLine
  <2>3. CASE c # aconn
    BY <1>2, <1>3, <2>1, <2>3, LateChunk
  <2> QED
    BY <2>2, <2>3
<1>6. AnswersAreTrue' /\ up' \in [Conns -> Seq(Answers)]
  <2> DEFINE yes == o.ack = "ok"
             r == [id |-> m.id, type |-> "ack", ok |-> yes]
  <2>1. yes \in BOOLEAN
    OBVIOUS
  <2>2. (yes => m.id \in stored') /\ stored \subseteq stored'
    BY <1>3
  <2>3. Reply(c, r) \/ UNCHANGED up
    BY <1>3
  <2> HIDE DEF yes
  <2>4. r \in Answers /\ r.id = m.id /\ r.ok = yes
    BY <1>2, <2>1 DEF Answers, Requests
  <2> HIDE DEF r
  <2>5. AckIsTrue(r)'
    BY <2>2, <2>4 DEF AckIsTrue
  <2>6. UNCHANGED <<pend, answer>>
    BY <1>2 DEF hub
  <2> QED
    BY <2>2, <2>3, <2>4, <2>5, <2>6, ReplyKeeps
<1>7. OneConnection'
  <2>1. \A b \in Conns : hand'[b] \in {None, hand[b]}
    BY <1>2
  <2> QED
    BY <1>2, <2>1 DEF OneConnection, net
<1>8. TypeOK'
  <2>1. faults' \in 0 .. MaxFaults
    BY <1>2, <1>3, <1>4, ConstantTypes DEF TypeOK
  <2>2. late' \subseteq Uploads /\ stored' \subseteq Uploads
    BY <1>2, <1>3 DEF TypeOK
  <2>3. hand' \in [Conns -> {None} \cup Chunks]
    BY <1>2
  <2>4. /\ dz' \in Dropzone /\ dz'.leaked \subseteq dz'.temps
        /\ Cardinality(dz'.open) <= MaxConcurrentUploads
    BY <1>4 DEF DropzoneInv
  <2> QED
    BY <1>2, <1>6, <2>1, <2>2, <2>3, <2>4 DEF TypeOK, hub, net
<1> QED
  BY <1>4, <1>5, <1>6, <1>7, <1>8 DEF UploadInv

\* A step of the agent that takes files away and leaves the open uploads.
LEMMA FilesRemoved ==
  ASSUME UploadInv, SamePlaces, UNCHANGED <<sent, phase, aconn, late>>,
         dz'.open = dz.open, dz'.data = dz.data, \A n \in Names : dz'.final[n] \in {None, dz.final[n]}
  PROVE  PlacesInv' /\ NothingMissing' /\ FinalIsWhole'
<1>1. \A u \in Uploads : Place(u)' = Place(u) /\ \A i \in Place(u) : Msg(i)' = Msg(i)
  BY DEF SamePlaces
<1>2. PlacesInv'
  <2> SUFFICES ASSUME NEW u \in Uploads
               PROVE  InOrder(u)' /\ \A i \in Place(u) : ChunkWasSent(u, Msg(i))'
    BY <1>1 DEF PlacesInv
  <2>1. InOrder(u) /\ \A i \in Place(u) : ChunkWasSent(u, Msg(i))
    BY DEF UploadInv, PlacesInv
  <2> QED
    BY <1>1, <2>1 DEF InOrder, ChunkWasSent
<1>3. NothingMissing'
  BY <1>1 DEF UploadInv, NothingMissing, OpenIsComplete, FreshIsComplete, RestOnWay
<1>4. FinalIsWhole'
  BY DEF UploadInv, FinalIsWhole
<1> QED
  BY <1>2, <1>3, <1>4

\* A file is deleted on request: a final file, or a temporary one.
LEMMA DeleteKeeps ==
  ASSUME UploadInv, NEW c \in Conns, NEW m \in Questions, m.ask \in Names \cup Uploads,
         handleFileDeleteRequest(c, m)
  PROVE  /\ DropzoneInv(dz') /\ dz'.open = dz.open /\ dz'.data = dz.data
         /\ \A n \in Names : dz'.final[n] \in {None, dz.final[n]}
<1>1. DropzoneInv(dz) /\ dz \in Dropzone /\ dz.final \in [Names -> {None} \cup Files]
  BY DEF UploadInv, DropzoneInv, Dropzone
<1>2. CASE dz' = dz
  BY <1>1, <1>2 DEF DropzoneInv
<1>3. CASE m.ask \in Names /\ dz' = [dz EXCEPT !.final[m.ask] = None]
  <2>1. /\ dz' \in Dropzone /\ dz'.open = dz.open /\ dz'.data = dz.data
        /\ dz'.temps = dz.temps /\ dz'.leaked = dz.leaked
        /\ dz'.final = [dz.final EXCEPT ![m.ask] = None]
    BY <1>1, <1>3 DEF Dropzone
  <2>2. DropzoneInv(dz')
    BY <1>1, <2>1 DEF DropzoneInv
  <2> QED
    BY <1>1, <2>1, <2>2
<1>4. CASE m.ask \in Uploads /\ dz' = RemoveTemp(dz, m.ask)
  <2> DEFINE e == RemoveTemp(dz, m.ask)
  <2>1. /\ e \in Dropzone /\ e.open = dz.open /\ e.data = dz.data /\ e.final = dz.final
        /\ e.temps = dz.temps \ {m.ask} /\ e.leaked = dz.leaked \ {m.ask}
    BY <1>1, <1>4, RemoveTempFields
  <2> HIDE DEF e
  <2>2. DropzoneInv(e)
    BY <1>1, <2>1 DEF DropzoneInv
  <2>3. dz' = e
    BY <1>4 DEF e
  <2> QED
    BY <2>1, <2>2, <2>3
<1> QED
  BY <1>2, <1>3, <1>4 DEF handleFileDeleteRequest

\* handleMessage: a list, read or delete is carried out and answered.
LEMMA HandleMessage ==
  ASSUME UploadInv, NEW g \in gor, handleMessage(g)
  PROVE  UploadInv'
<1>1. /\ TypeOK /\ OneConnection /\ DropzoneInv(dz) /\ gor' = gor \ {g}
      /\ UNCHANGED <<hub, net, down, hand, late, stored, faults>>
  BY DEF UploadInv, handleMessage
<1>2. g[1] \in Conns /\ g[2] \in Questions /\ g[2].id \in Requests
  BY <1>1 DEF TypeOK, Questions, Requests
<1>3. /\ DropzoneInv(dz') /\ dz'.open = dz.open /\ dz'.data = dz.data
      /\ \A n \in Names : dz'.final[n] \in {None, dz.final[n]}
  <2>1. CASE UNCHANGED dz
    BY <1>1, <2>1 DEF DropzoneInv
  <2>2. CASE g[2].ask \in Names \cup Uploads /\ handleFileDeleteRequest(g[1], g[2])
    BY <1>2, <2>2, DeleteKeeps
  <2> QED
    BY <2>1, <2>2 DEF handleMessage
<1>4. PICK type \in {"list", "read", "delete"}, ok \in BOOLEAN :
        Reply(g[1], [id |-> g[2].id, type |-> type, ok |-> ok])
  <2>1. CASE handleFileListRequest(g[1], g[2]) \/ handleFileReadRequest(g[1], g[2])
    BY <2>1 DEF handleFileListRequest, handleFileReadRequest
  <2>2. CASE handleFileDeleteRequest(g[1], g[2])
    <3> DEFINE exists == IF g[2].ask \in Names THEN dz.final[g[2].ask] # None ELSE g[2].ask \in dz.temps
    <3>1. exists \in BOOLEAN
      <4>1. CASE g[2].ask \in Names
        <5>1. exists = (dz.final[g[2].ask] # None)
          BY <4>1
        <5> QED
          BY <5>1
      <4>2. CASE g[2].ask \notin Names
        <5>1. CASE g[2].ask \in dz.temps
          BY <4>2, <5>1
        <5>2. CASE ~(g[2].ask \in dz.temps)
          BY <4>2, <5>2
        <5> QED
          BY <5>1, <5>2
      <4> QED
        BY <4>1, <4>2
    <3>2. Reply(g[1], [id |-> g[2].id, type |-> "delete", ok |-> exists])
      BY <2>2 DEF handleFileDeleteRequest
    <3> HIDE DEF exists
    <3> QED
      BY <3>1, <3>2
  <2> QED
    BY <2>1, <2>2 DEF handleMessage
<1>5. AnswersAreTrue' /\ up' \in [Conns -> Seq(Answers)]
  <2> DEFINE r == [id |-> g[2].id, type |-> type, ok |-> ok]
  <2>1. r \in Answers /\ r.type # "ack"
    BY <1>2, <1>4 DEF Answers
  <2>2. Reply(g[1], r) /\ UNCHANGED <<pend, answer, stored>>
    BY <1>1, <1>4 DEF hub
  <2> HIDE DEF r
  <2>3. AckIsTrue(r)'
    BY <2>1 DEF AckIsTrue
  <2> QED
    BY <1>2, <2>1, <2>2, <2>3, ReplyKeeps
<1>6. PlacesInv' /\ NothingMissing' /\ FinalIsWhole'
  <2>1. UNCHANGED <<aconn, down, hand, sent, phase, late>>
    BY <1>1 DEF hub, net
  <2>2. SamePlaces
    BY <2>1, PlaceKept
  <2> QED
    BY <1>3, <2>1, <2>2, FilesRemoved
<1>7. OneConnection'
  BY <1>1 DEF OneConnection, net
<1>8. TypeOK'
  <2>1. /\ dz' \in Dropzone /\ dz'.leaked \subseteq dz'.temps
        /\ Cardinality(dz'.open) <= MaxConcurrentUploads
    BY <1>3 DEF DropzoneInv
  <2> QED
    BY <1>1, <1>5, <2>1 DEF TypeOK, hub, net
<1> QED
  BY <1>3, <1>5, <1>6, <1>7, <1>8 DEF UploadInv

-----------------------------------------------------------------------------
(* Connections. *)

\* A new connection is empty, and the agent has nothing open.
LEMMA ConnectKeeps ==
  ASSUME UploadInv, Connect
  PROVE  UploadInv'
<1>1. /\ TypeOK /\ OneConnection /\ NothingMissing /\ FinalIsWhole /\ DropzoneInv(dz) /\ AnswersAreTrue
      /\ aconn = NoConn /\ nconn < MaxConn /\ nconn' = nconn + 1 /\ aconn' = nconn' /\ cur' = nconn'
      /\ open' = open \cup {nconn'} /\ UNCHANGED <<hub, down, up, agent>>
  BY DEF UploadInv, Connect
<1>2. nconn \in Nat /\ nconn' \in Conns /\ nconn' # NoConn /\ nconn' \in 0 .. MaxConn
  BY <1>1, ConstantTypes DEF TypeOK, Conns, NoConn
<1>3. TypeOK'
  BY <1>1, <1>2 DEF TypeOK, hub, agent
<1>4. \A c \in Conns : c # NoConn
  BY ConstantTypes DEF Conns, NoConn
<1>5. OneConnection'
  <2>1. \A c \in Conns : down'[c] = <<>>
    BY <1>1, <1>4 DEF OneConnection
  <2>2. \A c \in Conns : c > nconn' => hand'[c] = None
    <3>1. \A c \in Conns : c > nconn + 1 => c > nconn
      BY <1>2 DEF Conns
    <3> QED
      BY <1>1, <3>1 DEF OneConnection, agent
  <2> QED
    BY <1>1, <1>2, <2>1, <2>2 DEF OneConnection
<1>6. \A u : Place(u)' = {}
  <2>1. nconn' > nconn
    BY <1>1, <1>2
  <2>2. hand'[aconn'] = None /\ down'[aconn'] = <<>>
    BY <1>1, <1>2, <1>4, <2>1 DEF OneConnection, agent
  <2>3. Len(down'[aconn']) = 0 /\ Msg(0)' = None
    BY <2>2 DEF Msg
  <2>4. 0 .. Len(down'[aconn']) = {0}
    BY <2>3
  <2> QED
    BY <2>3, <2>4 DEF Place
<1>7. PlacesInv' /\ NothingMissing'
  <2>1. \A u \in Uploads \ late : u \notin dz.open
    BY <1>1 DEF NothingMissing
  <2>2. dz' = dz /\ late' = late
    BY <1>1 DEF agent
  <2> QED
    BY <1>6, <2>1, <2>2 DEF PlacesInv, InOrder, NothingMissing, FreshIsComplete
<1>8. AnswersAreTrue' /\ FinalIsWhole' /\ DropzoneInv(dz')
  BY <1>1 DEF AnswersAreTrue, AckIsTrue, SuccessMeansStored, FinalIsWhole, DropzoneInv, hub, agent
<1> QED
  BY <1>3, <1>5, <1>7, <1>8 DEF UploadInv

\* The agent has no connection and nothing open.
LEMMA NothingOpen ==
  ASSUME UploadInv, aconn' = NoConn, dz'.open = {}, dz'.final = dz.final,
         UNCHANGED <<hub, late>>
  PROVE  PlacesInv' /\ NothingMissing' /\ FinalIsWhole'
<1>1. PlacesInv' /\ \A u : Place(u)' = {}
  BY NoPlaces
<1>2. NothingMissing'
  BY <1>1 DEF NothingMissing, FreshIsComplete
<1>3. FinalIsWhole'
  BY FinalKept DEF UploadInv, StaysSettled, Settled, hub
<1> QED
  BY <1>1, <1>2, <1>3

\* The connection of the agent ends: nothing waits on any connection.
LEMMA ConnectionEnds ==
  ASSUME UploadInv, aconn # NoConn, aconn' = NoConn, down' = [down EXCEPT ![aconn] = <<>>],
         UNCHANGED <<hub, cur, open, nconn, up, late, stored>>,
         \A c \in Conns : hand'[c] \in {None, hand[c]}
  PROVE  OneConnection' /\ AnswersAreTrue' /\ down' \in [Conns -> Seq(Chunks \cup Questions)]
<1>1. TypeOK /\ OneConnection /\ AnswersAreTrue /\ aconn \in Conns /\ nconn \in Nat
  BY ConstantTypes DEF UploadInv, TypeOK
<1>2. down \in [Conns -> Seq(Chunks \cup Questions)]
  BY <1>1 DEF TypeOK
<1>3. /\ down' \in [Conns -> Seq(Chunks \cup Questions)]
      /\ \A c \in Conns : down'[c] = <<>>
  BY <1>1, <1>2 DEF OneConnection
<1>4. OneConnection'
  BY <1>1, <1>3 DEF OneConnection, NoConn
<1>5. AnswersAreTrue'
  BY <1>1 DEF AnswersAreTrue, AckIsTrue, SuccessMeansStored, hub
<1> QED
  BY <1>3, <1>4, <1>5

\* connectAndStream returns, and its deferred Cleanup takes every open upload
\* with its temporary file.
LEMMA DisconnectKeeps ==
  ASSUME UploadInv, Disconnect
  PROVE  UploadInv'
<1>1. /\ TypeOK /\ aconn # NoConn /\ aconn' = NoConn /\ dz' = Cleanup(dz)
      /\ down' = [down EXCEPT ![aconn] = <<>>]
      /\ UNCHANGED <<hub, cur, open, nconn, up, hand, gor, late, stored, faults>>
  BY DEF UploadInv, Disconnect
<1>2. DropzoneInv(dz) /\ dz \in Dropzone
  BY DEF UploadInv, DropzoneInv
<1>3. NoData \in [Uploads -> Seq(1 .. MaxUploadSize)]
  BY DEF NoData
<1>4. /\ dz' \in Dropzone /\ dz'.open = {} /\ dz'.final = dz.final
      /\ dz'.temps = dz.temps \ dz.open /\ dz'.leaked = dz.leaked
  BY <1>1, <1>2, <1>3 DEF Cleanup, Dropzone
<1>5. IsFiniteSet({}) /\ Cardinality({}) = 0
  BY FS_EmptySet
<1>6. DropzoneInv(dz')
  BY <1>2, <1>4, <1>5, ConstantTypes DEF DropzoneInv
<1>7. PlacesInv' /\ NothingMissing' /\ FinalIsWhole'
  BY <1>1, <1>4, NothingOpen
<1>8. OneConnection' /\ AnswersAreTrue' /\ down' \in [Conns -> Seq(Chunks \cup Questions)]
  BY <1>1, ConnectionEnds
<1>9. TypeOK'
  BY <1>1, <1>6, <1>8 DEF TypeOK, DropzoneInv, hub
<1> QED
  BY <1>6, <1>7, <1>8, <1>9 DEF UploadInv

\* The process ends: every temporary file is left over.
LEMMA CrashKeeps ==
  ASSUME UploadInv, AgentCrash
  PROVE  UploadInv'
<1>1. /\ TypeOK /\ aconn # NoConn /\ aconn' = NoConn /\ faults < MaxFaults /\ faults' = faults + 1
      /\ dz' = [dz EXCEPT !.open = {}, !.data = NoData, !.leaked = dz.temps]
      /\ down' = [down EXCEPT ![aconn] = <<>>]
      /\ hand' = [c \in Conns |-> None] /\ gor' = {}
      /\ UNCHANGED <<hub, cur, open, nconn, up, late, stored>>
  BY DEF UploadInv, AgentCrash
<1>2. DropzoneInv(dz) /\ dz \in Dropzone
  BY DEF UploadInv, DropzoneInv
<1>3. NoData \in [Uploads -> Seq(1 .. MaxUploadSize)]
  BY DEF NoData
<1>4. /\ dz' \in Dropzone /\ dz'.open = {} /\ dz'.final = dz.final
      /\ dz'.temps = dz.temps /\ dz'.leaked = dz.temps
  BY <1>1, <1>2, <1>3 DEF Dropzone
<1>5. IsFiniteSet({}) /\ Cardinality({}) = 0
  BY FS_EmptySet
<1>6. DropzoneInv(dz')
  BY <1>4, <1>5, ConstantTypes DEF DropzoneInv
<1>7. PlacesInv' /\ NothingMissing' /\ FinalIsWhole'
  BY <1>1, <1>4, NothingOpen
<1>8. hand' \in [Conns -> {None} \cup Chunks] /\ \A c \in Conns : hand'[c] \in {None, hand[c]}
  BY <1>1
<1>9. OneConnection' /\ AnswersAreTrue' /\ down' \in [Conns -> Seq(Chunks \cup Questions)]
  BY <1>1, <1>8, ConnectionEnds
<1>10. faults' \in 0 .. MaxFaults
  BY <1>1, ConstantTypes DEF TypeOK
<1>11. TypeOK'
  BY <1>1, <1>6, <1>8, <1>9, <1>10 DEF TypeOK, DropzoneInv, hub
<1> QED
  BY <1>6, <1>7, <1>9, <1>11 DEF UploadInv

\* The hub's handler of a connection ends.
LEMMA HubCloseKeeps ==
  ASSUME UploadInv, NEW c \in Conns, HubClose(c)
  PROVE  UploadInv'
<1>1. /\ TypeOK /\ OneConnection /\ AnswersAreTrue /\ up \in [Conns -> Seq(Answers)]
      /\ open' = open \ {c} /\ cur' = (IF cur = c THEN NoConn ELSE cur)
      /\ up' = [up EXCEPT ![c] = <<>>]
      /\ UNCHANGED <<hub, aconn, nconn, down, agent>>
  BY DEF UploadInv, HubClose, TypeOK
<1>2. up' \in [Conns -> Seq(Answers)] /\ \A b \in Conns : up'[b] \in {<<>>, up[b]}
  BY <1>1
<1>3. AnswersAreTrue'
  <2>1. \A b \in Conns : \A i \in DOMAIN up'[b] : AckIsTrue(up[b][i])'
    BY <1>1, <1>2 DEF AnswersAreTrue, AckIsTrue, agent
  <2> QED
    BY <1>1, <2>1 DEF AnswersAreTrue, AckIsTrue, SuccessMeansStored, hub, agent
<1>4. TypeOK'
  BY <1>1, <1>2 DEF TypeOK, hub, agent
<1>5. OneConnection'
  BY <1>1 DEF OneConnection, agent
<1>6. PlacesInv' /\ NothingMissing' /\ FinalIsWhole' /\ DropzoneInv(dz')
  BY <1>1, PlaceKept, PipeKept DEF hub, agent, StaysSettled, Settled
<1> QED
  BY <1>3, <1>4, <1>5, <1>6 DEF UploadInv

-----------------------------------------------------------------------------
(* The theorems. *)

LEMMA StepUploadInv == UploadInv /\ [Next]_vars => UploadInv'
<1> SUFFICES ASSUME UploadInv, [Next]_vars PROVE UploadInv'
  OBVIOUS
<1>1. ASSUME NEW u \in Uploads, handleUploadFile(u) PROVE UploadInv'
  BY <1>1, HandleUploadFile
<1>2. ASSUME NEW a \in Asks, \/ handleDeleteDropzoneFile(a) \/ handleListDropzone(a)
                             \/ handleListFiles(a) \/ handleReadFile(a)
      PROVE  UploadInv'
  <2>1. PICK t \in Targets : sendAgentRequest(a, t)
    BY <1>2 DEF handleDeleteDropzoneFile, handleListDropzone, handleListFiles, handleReadFile, Targets
  <2> QED
    BY <2>1, SendAgentRequest
<1>3. ASSUME NEW r \in Requests, HandlerStep(r) PROVE UploadInv'
  <2>1. CASE r \in Uploads
    <3>1. \/ sendChunkToAgent(r) \/ sendFinalChunk(r)
          \/ readFails(r) \/ uploadTimeout(r) \/ uploadAcked(r)
      BY <1>3, <2>1 DEF HandlerStep, streamFileToAgent
    <3> QED
      BY <2>1, <3>1, SendChunkToAgent, SendFinalChunk, GiveUp, UploadAcked
  <2>2. CASE r \notin Uploads
    <3>1. r \in Asks /\ (askAnswered(r) \/ askTimeout(r))
      BY <1>3, <2>2 DEF HandlerStep, Requests
    <3> QED
      BY <3>1, AskEnds
  <2> QED
    BY <2>1, <2>2
<1>4. ASSUME NEW c \in Conns, HubRecv(c) PROVE UploadInv'
  BY <1>4, HubRecvKeeps
<1>5. ASSUME NEW c \in Conns, startRecvLoop(c) PROVE UploadInv'
  BY <1>5, StartRecvLoop
<1>6. ASSUME NEW c \in Conns, handleFileUploadRequest(c) PROVE UploadInv'
  BY <1>6, HandleFileUploadRequest
<1>7. ASSUME NEW c \in Conns, HubClose(c) PROVE UploadInv'
  BY <1>7, HubCloseKeeps
<1>8. ASSUME NEW g \in gor, handleMessage(g) PROVE UploadInv'
  BY <1>8, HandleMessage
<1>9. CASE Connect
  BY <1>9, ConnectKeeps
<1>10. CASE Disconnect
  BY <1>10, DisconnectKeeps
<1>11. CASE AgentCrash
  BY <1>11, CrashKeeps
<1>12. CASE UNCHANGED vars
  <2>1. UNCHANGED <<phase, sent, target, answer, pend, net, aconn, down, up, hand, dz, late, agent>>
    BY <1>12 DEF vars, hub, net, agent
  <2>2. PlacesInv' /\ NothingMissing' /\ FinalIsWhole' /\ DropzoneInv(dz')
    BY <2>1, PlaceKept, PipeKept DEF StaysSettled, Settled
  <2>3. TypeOK' /\ OneConnection'
    BY <2>1 DEF UploadInv, TypeOK, OneConnection, net, agent
  <2>4. AnswersAreTrue'
    BY <2>1 DEF UploadInv, AnswersAreTrue, AckIsTrue, SuccessMeansStored, agent
  <2> QED
    BY <2>2, <2>3, <2>4 DEF UploadInv
<1> QED
  BY <1>1, <1>2, <1>3, <1>4, <1>5, <1>6, <1>7, <1>8, <1>9, <1>10, <1>11, <1>12 DEF Next

LEMMA UploadInductive == Spec => []UploadInv
  BY InitUploadInv, StepUploadInv, PTL DEF Spec

(* Every record, queue and file of the upload path has its type, and the   *)
(* agent never has more uploads open than its limit, with chunks of old    *)
(* connections among those of the new one (dropzone.go openNewUpload,      *)
(* client.go startRecvLoop).                                               *)
THEOREM UploadTypeCorrect == Spec => []TypeOK
<1>1. UploadInv => TypeOK
  BY DEF UploadInv
<1> QED
  BY <1>1, UploadInductive, PTL

(* The dropzone holds no temporary file that nobody will remove, except    *)
(* after a failed write or the end of the process: a reconnection, a late  *)
(* chunk, a delete of the temporary file and a full dropzone leave none    *)
(* (dropzone.go HandleChunk, Cleanup).                                     *)
THEOREM TempsHaveOwners == Spec => []TempHasOwner
<1>1. UploadInv => TempHasOwner
  BY DEF UploadInv, DropzoneInv, TempHasOwner
<1> QED
  BY <1>1, UploadInductive, PTL

(* Success is reported for uploads that were stored, whatever answers are  *)
(* late, doubled or lost (pending.go Deliver, handlers_upload.go           *)
(* handleUploadFile).                                                      *)
THEOREM SuccessIsStored == Spec => []SuccessMeansStored
<1>1. UploadInv => SuccessMeansStored
  BY DEF UploadInv, AnswersAreTrue
<1> QED
  BY <1>1, UploadInductive, PTL

(* A file under its final name is a whole upload, in order and without a   *)
(* gap, unless a chunk of it was handled after the Cleanup of its          *)
(* connection (dropzone.go HandleChunk, finishUpload; handlers_upload.go   *)
(* streamFileToAgent).                                                     *)
THEOREM PublishedIsWhole == Spec => []FinalIsWhole
<1>1. UploadInv => FinalIsWhole
  BY DEF UploadInv
<1> QED
  BY <1>1, UploadInductive, PTL

-----------------------------------------------------------------------------
(* A request is a call with one answer.  Timers, late answers and failed   *)
(* sends race for it, and an answer may be on its way while the request    *)
(* ends.                                                                   *)

\* A request has a channel from its registration to its answer to the client.
CallInv ==
  \A r \in Requests :
    /\ answer[r] # None <=> phase[r] = "done"
    /\ pend[r] # None <=> phase[r] \in {"stream", "wait"}

\* The client is answered once, and what the agent sends for the request after
\* that finds no channel; until then the first answer in the channel stays
\* (pending.go Deliver and Remove, agent_request.go sendAgentRequestWithID,
\* handlers_upload.go handleUploadFile).
AnsweredOnce ==
  \A r \in Requests :
    /\ answer[r] # None => answer'[r] = answer[r] /\ pend'[r] = None
    /\ pend[r] \notin {None, Empty} => pend'[r] \in {pend[r], None}

LEMMA CallAnswered ==
  ASSUME TypeOK, CallInv, NEW r \in Requests, phase[r] # "done",
         NEW status \in {"ok", "error"}, Respond(r, status)
  PROVE  CallInv' /\ AnsweredOnce
  BY ConstantTypes DEF TypeOK, CallInv, AnsweredOnce, Respond, Remove

LEMMA CallBegins ==
  ASSUME TypeOK, CallInv, NEW r \in Requests, phase[r] = "idle", NEW w \in {"stream", "wait"},
         pend' = Register(pend, r), phase' = [phase EXCEPT ![r] = w], UNCHANGED answer
  PROVE  CallInv' /\ AnsweredOnce
  BY ConstantTypes DEF TypeOK, CallInv, AnsweredOnce, Register

LEMMA CallGoesOn ==
  ASSUME TypeOK, CallInv, UNCHANGED <<answer, pend>>,
         \A r \in Requests : \/ phase'[r] = phase[r]
                             \/ phase[r] = "stream" /\ phase'[r] = "wait"
  PROVE  CallInv' /\ AnsweredOnce
  BY DEF CallInv, AnsweredOnce

\* A message goes into a channel that is empty, or nowhere.
LEMMA CallReceives ==
  ASSUME TypeOK, CallInv, NEW c \in Conns, HubRecv(c)
  PROVE  CallInv' /\ AnsweredOnce
<1>1. PICK m \in Answers : m = Head(up[c])
  BY DEF TypeOK, HubRecv
<1>2. pend' = Deliver(pend, m) /\ UNCHANGED <<phase, answer>> /\ m.id \in Requests /\ m # None
  BY <1>1, ConstantTypes DEF HubRecv, Answers
<1>3. pend \in [Requests -> {None, Empty} \cup Answers]
  BY DEF TypeOK
<1>4. \A r \in Requests : pend'[r] = pend[r] \/ (pend[r] = Empty /\ pend'[r] = m)
  BY <1>2, <1>3 DEF Deliver
<1> QED
  BY <1>2, <1>4, ConstantTypes DEF CallInv, AnsweredOnce

LEMMA StepCall == TypeOK /\ CallInv /\ [Next]_vars => CallInv' /\ AnsweredOnce
<1> SUFFICES ASSUME TypeOK, CallInv, [Next]_vars PROVE CallInv' /\ AnsweredOnce
  OBVIOUS
<1> DEFINE Goal == CallInv' /\ AnsweredOnce
<1>a. phase \in [Requests -> {"idle", "stream", "wait", "done"}]
  BY DEF TypeOK
<1>1. ASSUME NEW u \in Uploads, handleUploadFile(u) PROVE Goal
  <2>1. u \in Requests /\ phase[u] = "idle"
    BY <1>1 DEF Requests, handleUploadFile
  <2>2. CASE Respond(u, "error")
    BY <2>1, <2>2, CallAnswered
  <2>3. CASE pend' = Register(pend, u) /\ phase' = [phase EXCEPT ![u] = "stream"] /\ UNCHANGED answer
    BY <2>1, <2>3, CallBegins
  <2> QED
    BY <1>1, <2>2, <2>3 DEF handleUploadFile
<1>2. ASSUME NEW a \in Asks, NEW t, sendAgentRequest(a, t) PROVE Goal
  <2>1. a \in Requests /\ phase[a] = "idle"
    BY <1>2 DEF Requests, sendAgentRequest
  <2>2. CASE Respond(a, "error")
    BY <2>1, <2>2, CallAnswered
  <2>3. CASE pend' = Register(pend, a) /\ phase' = [phase EXCEPT ![a] = "wait"] /\ UNCHANGED answer
    BY <2>1, <2>3, CallBegins
  <2> QED
    BY <1>2, <2>2, <2>3 DEF sendAgentRequest, SendToAgent
<1>3. ASSUME NEW r \in Requests, HandlerStep(r) PROVE Goal
  <2>1. phase[r] \in {"stream", "wait"}
    BY <1>3 DEF HandlerStep, streamFileToAgent, sendChunkToAgent, sendFinalChunk, readFails,
                uploadAcked, uploadTimeout, askAnswered, askTimeout
  <2>2. ASSUME NEW status \in {"ok", "error"}, Respond(r, status) PROVE Goal
    BY <2>1, <2>2, CallAnswered
  <2>3. CASE sendChunkToAgent(r)
    <3>1. Respond(r, "error") \/ UNCHANGED <<phase, answer, pend>>
      BY <2>3 DEF sendChunkToAgent, SendToAgent
    <3> QED
      BY <2>2, <3>1, CallGoesOn
  <2>4. CASE sendFinalChunk(r)
    <3>1. \/ Respond(r, "error")
          \/ /\ phase[r] = "stream" /\ phase' = [phase EXCEPT ![r] = "wait"]
             /\ UNCHANGED <<answer, pend>>
      BY <2>4 DEF sendFinalChunk, SendToAgent
    <3>2. ASSUME phase[r] = "stream", phase' = [phase EXCEPT ![r] = "wait"],
                 UNCHANGED <<answer, pend>>
          PROVE  Goal
      BY <1>a, <3>2, CallGoesOn
    <3> QED
      BY <2>2, <3>1, <3>2
  <2>5. CASE readFails(r) \/ uploadTimeout(r) \/ askTimeout(r)
    BY <2>2, <2>5 DEF readFails, uploadTimeout, askTimeout
  <2>6. CASE uploadAcked(r)
    BY <2>2, <2>6 DEF uploadAcked
  <2>7. CASE askAnswered(r)
    BY <2>2, <2>7 DEF askAnswered, askStatus, listStatus, dropzoneStatus, readStatus, deleteStatus
  <2> HIDE DEF Goal
  <2> QED
    BY <1>3, <2>3, <2>4, <2>5, <2>6, <2>7 DEF HandlerStep, streamFileToAgent
<1>4. ASSUME NEW c \in Conns, HubRecv(c) PROVE Goal
  BY <1>4, CallReceives
<1>5. ASSUME UNCHANGED hub PROVE Goal
  BY <1>5, CallGoesOn DEF hub
<1>6. ASSUME NEW c \in Conns, startRecvLoop(c) \/ handleFileUploadRequest(c) \/ HubClose(c)
      PROVE  UNCHANGED hub
  BY <1>6 DEF startRecvLoop, handleFileUploadRequest, HubClose
<1>7. ASSUME NEW g \in gor, handleMessage(g) PROVE UNCHANGED hub
  BY <1>7 DEF handleMessage
<1>8. Connect \/ Disconnect \/ AgentCrash \/ UNCHANGED vars => UNCHANGED hub
  BY DEF Connect, Disconnect, AgentCrash, vars
<1> HIDE DEF Goal
<1>9. Goal
  BY <1>1, <1>2, <1>3, <1>4, <1>5, <1>6, <1>7, <1>8
     DEF Next, handleDeleteDropzoneFile, handleListDropzone, handleListFiles, handleReadFile
<1> QED
  BY <1>9 DEF Goal

\* Every request, upload or other, is answered to its client once, and an
\* answer of the agent that comes after the timer, the failed send or the
\* first answer changes nothing (pending.go Deliver, Remove).
THEOREM OneAnswer == Spec => [][AnsweredOnce]_vars
<1>1. Init => CallInv
  BY DEF Init, CallInv
<1>2. TypeOK /\ CallInv /\ [Next]_vars => CallInv'
  BY StepCall
<1>3. TypeOK /\ CallInv /\ [Next]_vars => [AnsweredOnce]_vars
  BY StepCall
<1>4. Spec => []CallInv
  BY <1>1, <1>2, UploadTypeCorrect, PTL DEF Spec
<1> QED
  BY <1>3, <1>4, UploadTypeCorrect, PTL DEF Spec
=============================================================================
