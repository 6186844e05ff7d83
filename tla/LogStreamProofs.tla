-------------------------- MODULE LogStreamProofs ---------------------------
(***************************************************************************)
(* What LogStream promises holds for any number of streams, users and      *)
(* connections, for any check of paths, for channels of any capacity and   *)
(* for a file of any size that is rotated and truncated any number of      *)
(* times.  The streams are finitely many, because they are counted.        *)
(***************************************************************************)
EXTENDS LogStream, FiniteSetTheorems, SequenceTheorems, TLAPS

(* A stream's handler has sent no start before it is in its loop. *)
Started(s) == phase[s] \in {"loop", "drain", "ending", "done"}

(* A start on its way, or handled, is of a stream that has sent one. *)
StartsAreSent ==
  /\ \A c \in Conns : \A i \in DOMAIN down[c] : Started(down[c][i].id)
  /\ \A g \in gor : Started(g[2].id)
  /\ \A s \in sessions : Started(s)

(* While the agent has no connection, the sessions it has are strays. *)
NoConnNoTail == aconn = NoConn => sessions \subseteq stray

(* A stream in being has its user, and a session at the hub. *)
HolderIsKnown == \A s \in Streams : Holds(s) => who[s] # None

(* Every loss is reported or counted, and what is counted is reported      *)
(* before the channel has been emptied.                                    *)
LossIsCounted ==
  \A s \in Streams :
    /\ lost[s] = told[s] + overflow[s]
    /\ overflow[s] > 0 /\ phase[s] # "drain" => chan[s] = ChanCap
    /\ phase[s] = "idle" => chan[s] = None

(* A tail has a file before it polls; what it has sent of a generation     *)
(* lies within that generation; and once it has sent some of its own, and  *)
(* no poll was torn, that lies before its offset and the offset within it. *)
Behind(t) ==
  /\ t.gen <= Len(size) /\ (t.stat # None => t.gen > 0)
  /\ t.sent.gen <= t.gen
  /\ t.sent.gen = 0 => t.sent.to = 0
  /\ t.sent.gen > 0 => t.sent.to <= size[t.sent.gen]
  /\ t.sent.gen = t.gen /\ ~t.torn =>
       t.sent.to <= t.off /\ (t.gen > 0 => t.off <= size[t.gen])
SentIsRead == \A s \in Streams : tails[s] # None => Behind(tails[s])

LogInv ==
  /\ TypeOK /\ StartsAreSent /\ NoConnNoTail /\ HolderIsKnown /\ LossIsCounted /\ SentIsRead
  /\ SlotsMatchStreams /\ TailIsWanted

-----------------------------------------------------------------------------
(* The constants. *)

LEMMA ConstantTypes ==
  /\ MaxViewerStreams \in Nat /\ MaxAdminStreams \in Nat /\ MaxAgentStreams \in Nat
  /\ MaxTailSessions \in Nat
  /\ ChanCap \in Nat \ {0} /\ SendCap \in Nat \ {0} /\ ReadCap \in Nat \ {0}
  /\ MaxConn \in Nat /\ MaxGen \in Nat /\ MaxSize \in Nat /\ MaxRows \in Nat
  /\ MaxViewerStreams <= MaxAgentStreams /\ MaxAdminStreams <= MaxAgentStreams
  /\ IsFiniteSet(Streams) /\ IsFiniteSet(Users) /\ LogPath \in Paths
  /\ None \notin Nat /\ None \notin Tails /\ None \notin Users \X Paths
  BY LogAssumption

(* A nonempty set of naturals below a bound has a greatest element.        *)
LEMMA MaxIsIn ==
  ASSUME NEW n \in Nat, NEW S \in SUBSET (0 .. n), S # {}
  PROVE  Max(S) \in S /\ \A k \in S : k <= Max(S)
<1> DEFINE R == OpToRel(<, Nat)
<1> DEFINE T == {n - k : k \in S}
<1>1. IsWellFoundedOn(R, Nat)
  BY NatLessThanWellFounded
<1>2. T \subseteq Nat /\ T # {}
  <2>1. \A k \in S : k \in 0 .. n
    OBVIOUS
  <2>2. \A k \in S : n - k \in Nat
    BY <2>1
  <2>3. QED
    BY <2>2
<1>3. PICK x \in T : \A y \in T : ~(<<y, x>> \in R)
  BY <1>1, <1>2, WFMin, Zenon
<1>4. PICK m \in S : x = n - m
  OBVIOUS
<1>5. \A k \in S : k <= m
  <2>1. TAKE k \in S
  <2>2. n - k \in T /\ n - k \in Nat
    OBVIOUS
  <2>3. ~(n - k < x)
    BY <2>2, <1>2, <1>3 DEF OpToRel
  <2>4. QED
    BY <2>3, <1>4
<1>6. \A i, j \in S : i <= j <=> j >= i
  OBVIOUS
<1>7. QED
  BY <1>4, <1>5, <1>6 DEF Max

LEMMA MinOfTwo ==
  ASSUME NEW i \in Nat, NEW j \in Nat
  PROVE  Min({i, j}) \in Nat /\ Min({i, j}) <= i /\ Min({i, j}) <= j
<1>1. \E x \in {i, j} : \A y \in {i, j} : x <= y
  OBVIOUS
<1>2. QED
  BY <1>1 DEF Min

-----------------------------------------------------------------------------
(* The counts of slots. *)

Held(u) == {s \in Streams : Holds(s) /\ who[s][1] = u}

LEMMA TakenIs ==
  \A u, i : <<u, i>> \in Taken <=> u \in Users /\ i \in 1 .. slots[u]
  BY DEF Taken

LEMMA TakenIsPairs == \A x \in Taken : x = <<x[1], x[2]>>
  BY DEF Taken

LEMMA TakenFinite ==
  ASSUME slots \in [Users -> 0 .. MaxAgentStreams]
  PROVE  IsFiniteSet(Taken) /\ Cardinality(Taken) \in Nat
<1>1. IsFiniteSet(Users) /\ MaxAgentStreams \in Nat
  BY ConstantTypes
<1>2. IsFiniteSet(1 .. MaxAgentStreams)
  BY <1>1, FS_Interval
<1>3. IsFiniteSet(Users \X (1 .. MaxAgentStreams))
  BY <1>1, <1>2, FS_Product
<1>4. Taken \subseteq Users \X (1 .. MaxAgentStreams)
  BY <1>1 DEF Taken
<1>5. QED
  BY <1>3, <1>4, FS_Subset, FS_CardinalityType

LEMMA TakenFinitePrime ==
  ASSUME slots' \in [Users -> 0 .. MaxAgentStreams]
  PROVE  Cardinality(Taken') \in Nat
<1>1. IsFiniteSet(Users) /\ MaxAgentStreams \in Nat
  BY ConstantTypes
<1>2. IsFiniteSet(Users \X (1 .. MaxAgentStreams))
  <2>1. IsFiniteSet(1 .. MaxAgentStreams)
    BY <1>1, FS_Interval
  <2>2. QED
    BY <1>1, <2>1, FS_Product
<1>3. Taken' \subseteq Users \X (1 .. MaxAgentStreams)
  BY <1>1 DEF Taken
<1>4. QED
  BY <1>2, <1>3, FS_Subset, FS_CardinalityType

(* One more slot is one more in the total. *)
LEMMA TakenGrows ==
  ASSUME slots \in [Users -> 0 .. MaxAgentStreams], NEW u \in Users,
         slots' = [slots EXCEPT ![u] = @ + 1]
  PROVE  Cardinality(Taken') = Cardinality(Taken) + 1
<1> DEFINE x == <<u, slots[u] + 1>>
<1>1. slots[u] \in Nat /\ MaxAgentStreams \in Nat
  BY ConstantTypes
<1>2. x \notin Taken
  BY <1>1, TakenIs
<1>3. \A w, i : <<w, i>> \in Taken' <=> w \in Users /\ i \in 1 .. slots'[w]
  BY DEF Taken
<1>4. \A y \in Taken' : y = <<y[1], y[2]>>
  BY DEF Taken
<1>5. \A w \in Users : \A i : i \in 1 .. slots'[w] <=> i \in 1 .. slots[w] \/ (w = u /\ i = slots[u] + 1)
  BY <1>1
<1>6. \A w, i : <<w, i>> \in Taken' <=> <<w, i>> \in Taken \/ <<w, i>> = x
  BY <1>3, <1>5, TakenIs
<1>7. \A y : y \in Taken' <=> y \in Taken \/ y = x
  <2> HIDE DEF x
  <2>1. \A y : y \in Taken' => y \in Taken \/ y = x
    BY <1>4, <1>6
  <2>2. \A y : y \in Taken => y \in Taken'
    BY <1>6, TakenIsPairs
  <2>3. x \in Taken'
    BY <1>6 DEF x
  <2>4. QED
    BY <2>1, <2>2, <2>3
<1>8. Taken' = Taken \cup {x}
  BY <1>7
<1>9. QED
  BY <1>8, <1>2, TakenFinite, FS_AddElement

(* A slot given back is taken out of the total. *)
LEMMA TakenShrinks ==
  ASSUME slots \in [Users -> 0 .. MaxAgentStreams], NEW u \in Users, releaseLogTailSlot(u)
  PROVE  slots' \in [Users -> 0 .. MaxAgentStreams] /\ Cardinality(Taken') <= Cardinality(Taken)
<1>1. slots[u] \in Nat /\ MaxAgentStreams \in Nat
  BY ConstantTypes
<1>2. slots' \in [Users -> 0 .. MaxAgentStreams]
  BY <1>1 DEF releaseLogTailSlot
<1>3. \A w, i : <<w, i>> \in Taken' <=> w \in Users /\ i \in 1 .. slots'[w]
  BY DEF Taken
<1>4. \A y \in Taken' : y = <<y[1], y[2]>>
  BY DEF Taken
<1>5. \A w \in Users : slots'[w] <= slots[w] /\ slots'[w] \in Nat /\ slots[w] \in Nat
  BY <1>1 DEF releaseLogTailSlot
<1>6. \A w, i : <<w, i>> \in Taken' => <<w, i>> \in Taken
  <2> TAKE w, i
  <2> HAVE <<w, i>> \in Taken'
  <2>1. w \in Users /\ i \in 1 .. slots'[w]
    BY <1>3
  <2>2. i \in 1 .. slots[w]
    BY <2>1, <1>5
  <2>3. QED
    BY <2>1, <2>2, TakenIs
<1>7. Taken' \subseteq Taken
  BY <1>4, <1>6
<1>8. QED
  BY <1>2, <1>7, TakenFinite, FS_Subset

-----------------------------------------------------------------------------
(* Types. *)

LEMMA InitTypes == Init => TypeOK
<1> SUFFICES ASSUME Init PROVE TypeOK
  OBVIOUS
<1>1. slots \in [Users -> 0 .. MaxAgentStreams] /\ Cardinality(Taken) <= MaxAgentStreams
  <2>1. slots \in [Users -> 0 .. MaxAgentStreams]
    BY ConstantTypes DEF Init
  <2>2. Taken = {}
    BY DEF Taken, Init
  <2>3. QED
    BY <2>1, <2>2, FS_EmptySet, ConstantTypes
<1>2. sessions \subseteq Streams /\ Cardinality(sessions) <= MaxTailSessions
  BY FS_EmptySet, ConstantTypes DEF Init
<1>3. size \in Seq(0 .. MaxSize) /\ Len(size) > 0
  BY ConstantTypes DEF Init
<1>4. chan \in [Streams -> {None} \cup 0 .. ChanCap] /\ phase \in [Streams -> Phases]
      /\ who \in [Streams -> {None} \cup (Users \X Paths)]
  BY DEF Init, Phases
<1>5. tails \in [Streams -> {None} \cup Tails] /\ \A s \in Streams : tails[s] = None
  BY DEF Init
<1>6. down \in [Conns -> Seq(Messages)] /\ up \in [Conns -> Seq(Streams)]
  BY DEF Init
<1>7. cur \in 0 .. MaxConn /\ aconn \in 0 .. MaxConn /\ nconn \in 0 .. MaxConn
  BY ConstantTypes DEF Init, NoConn
<1>8. overflow \in [Streams -> Nat] /\ lost \in [Streams -> Nat] /\ told \in [Streams -> Nat]
  BY DEF Init
<1>9. perms = {} /\ gor = {} /\ stray = {}
  BY DEF Init
<1>10. QED
  BY <1>1, <1>2, <1>3, <1>4, <1>5, <1>6, <1>7, <1>8, <1>9 DEF TypeOK

(* The type invariant in the parts that change together. *)
StreamTypes == phase \in [Streams -> Phases] /\ who \in [Streams -> {None} \cup (Users \X Paths)]
SlotTypes == slots \in [Users -> 0 .. MaxAgentStreams] /\ Cardinality(Taken) <= MaxAgentStreams
ChanTypes ==
  /\ chan \in [Streams -> {None} \cup 0 .. ChanCap]
  /\ overflow \in [Streams -> Nat] /\ lost \in [Streams -> Nat] /\ told \in [Streams -> Nat]
NetTypes == cur \in 0 .. MaxConn /\ aconn \in 0 .. MaxConn /\ nconn \in 0 .. MaxConn
DownTypes == down \in [Conns -> Seq(Messages)]
UpTypes == up \in [Conns -> Seq(Streams)]
GorTypes == gor \subseteq Conns \X Messages
SessionTypes == sessions \subseteq Streams /\ Cardinality(sessions) <= MaxTailSessions
TailTypes ==
  /\ tails \in [Streams -> {None} \cup Tails]
  /\ size \in Seq(0 .. MaxSize) /\ Len(size) > 0
  /\ \A s \in Streams : tails[s] # None => tails[s].gen <= Len(size)

LEMMA TypeParts ==
  TypeOK <=> /\ perms \subseteq Viewers \X Roots
             /\ StreamTypes /\ SlotTypes /\ ChanTypes /\ NetTypes /\ DownTypes /\ UpTypes
             /\ GorTypes /\ SessionTypes /\ stray \subseteq Streams /\ TailTypes
  BY Zenon DEF TypeOK, StreamTypes, SlotTypes, ChanTypes, NetTypes, DownTypes, UpTypes, GorTypes,
         SessionTypes, TailTypes

LEMMA TypePartsNext ==
  TypeOK' <=> /\ perms' \subseteq Viewers \X Roots
              /\ StreamTypes' /\ SlotTypes' /\ ChanTypes' /\ NetTypes' /\ DownTypes' /\ UpTypes'
              /\ GorTypes' /\ SessionTypes' /\ stray' \subseteq Streams /\ TailTypes'
  BY Zenon DEF TypeOK, StreamTypes, SlotTypes, ChanTypes, NetTypes, DownTypes, UpTypes, GorTypes,
         SessionTypes, TailTypes

LEMMA TypeFrames ==
  ASSUME TypeOK
  PROVE  /\ UNCHANGED perms => perms' \subseteq Viewers \X Roots
         /\ UNCHANGED <<phase, who>> => StreamTypes'
         /\ UNCHANGED slots => SlotTypes'
         /\ UNCHANGED <<chan, overflow, lost, told>> => ChanTypes'
         /\ UNCHANGED <<cur, aconn, nconn>> => NetTypes'
         /\ UNCHANGED down => DownTypes'
         /\ UNCHANGED up => UpTypes'
         /\ UNCHANGED gor => GorTypes'
         /\ UNCHANGED sessions => SessionTypes'
         /\ UNCHANGED stray => stray' \subseteq Streams
         /\ UNCHANGED <<tails, size>> => TailTypes'
<1>1. UNCHANGED <<tails, size>> => TailTypes'
  BY DEF TypeOK, TailTypes
<1>2. UNCHANGED slots => SlotTypes'
  BY DEF TypeOK, SlotTypes, Taken
<1>3. UNCHANGED <<phase, who>> => StreamTypes'
  BY DEF TypeOK, StreamTypes
<1>4. UNCHANGED <<chan, overflow, lost, told>> => ChanTypes'
  BY DEF TypeOK, ChanTypes
<1>5. UNCHANGED <<cur, aconn, nconn>> => NetTypes'
  BY DEF TypeOK, NetTypes
<1>6. (UNCHANGED down => DownTypes') /\ (UNCHANGED up => UpTypes')
  BY DEF TypeOK, DownTypes, UpTypes
<1>7. (UNCHANGED gor => GorTypes') /\ (UNCHANGED sessions => SessionTypes')
  BY DEF TypeOK, GorTypes, SessionTypes
<1>8. QED
  BY <1>1, <1>2, <1>3, <1>4, <1>5, <1>6, <1>7 DEF TypeOK

(* Conns are what cur and aconn are when there is a connection. *)
LEMMA ConnIsConn == TypeOK => (cur # NoConn => cur \in Conns) /\ (aconn # NoConn => aconn \in Conns)
  BY ConstantTypes DEF TypeOK, NoConn, Conns

LEMMA SendTypes ==
  ASSUME TypeOK, NEW c \in Conns, NEW s \in Streams, Send(c, s)
  PROVE  UpTypes'
<1>1. Append(up[c], s) \in Seq(Streams)
  BY DEF TypeOK
<1>2. QED
  BY <1>1 DEF TypeOK, Send, UpTypes

LEMMA SendToAgentTypes ==
  ASSUME TypeOK, NEW m \in Messages,
         \/ UNCHANGED down
         \/ cur # NoConn /\ down' = IF cur = aconn THEN [down EXCEPT ![cur] = Append(@, m)] ELSE down
  PROVE  DownTypes'
<1>1. CASE UNCHANGED down
  BY <1>1 DEF TypeOK, DownTypes
<1>2. CASE cur # NoConn /\ down' = IF cur = aconn THEN [down EXCEPT ![cur] = Append(@, m)] ELSE down
  <2>1. cur \in Conns
    BY <1>2, ConnIsConn
  <2>2. Append(down[cur], m) \in Seq(Messages)
    BY <2>1 DEF TypeOK
  <2>3. QED
    BY <2>1, <2>2, <1>2 DEF TypeOK, DownTypes
<1>3. QED
  BY <1>1, <1>2

LEMMA ReleaseTypes ==
  ASSUME TypeOK, NEW u \in Users, releaseLogTailSlot(u)
  PROVE  SlotTypes'
<1>1. slots \in [Users -> 0 .. MaxAgentStreams] /\ Cardinality(Taken) <= MaxAgentStreams
  BY DEF TypeOK
<1>2. slots' \in [Users -> 0 .. MaxAgentStreams] /\ Cardinality(Taken') <= Cardinality(Taken)
  BY <1>1, TakenShrinks
<1>3. Cardinality(Taken) \in Nat
  BY <1>1, TakenFinite
<1>4. Cardinality(Taken') \in Nat
  BY <1>2, TakenFinitePrime
<1>5. QED
  BY <1>1, <1>2, <1>3, <1>4, ConstantTypes DEF SlotTypes

LEMMA SessionAdded ==
  ASSUME TypeOK, NEW s \in Streams, Cardinality(sessions) < MaxTailSessions
  PROVE  Cardinality(sessions \cup {s}) <= MaxTailSessions
<1>1. IsFiniteSet(sessions) /\ Cardinality(sessions) \in Nat
  BY ConstantTypes, FS_Subset, FS_CardinalityType DEF TypeOK
<1>2. CASE s \in sessions
  BY <1>2, <1>1, ConstantTypes, sessions \cup {s} = sessions
<1>3. CASE s \notin sessions
  <2>1. Cardinality(sessions \cup {s}) = Cardinality(sessions) + 1
    BY <1>3, <1>1, FS_AddElement
  <2>2. QED
    BY <2>1, <1>1, ConstantTypes
<1>4. QED
  BY <1>2, <1>3

LEMMA SessionsRemoved ==
  ASSUME TypeOK, NEW T, T \subseteq sessions
  PROVE  Cardinality(T) <= MaxTailSessions
<1>1. IsFiniteSet(sessions) /\ Cardinality(sessions) \in Nat
  BY ConstantTypes, FS_Subset, FS_CardinalityType DEF TypeOK
<1>2. Cardinality(T) <= Cardinality(sessions) /\ Cardinality(T) \in Nat
  BY <1>1, FS_Subset, FS_CardinalityType
<1>3. QED
  BY <1>1, <1>2, ConstantTypes DEF TypeOK

-----------------------------------------------------------------------------
(* A poll of the file. *)

LEMMA SendFiltered ==
  ASSUME TypeOK, NEW s \in Streams, NEW t \in Tails, NEW from \in Nat, NEW to \in Nat,
         Behind(t), t.gen > 0, to <= size[t.gen],
         ~t.torn => to <= t.off /\ t.off <= size[t.gen],
         sendFiltered(s, t, from, to)
  PROVE  /\ \E x \in Tails : Behind(x) /\ tails' = [tails EXCEPT ![s] = x]
         /\ UNCHANGED up \/ \E c \in Conns : Send(c, s)
<1> DEFINE x == [t EXCEPT !.stat = None, !.sent = [gen |-> t.gen, to |-> to]]
           y == [t EXCEPT !.stat = None]
<1>1. t.gen \in Nat /\ t.off \in Nat /\ t.c \in Conns
  BY ConstantTypes DEF Tails
<1>2. x \in Tails /\ x.gen = t.gen /\ x.off = t.off /\ x.torn = t.torn /\ x.stat = None
      /\ x.sent.gen = t.gen /\ x.sent.to = to
  BY <1>1 DEF Tails
<1>3. y \in Tails /\ y.gen = t.gen /\ y.off = t.off /\ y.torn = t.torn /\ y.stat = None
      /\ y.sent = t.sent
  BY <1>1 DEF Tails
<1>4. tails' = [tails EXCEPT ![s] = x] \/ tails' = [tails EXCEPT ![s] = y]
  BY DEF sendFiltered
<1>5. UNCHANGED up \/ Send(t.c, s)
  BY DEF sendFiltered
<1> HIDE DEF x, y
<1>6. Behind(x) /\ Behind(y)
  BY <1>1, <1>2, <1>3 DEF Behind
<1>7. QED
  BY <1>1, <1>2, <1>3, <1>4, <1>5, <1>6

LEMMA ReadNewData ==
  ASSUME TypeOK, SentIsRead, NEW s \in Streams, readNewData(s)
  PROVE  /\ \E x \in Tails : Behind(x) /\ tails' = [tails EXCEPT ![s] = x]
         /\ UNCHANGED up \/ \E c \in Conns : Send(c, s)
<1> DEFINE t == tails[s]
<1>1. t \in Tails /\ t.stat # None /\ t.gen > 0 /\ Behind(t)
  BY DEF readNewData, TypeOK, SentIsRead, Behind
<1>2. /\ t.gen \in Nat /\ t.off \in 0 .. MaxSize /\ t.sent.gen \in Nat /\ t.sent.to \in Nat
      /\ t.path \in Paths /\ t.c \in Conns /\ t.stat \in Stats /\ t.torn \in BOOLEAN
      /\ t.stat.size \in 0 .. MaxSize
  BY <1>1 DEF Tails, Stats
<1>3. /\ Len(size) \in Nat \ {0} /\ size[Len(size)] \in 0 .. MaxSize /\ size[t.gen] \in 0 .. MaxSize
      /\ ReadCap \in Nat /\ MaxSize \in Nat
  <2>1. size \in Seq(0 .. MaxSize) /\ Len(size) > 0
    BY DEF TypeOK
  <2>2. Len(size) \in 1 .. Len(size) /\ t.gen \in 1 .. Len(size)
    BY <2>1, <1>1, <1>2 DEF Behind
  <2>3. QED
    BY <2>1, <2>2, ElementOfSeq, ConstantTypes
<1>4. CASE Rotated(t) /\ sendFiltered(s, afterRotation(t), 0, Min({ReadCap, size[Len(size)]}))
  <2> DEFINE x == afterRotation(t)
             to == Min({ReadCap, size[Len(size)]})
  <2>1. to \in Nat /\ to <= size[Len(size)]
    BY <1>3, MinOfTwo
  <2>2. x \in Tails /\ x.gen = Len(size) /\ x.off = t.stat.size /\ x.stat = t.stat /\ x.sent = t.sent
    BY <1>1, <1>2, <1>3 DEF afterRotation, Tails
  <2>3. ~x.torn => ~t.torn /\ t.stat.size = size[Len(size)]
    <3>1. x.torn = (t.torn \/ t.stat # LogNow)
      BY <1>1 DEF afterRotation, Tails
    <3>2. LogNow.size = size[Len(size)]
      BY DEF LogNow
    <3>3. QED
      BY <3>1, <3>2, <1>2, Zenon
  <2>4. sendFiltered(s, x, 0, to)
    BY <1>4
  <2>5. t.stat.size < t.off
    BY <1>4 DEF Rotated
  <2> HIDE DEF x, to, t
  <2>6. Behind(x)
    BY <2>2, <2>3, <2>5, <1>1, <1>2, <1>3 DEF Behind
  <2>7. ~x.torn => to <= x.off /\ x.off <= size[x.gen]
    BY <2>1, <2>2, <2>3, <1>3
  <2>8. QED
    BY <2>1, <2>2, <2>4, <2>6, <2>7, <1>3, SendFiltered
<1>5. CASE /\ ~Rotated(t) /\ Available(t) # {}
           /\ sendFiltered(s, [t EXCEPT !.off = @ + Max(Available(t))], t.off, t.off + Max(Available(t)))
  <2> DEFINE n == Max(Available(t))
             x == [t EXCEPT !.off = @ + n]
  <2>1. n \in Available(t)
    <3>1. Available(t) \in SUBSET (0 .. ReadCap)
      BY <1>3 DEF Available
    <3>2. QED
      BY <3>1, <1>5, <1>3, MaxIsIn
  <2> HIDE DEF n, t
  <2>2. n \in Nat /\ t.off + n <= size[t.gen]
    BY <2>1, <1>2, <1>3 DEF Available
  <2>3. /\ x \in Tails /\ x.gen = t.gen /\ x.off = t.off + n /\ x.sent = t.sent
        /\ x.stat = t.stat /\ x.torn = t.torn
    <3>1. t.off + n \in 0 .. MaxSize
      BY <1>2, <1>3, <2>2
    <3>2. QED
      BY <1>1, <3>1 DEF Tails
  <2>4. sendFiltered(s, x, t.off, t.off + n)
    BY <1>5 DEF n, t
  <2> HIDE DEF x
  <2>5. Behind(x)
    BY <2>2, <2>3, <1>1, <1>2, <1>3 DEF Behind
  <2>6. t.off \in Nat /\ t.off + n \in Nat
    BY <1>2, <1>3, <2>2
  <2>7. QED
    BY <2>2, <2>3, <2>4, <2>5, <2>6, <1>1, SendFiltered
<1>6. CASE UNCHANGED up /\ tails' = [tails EXCEPT ![s].stat = None]
  <2> DEFINE x == [t EXCEPT !.stat = None]
  <2>1. x \in Tails /\ x.gen = t.gen /\ x.off = t.off /\ x.sent = t.sent /\ x.stat = None
        /\ x.torn = t.torn
    BY <1>1, <1>2 DEF Tails
  <2>2. tails' = [tails EXCEPT ![s] = x]
    BY <1>6
  <2> HIDE DEF x, t
  <2>3. Behind(x)
    BY <2>1, <1>1, <1>2 DEF Behind
  <2>4. QED
    BY <1>6, <2>1, <2>2, <2>3
<1>7. QED
  BY <1>4, <1>5, <1>6 DEF readNewData

(* Taking the size leaves the tail where it is. *)
LEMMA StatLog ==
  ASSUME TypeOK, SentIsRead, NEW s \in Streams, statLog(s)
  PROVE  \E x \in Tails : Behind(x) /\ tails' = [tails EXCEPT ![s] = x]
<1> DEFINE t == tails[s]
           x == [t EXCEPT !.stat = LogNow]
<1>1. t \in Tails /\ t.gen > 0 /\ Behind(t)
  BY DEF statLog, TypeOK, SentIsRead
<1>2. LogNow \in Stats
  <2>1. size \in Seq(0 .. MaxSize) /\ Len(size) \in 1 .. Len(size) /\ Len(size) \in Nat
    BY DEF TypeOK
  <2>2. QED
    BY <2>1, ElementOfSeq DEF LogNow, Stats
<1>3. x \in Tails /\ x.gen = t.gen /\ x.off = t.off /\ x.sent = t.sent /\ x.torn = t.torn
  BY <1>1, <1>2 DEF Tails
<1>4. tails' = [tails EXCEPT ![s] = x]
  BY DEF statLog
<1> HIDE DEF x, t
<1>5. Behind(x)
  BY <1>1, <1>3 DEF Behind
<1>6. QED
  BY <1>3, <1>4, <1>5

LEMMA TypeNext == LogInv /\ [Next]_vars => TypeOK'
<1> SUFFICES ASSUME LogInv, [Next]_vars PROVE TypeOK'
  OBVIOUS
<1> USE DEF hub, net, agent
<1> TypeOK
  BY DEF LogInv
<1>1. ASSUME NEW u \in Viewers, NEW p \in Roots, handleCreatePath(u, p) \/ handleDeletePath(u, p)
      PROVE  TypeOK'
  <2>1. perms' \subseteq Viewers \X Roots
    BY <1>1 DEF TypeOK, handleCreatePath, handleDeletePath
  <2>2. QED
    BY <2>1, <1>1, TypeFrames, TypePartsNext DEF handleCreatePath, handleDeletePath
<1>2. ASSUME NEW s \in Streams, NEW u \in Users, NEW p \in Paths, handleTailLog(s, u, p)
      PROVE  TypeOK'
  <2>1. CASE checkFileAccess(u, p) /\ cur # NoConn /\ tryAcquireLogTailSlot(u)
    <3>1. StreamTypes'
      <4>1. phase' = [phase EXCEPT ![s] = "acquired"] /\ who' = [who EXCEPT ![s] = <<u, p>>]
        BY <2>1, <1>2 DEF handleTailLog
      <4>2. <<u, p>> \in Users \X Paths
        OBVIOUS
      <4>3. QED
        BY <4>1, <4>2, TypeParts DEF StreamTypes, Phases
    <3>2. slots' = [slots EXCEPT ![u] = @ + 1] /\ Register(s) /\ UNCHANGED <<lost, told>>
      BY <2>1, <1>2 DEF handleTailLog
    <3>3. ChanTypes'
      BY <3>2, ConstantTypes, TypeParts DEF ChanTypes, Register
    <3>4. SlotTypes'
      <4>1. slots[u] < MaxAgentStreams /\ Cardinality(Taken) < MaxAgentStreams
        BY <2>1, ConstantTypes, TakenFinite DEF tryAcquireLogTailSlot, TypeOK
      <4>2. slots' \in [Users -> 0 .. MaxAgentStreams]
        BY <4>1, <3>2, ConstantTypes DEF TypeOK
      <4>3. Cardinality(Taken') <= MaxAgentStreams
        <5>1. slots \in [Users -> 0 .. MaxAgentStreams]
          BY DEF TypeOK
        <5>2. Cardinality(Taken') = Cardinality(Taken) + 1 /\ Cardinality(Taken) \in Nat
          BY <5>1, <3>2, TakenGrows, TakenFinite
        <5>3. QED
          BY <5>2, <4>1, ConstantTypes
      <4>4. QED
        BY <4>2, <4>3 DEF SlotTypes
    <3>5. QED
      BY <3>1, <3>3, <3>4, <1>2, TypeFrames, TypePartsNext DEF handleTailLog
  <2>2. CASE ~(checkFileAccess(u, p) /\ cur # NoConn /\ tryAcquireLogTailSlot(u))
    <3>1. StreamTypes'
      BY <2>2, <1>2 DEF TypeOK, handleTailLog, StreamTypes, Phases
    <3>2. QED
      BY <3>1, <2>2, <1>2, TypeFrames, TypePartsNext DEF handleTailLog
  <2>3. QED
    BY <2>1, <2>2
<1>3. ASSUME NEW s \in Streams, sendLogStreamRequest(s) PROVE TypeOK'
  <2>1. who[s] \in Users \X Paths /\ who[s][1] \in Users /\ who[s][2] \in Paths
    BY <1>3 DEF LogInv, HolderIsKnown, Holds, TypeOK, sendLogStreamRequest
  <2> DEFINE m == [op |-> "start", id |-> s, path |-> who[s][2]]
  <2>2. m \in Messages
    BY <2>1 DEF Messages, Starts
  <2>3. DownTypes'
    <3> HIDE DEF m
    <3>1. \/ UNCHANGED down
          \/ cur # NoConn /\ down' = IF cur = aconn THEN [down EXCEPT ![cur] = Append(@, m)] ELSE down
      BY <1>3 DEF sendLogStreamRequest, SendToAgent, m
    <3>2. QED
      BY <3>1, <2>2, SendToAgentTypes
  <2>4. StreamTypes'
    BY <1>3 DEF sendLogStreamRequest, SendToAgent, TypeOK, StreamTypes, Phases
  <2>5. UNCHANGED slots \/ releaseLogTailSlot(who[s][1])
    BY <1>3 DEF sendLogStreamRequest, SendToAgent
  <2>6. SlotTypes'
    <3>1. CASE releaseLogTailSlot(who[s][1])
      BY <3>1, <2>1, ReleaseTypes
    <3>2. QED
      BY <3>1, <2>5, TypeFrames
  <2>7. UNCHANGED <<chan, overflow, lost, told>> \/ RemoveSession(s)
    BY <1>3 DEF sendLogStreamRequest, SendToAgent
  <2>8. ChanTypes'
    BY <2>7, TypeParts, TypeFrames DEF RemoveSession, ChanTypes
  <2>9. UNCHANGED <<perms, net, up, agent, size>>
    BY <1>3 DEF sendLogStreamRequest
  <2>10. QED
    BY <2>3, <2>4, <2>6, <2>8, <2>9, TypeFrames, TypePartsNext
<1>4. ASSUME NEW s \in Streams, streamChunk(s) PROVE TypeOK'
  <2>1. StreamTypes'
    BY <1>4 DEF TypeOK, streamChunk, StreamTypes, Phases
  <2>2. chan[s] \in 1 .. ChanCap
    BY <1>4, ConstantTypes DEF TypeOK, streamChunk
  <2>3. ChanTypes'
    BY <1>4, <2>2, ConstantTypes DEF TypeOK, streamChunk, ChanTypes
  <2>4. QED
    BY <2>1, <2>3, <1>4, TypeFrames, TypePartsNext DEF streamChunk
<1>5. ASSUME NEW s \in Streams, reportOverflow(s) PROVE TypeOK'
  <2>1. StreamTypes'
    BY <1>5 DEF TypeOK, reportOverflow, StreamTypes, Phases
  <2>2. ChanTypes'
    BY <1>5 DEF TypeOK, reportOverflow, DrainOverflow, ChanTypes
  <2>3. QED
    BY <2>1, <2>2, <1>5, TypeFrames, TypePartsNext DEF reportOverflow
<1>6. ASSUME NEW s \in Streams, endStream(s) PROVE TypeOK'
  <2>1. who[s][1] \in Users
    BY <1>6 DEF LogInv, HolderIsKnown, Holds, TypeOK, endStream
  <2>2. StreamTypes'
    BY <1>6 DEF TypeOK, endStream, StreamTypes, Phases
  <2>3. ChanTypes'
    BY <1>6 DEF TypeOK, endStream, RemoveSession, ChanTypes
  <2>4. SlotTypes'
    BY <1>6, <2>1, ReleaseTypes DEF endStream
  <2>5. QED
    BY <2>2, <2>3, <2>4, <1>6, TypeFrames, TypePartsNext DEF endStream
<1>7. ASSUME NEW s \in Streams, sendLogStreamStop(s) PROVE TypeOK'
  <2> DEFINE m == [op |-> "stop", id |-> s]
  <2>1. m \in Messages
    BY DEF Messages, Stops
  <2>2. DownTypes'
    <3> HIDE DEF m
    <3>1. \/ UNCHANGED down
          \/ cur # NoConn /\ down' = IF cur = aconn THEN [down EXCEPT ![cur] = Append(@, m)] ELSE down
      BY <1>7 DEF sendLogStreamStop, SendToAgent, m
    <3>2. QED
      BY <3>1, <2>1, SendToAgentTypes
  <2>3. StreamTypes'
    BY <1>7 DEF TypeOK, sendLogStreamStop, StreamTypes, Phases
  <2>4. QED
    BY <2>2, <2>3, <1>7, TypeFrames, TypePartsNext DEF sendLogStreamStop
<1>8. ASSUME NEW s \in Streams, StartTail(s) PROVE TypeOK'
  <2>1. tails[s] \in Tails /\ tails[s].c \in Conns
    BY <1>8 DEF StartTail, TypeOK, Tails
  <2>2. UpTypes'
    BY <1>8, <2>1, SendTypes, TypeFrames DEF StartTail
  <2>3. size[Len(size)] \in 0 .. MaxSize /\ Len(size) \in Nat
    <3>1. size \in Seq(0 .. MaxSize) /\ Len(size) > 0
      BY DEF TypeOK
    <3>2. Len(size) \in Nat /\ Len(size) \in 1 .. Len(size)
      BY <3>1
    <3>3. QED
      BY <3>1, <3>2, ElementOfSeq
  <2>4. \/ tails' = [tails EXCEPT ![s] = [tails[s] EXCEPT !.gen = Len(size), !.off = size[Len(size)]]]
        \/ tails' = [tails EXCEPT ![s] = None]
    BY <1>8 DEF StartTail, TypeOK
  <2>5. [tails[s] EXCEPT !.gen = Len(size), !.off = size[Len(size)]] \in Tails
        /\ [tails[s] EXCEPT !.gen = Len(size), !.off = size[Len(size)]].gen = Len(size)
    BY <2>1, <2>3 DEF Tails
  <2>6. TailTypes'
    <3> DEFINE x == [tails[s] EXCEPT !.gen = Len(size), !.off = size[Len(size)]]
    <3>1. x \in Tails /\ x.gen <= Len(size) /\ (tails' = [tails EXCEPT ![s] = x] \/ tails' = [tails EXCEPT ![s] = None])
      BY <2>4, <2>5, <2>3
    <3>2. UNCHANGED size /\ TailTypes
      BY <1>8, TypeParts DEF StartTail
    <3> HIDE DEF x
    <3>3. QED
      BY <3>1, <3>2 DEF TailTypes
  <2>7. QED
    BY <2>2, <2>6, <1>8, TypeFrames, TypePartsNext DEF StartTail
<1>9. ASSUME NEW s \in Streams, readNewData(s) PROVE TypeOK'
  <2>1. PICK t \in Tails :
          /\ t.gen <= Len(size)
          /\ tails' = [tails EXCEPT ![s] = t]
    BY <1>9, ReadNewData DEF LogInv, Behind
  <2>2. UpTypes'
    <3>1. \/ UNCHANGED up
          \/ \E c \in Conns : Send(c, s)
      BY <1>9, ReadNewData DEF LogInv
    <3>2. QED
      BY <3>1, SendTypes, TypeFrames
  <2>3. TailTypes'
    BY <2>1, <1>9 DEF readNewData, TypeOK, TailTypes
  <2>4. QED
    BY <2>2, <2>3, <1>9, TypeFrames, TypePartsNext DEF readNewData
<1>21. ASSUME NEW s \in Streams, statLog(s) PROVE TypeOK'
  <2>1. PICK t \in Tails : t.gen <= Len(size) /\ tails' = [tails EXCEPT ![s] = t]
    BY <1>21, StatLog DEF LogInv, Behind
  <2>2. TailTypes'
    BY <2>1, <1>21 DEF statLog, TypeOK, TailTypes
  <2>3. QED
    BY <2>2, <1>21, TypeFrames, TypePartsNext DEF statLog
<1>10. ASSUME NEW c \in Conns, startRecvLoop(c) PROVE TypeOK'
  <2>1. Head(down[c]) \in Messages /\ Tail(down[c]) \in Seq(Messages)
    BY <1>10 DEF TypeOK, startRecvLoop
  <2>2. GorTypes' /\ DownTypes'
    BY <2>1, <1>10 DEF TypeOK, startRecvLoop, GorTypes, DownTypes
  <2>3. QED
    BY <2>2, <1>10, TypeFrames, TypePartsNext DEF startRecvLoop
<1>11. ASSUME NEW c \in Conns, deliverLogChunk(c) PROVE TypeOK'
  <2>1. Head(up[c]) \in Streams /\ Tail(up[c]) \in Seq(Streams)
    BY <1>11 DEF TypeOK, deliverLogChunk
  <2>2. UpTypes'
    BY <2>1, <1>11 DEF TypeOK, deliverLogChunk, UpTypes
  <2>3. ASSUME NEW s \in Streams, Deliver(s), UNCHANGED told PROVE ChanTypes'
    <3>1. ChanTypes /\ ChanCap \in Nat
      BY TypeParts, ConstantTypes
    <3>2. chan[s] # None => chan[s] \in 0 .. ChanCap
      BY <3>1 DEF ChanTypes
    <3>3. chan' \in [Streams -> {None} \cup 0 .. ChanCap]
      BY <2>3, <3>1, <3>2 DEF Deliver, ChanTypes
    <3>4. QED
      BY <2>3, <3>1, <3>3 DEF Deliver, ChanTypes
  <2>4. QED
    BY <2>1, <2>2, <2>3, <1>11, TypeFrames, TypePartsNext DEF deliverLogChunk
<1>12. ASSUME NEW g \in gor, handleLogStreamRequest(g) PROVE TypeOK'
  <2>1. g[1] \in Conns /\ g[2] \in Starts /\ g[2].id \in Streams /\ g[2].path \in Paths
    BY <1>12 DEF handleLogStreamRequest, TypeOK, Messages, Starts, Stops
  <2>2. UpTypes'
    BY <1>12, <2>1, SendTypes, TypeFrames DEF handleLogStreamRequest
  <2>3. SessionTypes'
    <3>1. \/ UNCHANGED sessions
          \/ sessions' = sessions \cup {g[2].id} /\ Cardinality(sessions) < MaxTailSessions
      BY <1>12 DEF handleLogStreamRequest
    <3>2. QED
      BY <3>1, <2>1, SessionAdded, TypeFrames DEF TypeOK, SessionTypes
  <2> DEFINE new == [path |-> g[2].path, gen |-> 0, off |-> 0, c |-> g[1], stat |-> None,
                     torn |-> FALSE, sent |-> [gen |-> 0, to |-> 0]]
  <2>4. new \in Tails /\ new.gen = 0
    BY <2>1, ConstantTypes DEF Tails
  <2>5. TailTypes'
    <3>1. (UNCHANGED tails \/ tails' = [tails EXCEPT ![g[2].id] = new]) /\ UNCHANGED size
      BY <1>12 DEF handleLogStreamRequest
    <3> HIDE DEF new
    <3>2. QED
      <4>1. TailTypes
        BY TypeParts
      <4>2. tails' \in [Streams -> {None} \cup Tails]
        BY <4>1, <3>1, <2>1, <2>4 DEF TailTypes
      <4>3. QED
        BY <4>1, <4>2, <3>1, <2>1, <2>4 DEF TailTypes
  <2>6. stray' \subseteq Streams
    BY <1>12, <2>1 DEF handleLogStreamRequest, TypeOK
  <2>7. GorTypes'
    BY <1>12 DEF handleLogStreamRequest, TypeOK, GorTypes
  <2>8. UNCHANGED <<perms, hub, net, down>>
    BY <1>12 DEF handleLogStreamRequest
  <2>9. QED
    BY <2>2, <2>3, <2>5, <2>6, <2>7, <2>8, TypeFrames, TypePartsNext
<1>13. ASSUME NEW g \in gor, handleLogStreamStop(g) PROVE TypeOK'
  <2>1. g[2].id \in Streams
    BY <1>13 DEF TypeOK, Messages, Starts, Stops
  <2>2. SessionTypes'
    BY <1>13, SessionsRemoved DEF handleLogStreamStop, TypeOK, SessionTypes
  <2>3. TailTypes' /\ GorTypes'
    BY <1>13, <2>1 DEF handleLogStreamStop, TypeOK, TailTypes, GorTypes
  <2>4. QED
    BY <2>2, <2>3, <1>13, TypeFrames, TypePartsNext DEF handleLogStreamStop
<1>14. ASSUME WriteLog PROVE TypeOK'
  <2>1. TailTypes'
    BY <1>14, ConstantTypes DEF WriteLog, TypeOK, TailTypes
  <2>2. QED
    BY <2>1, <1>14, TypeFrames, TypePartsNext DEF WriteLog
<1>15. ASSUME RotateLog PROVE TypeOK'
  <2>1. TailTypes'
    <3>1. size' \in Seq(0 .. MaxSize) /\ Len(size') = Len(size) + 1 /\ Len(size) \in Nat
      BY <1>15, ConstantTypes DEF RotateLog, TypeOK
    <3>2. \A s \in Streams : tails[s] # None => tails[s].gen \in Nat
      BY DEF TypeOK, Tails
    <3>3. UNCHANGED tails
      BY <1>15 DEF RotateLog
    <3>4. QED
      BY <3>1, <3>2, <3>3 DEF TypeOK, TailTypes
  <2>2. QED
    BY <2>1, <1>15, TypeFrames, TypePartsNext DEF RotateLog
<1>16. ASSUME TruncateLog PROVE TypeOK'
  <2>1. TailTypes'
    <3>1. size' \in Seq(0 .. MaxSize) /\ Len(size') = Len(size) + 1 /\ Len(size) \in Nat
      BY <1>16, ConstantTypes DEF TruncateLog, TypeOK
    <3>2. ASSUME NEW s \in Streams
          PROVE  /\ tails'[s] \in {None} \cup Tails
                 /\ tails'[s] # None => tails'[s].gen <= Len(size) + 1
      <4>1. CASE tails[s] # None /\ tails[s].gen = Len(size)
        <5>1. tails[s] \in Tails /\ tails'[s] = [tails[s] EXCEPT !.gen = @ + 1]
          BY <4>1, <1>16 DEF TruncateLog, TypeOK
        <5>2. QED
          BY <5>1, <4>1, <3>1 DEF Tails
      <4>2. CASE ~(tails[s] # None /\ tails[s].gen = Len(size))
        BY <4>2, <1>16, <3>1 DEF TruncateLog, TypeOK, Tails
      <4>3. QED
        BY <4>1, <4>2
    <3>3. tails' = [s \in Streams |-> tails'[s]]
      BY <1>16 DEF TruncateLog
    <3>4. tails' \in [Streams -> {None} \cup Tails]
      BY <3>2, <3>3
    <3>5. QED
      BY <3>1, <3>2, <3>4 DEF TailTypes
  <2>2. QED
    BY <2>1, <1>16, TypeFrames, TypePartsNext DEF TruncateLog
<1>17. ASSUME Connect PROVE TypeOK'
  <2>1. NetTypes'
    BY <1>17, ConstantTypes DEF TypeOK, Connect, NetTypes
  <2>2. QED
    BY <2>1, <1>17, TypeFrames, TypePartsNext DEF Connect
<1>18. ASSUME Disconnect PROVE TypeOK'
  <2>1. SessionTypes'
    BY <1>18, FS_EmptySet, ConstantTypes DEF Disconnect, SessionTypes
  <2>2. TailTypes'
    BY <1>18, TypeParts DEF Disconnect, TailTypes
  <2>3. NetTypes' /\ DownTypes'
    <3>1. NetTypes /\ DownTypes /\ aconn \in Conns
      BY <1>18, ConnIsConn, TypeParts DEF Disconnect
    <3>2. QED
      BY <3>1, <1>18, ConstantTypes DEF Disconnect, NetTypes, DownTypes, NoConn
  <2>4. QED
    BY <2>1, <2>2, <2>3, <1>18, TypeFrames, TypePartsNext DEF Disconnect
<1>19. ASSUME HubClose PROVE TypeOK'
  <2>1. NetTypes' /\ UpTypes'
    <3>1. NetTypes /\ UpTypes /\ cur \in Conns
      BY <1>19, ConnIsConn, TypeParts DEF HubClose
    <3>2. QED
      BY <3>1, <1>19, ConstantTypes DEF HubClose, NetTypes, UpTypes, NoConn
  <2>2. QED
    BY <2>1, <1>19, TypeFrames, TypePartsNext DEF HubClose
<1>20. CASE UNCHANGED vars
  BY <1>20, TypeFrames, TypePartsNext DEF vars
<1>22. QED
  BY <1>21, <1>1, <1>2, <1>3, <1>4, <1>5, <1>6, <1>7, <1>8, <1>9, <1>10, <1>11, <1>12, <1>13,
     <1>14, <1>15, <1>16, <1>17, <1>18, <1>19, <1>20 DEF Next

-----------------------------------------------------------------------------
(* What may change what. *)

HubStep(s) ==
  \/ \E u \in Users, p \in Paths : handleTailLog(s, u, p)
  \/ sendLogStreamRequest(s) \/ streamChunk(s) \/ reportOverflow(s)
  \/ endStream(s) \/ sendLogStreamStop(s)

(* The hub's state changes by a step of a handler or by a chunk, and the   *)
(* handler's places by a step of the handler.                              *)
LEMMA HubSteps ==
  [Next]_vars => \/ \E s \in Streams : HubStep(s)
                 \/ \E c \in Conns : deliverLogChunk(c)
                 \/ UNCHANGED hub
  BY DEF Next, vars, HubStep, handleCreatePath, handleDeletePath, StartTail, readNewData, statLog,
         startRecvLoop, handleLogStreamRequest, handleLogStreamStop, WriteLog, RotateLog,
         TruncateLog, Connect, Disconnect, HubClose

(* The tails change by a poll, by a start or a stop, and with the file. *)
LEMMA TailSteps ==
  [Next]_vars => \/ \E s \in Streams : StartTail(s) \/ statLog(s) \/ readNewData(s)
                 \/ \E g \in gor : handleLogStreamRequest(g) \/ handleLogStreamStop(g)
                 \/ WriteLog \/ RotateLog \/ TruncateLog \/ Disconnect
                 \/ UNCHANGED <<tails, size>>
  BY DEF Next, vars, hub, agent, handleCreatePath, handleDeletePath, handleTailLog,
         sendLogStreamRequest, streamChunk, reportOverflow, endStream, sendLogStreamStop,
         startRecvLoop, deliverLogChunk, Connect, HubClose

-----------------------------------------------------------------------------
LEMMA HolderNext == LogInv /\ [Next]_vars => HolderIsKnown'
<1> SUFFICES ASSUME LogInv, [Next]_vars PROVE HolderIsKnown'
  OBVIOUS
<1>1. StreamTypes /\ HolderIsKnown /\ None \notin Users \X Paths
  BY TypeParts, ConstantTypes DEF LogInv
<1>2. ASSUME NEW s \in Streams, HubStep(s) PROVE HolderIsKnown'
  <2>1. ASSUME NEW u \in Users, NEW p \in Paths, handleTailLog(s, u, p) PROVE HolderIsKnown'
    <3>1. <<u, p>> # None
      BY <1>1
    <3>2. QED
      BY <3>1, <2>1, <1>1 DEF handleTailLog, HolderIsKnown, Holds, StreamTypes
  <2>2. CASE sendLogStreamRequest(s)
    BY <2>2, <1>1 DEF sendLogStreamRequest, SendToAgent, HolderIsKnown, Holds, StreamTypes
  <2>3. CASE streamChunk(s) \/ reportOverflow(s) \/ endStream(s)
    BY <2>3, <1>1 DEF streamChunk, reportOverflow, endStream, HolderIsKnown, Holds, StreamTypes
  <2>4. CASE sendLogStreamStop(s)
    BY <2>4, <1>1 DEF sendLogStreamStop, HolderIsKnown, Holds, StreamTypes
  <2>5. QED
    BY <2>1, <2>2, <2>3, <2>4, <1>2 DEF HubStep
<1>3. ASSUME UNCHANGED <<phase, who>> PROVE HolderIsKnown'
  BY <1>3, <1>1 DEF HolderIsKnown, Holds
<1>4. QED
  BY <1>2, <1>3, HubSteps DEF deliverLogChunk, hub

LEMMA LossNext == LogInv /\ [Next]_vars => LossIsCounted'
<1> SUFFICES ASSUME LogInv, [Next]_vars PROVE LossIsCounted'
  OBVIOUS
<1> DEFINE Right(s) == /\ lost[s] = told[s] + overflow[s]
                       /\ overflow[s] > 0 /\ phase[s] # "drain" => chan[s] = ChanCap
                       /\ phase[s] = "idle" => chan[s] = None
<1>1. /\ ChanTypes /\ StreamTypes /\ UpTypes /\ ChanCap \in Nat \ {0} /\ None \notin Nat
      /\ \A s \in Streams : Right(s)
  BY TypeParts, ConstantTypes DEF LogInv, LossIsCounted
<1>2. ASSUME NEW s \in Streams,
             \A r \in Streams \ {s} : UNCHANGED <<phase[r], chan[r], overflow[r], lost[r], told[r]>>,
             Right(s)'
      PROVE  LossIsCounted'
  BY <1>1, <1>2 DEF LossIsCounted
<1>3. ASSUME NEW s \in Streams, HubStep(s) PROVE LossIsCounted'
  <2>1. \A r \in Streams \ {s} : UNCHANGED <<phase[r], chan[r], overflow[r], lost[r], told[r]>>
    BY <1>3, <1>1 DEF HubStep, handleTailLog, sendLogStreamRequest, streamChunk, reportOverflow,
       endStream, sendLogStreamStop, SendToAgent, Register, RemoveSession, DrainOverflow,
       ChanTypes, StreamTypes
  <2>2. Right(s)'
    <3>1. ASSUME NEW u \in Users, NEW p \in Paths, handleTailLog(s, u, p) PROVE Right(s)'
      BY <3>1, <1>1 DEF handleTailLog, Register, ChanTypes, StreamTypes
    <3>2. CASE sendLogStreamRequest(s)
      BY <3>2, <1>1 DEF sendLogStreamRequest, SendToAgent, RemoveSession, ChanTypes, StreamTypes
    <3>3. CASE streamChunk(s)
      BY <3>3, <1>1 DEF streamChunk, ChanTypes, StreamTypes
    <3>4. CASE reportOverflow(s)
      BY <3>4, <1>1 DEF reportOverflow, DrainOverflow, ChanTypes, StreamTypes
    <3>5. CASE endStream(s)
      BY <3>5, <1>1 DEF endStream, RemoveSession, ChanTypes, StreamTypes
    <3>6. CASE sendLogStreamStop(s)
      BY <3>6, <1>1 DEF sendLogStreamStop, ChanTypes, StreamTypes
    <3>7. QED
      BY <3>1, <3>2, <3>3, <3>4, <3>5, <3>6, <1>3 DEF HubStep
  <2>3. QED
    BY <2>1, <2>2, <1>2
<1>4. ASSUME NEW c \in Conns, deliverLogChunk(c) PROVE LossIsCounted'
  <2>1. PICK s \in Streams : Deliver(s) /\ UNCHANGED <<phase, told>>
    BY <1>4, <1>1 DEF deliverLogChunk, UpTypes
  <2>2. \A r \in Streams \ {s} : UNCHANGED <<phase[r], chan[r], overflow[r], lost[r], told[r]>>
    BY <2>1, <1>1 DEF Deliver, ChanTypes
  <2>3. Right(s)'
    <3>1. chan[s] # None => chan[s] \in 0 .. ChanCap
      BY <2>1, <1>1 DEF ChanTypes
    <3>2. QED
      BY <2>1, <3>1, <1>1 DEF Deliver, ChanTypes, StreamTypes
  <2>4. QED
    BY <2>1, <2>2, <2>3, <1>2
<1>5. ASSUME UNCHANGED hub PROVE LossIsCounted'
  BY <1>5, <1>1 DEF hub, LossIsCounted
<1>6. QED
  BY <1>3, <1>4, <1>5, HubSteps

LEMMA SentNext == LogInv /\ [Next]_vars => SentIsRead'
<1> SUFFICES ASSUME LogInv, [Next]_vars PROVE SentIsRead'
  OBVIOUS
<1> TypeOK /\ SentIsRead
  BY DEF LogInv
<1>1. TailTypes /\ \A s \in Streams : tails[s] # None => tails[s] \in Tails /\ Behind(tails[s])
  BY TypeParts DEF TailTypes, SentIsRead
<1>2. /\ Len(size) \in Nat \ {0}
      /\ \A k \in 1 .. Len(size) : size[k] \in Nat
  BY <1>1, ElementOfSeq, ConstantTypes DEF TailTypes
<1>3. \A t \in Tails : t.gen \in Nat /\ t.off \in Nat /\ t.sent.gen \in Nat /\ t.sent.to \in Nat
  BY ConstantTypes DEF Tails
<1>4. SUFFICES \A s \in Streams : tails'[s] # None => Behind(tails[s])'
  BY DEF SentIsRead
<1>5. ASSUME NEW s \in Streams, NEW x, tails' = [tails EXCEPT ![s] = x], UNCHANGED size,
             x = None \/ Behind(x)
      PROVE  \A r \in Streams : tails'[r] # None => Behind(tails[r])'
  <2>1. \A r \in Streams \ {s} : tails'[r] = tails[r]
    BY <1>5, <1>1 DEF TailTypes
  <2>2. tails'[s] = x
    BY <1>5, <1>1 DEF TailTypes
  <2>3. QED
    BY <1>5, <1>1, <2>1, <2>2 DEF Behind
<1>6. ASSUME NEW s \in Streams, StartTail(s) PROVE \A r \in Streams : tails'[r] # None => Behind(tails[r])'
  <2> DEFINE x == [tails[s] EXCEPT !.gen = Len(size), !.off = size[Len(size)]]
  <2>1. tails[s] \in Tails /\ tails[s].gen = 0 /\ Behind(tails[s])
    BY <1>6, <1>1 DEF StartTail
  <2>2. (tails' = [tails EXCEPT ![s] = x] \/ tails' = [tails EXCEPT ![s] = None]) /\ UNCHANGED size
    BY <1>6, <1>1 DEF StartTail, TailTypes
  <2>3. /\ x.gen = Len(size) /\ x.off = size[Len(size)] /\ x.sent = tails[s].sent
        /\ x.stat = tails[s].stat
    BY <2>1 DEF Tails
  <2> HIDE DEF x
  <2>4. Behind(x)
    BY <2>1, <2>3, <1>2, <1>3 DEF Behind
  <2>5. QED
    BY <2>2, <2>4, <1>5
<1>7. ASSUME NEW s \in Streams, readNewData(s) PROVE \A r \in Streams : tails'[r] # None => Behind(tails[r])'
  <2>1. UNCHANGED size
    BY <1>7 DEF readNewData
  <2>2. QED
    BY <2>1, <1>7, ReadNewData, <1>5
<1>18. ASSUME NEW s \in Streams, statLog(s) PROVE \A r \in Streams : tails'[r] # None => Behind(tails[r])'
  <2>1. UNCHANGED size
    BY <1>18 DEF statLog
  <2>2. QED
    BY <2>1, <1>18, StatLog, <1>5
<1>8. ASSUME NEW g \in gor, handleLogStreamRequest(g)
      PROVE  \A r \in Streams : tails'[r] # None => Behind(tails[r])'
  <2> DEFINE x == [path |-> g[2].path, gen |-> 0, off |-> 0, c |-> g[1], stat |-> None,
                     torn |-> FALSE, sent |-> [gen |-> 0, to |-> 0]]
  <2>1. g[2].id \in Streams
    BY DEF TypeOK, Messages, Starts, Stops
  <2>2. (UNCHANGED tails \/ tails' = [tails EXCEPT ![g[2].id] = x]) /\ UNCHANGED size
    BY <1>8 DEF handleLogStreamRequest
  <2>3. Behind(x)
    BY <1>2 DEF Behind
  <2> HIDE DEF x
  <2>4. CASE UNCHANGED <<tails, size>>
    BY <2>4, <1>1 DEF Behind
  <2>5. QED
    BY <2>1, <2>2, <2>3, <2>4, <1>5
<1>9. ASSUME NEW g \in gor, handleLogStreamStop(g)
      PROVE  \A r \in Streams : tails'[r] # None => Behind(tails[r])'
  <2>1. g[2].id \in Streams
    BY DEF TypeOK, Messages, Starts, Stops
  <2>2. (UNCHANGED tails \/ tails' = [tails EXCEPT ![g[2].id] = None]) /\ UNCHANGED size
    BY <1>9 DEF handleLogStreamStop
  <2>3. CASE UNCHANGED <<tails, size>>
    BY <2>3, <1>1 DEF Behind
  <2>4. QED
    BY <2>1, <2>2, <2>3, <1>5
<1>10. ASSUME NEW r \in Streams, tails[r] # None, UNCHANGED tails[r], Len(size') >= Len(size), Len(size') \in Nat,
             \A k \in 1 .. Len(size) : size'[k] >= size[k] /\ size'[k] \in Nat
       PROVE  Behind(tails[r])'
  <2> DEFINE t == tails[r]
  <2>1. t \in Tails /\ Behind(t) /\ tails'[r] = t
    BY <1>10, <1>1
  <2> HIDE DEF t
  <2>2. t.gen \in Nat /\ t.off \in Nat /\ t.sent.gen \in Nat /\ t.sent.to \in Nat
    BY <2>1, <1>3
  <2>3. /\ t.sent.gen > 0 => t.sent.gen \in 1 .. Len(size)
        /\ t.gen > 0 => t.gen \in 1 .. Len(size)
    BY <2>1, <2>2, <1>2 DEF Behind
  <2>4. QED
    <3>1. /\ t.gen <= Len(size') /\ (t.stat # None => t.gen > 0)
          /\ t.sent.gen <= t.gen /\ (t.sent.gen = 0 => t.sent.to = 0)
      BY <2>1, <2>2, <1>2, <1>10 DEF Behind
    <3>2. t.sent.gen > 0 => t.sent.to <= size'[t.sent.gen]
      BY <2>1, <2>2, <2>3, <1>2, <1>10 DEF Behind
    <3>3. t.gen > 0 /\ t.off <= size[t.gen] => t.off <= size'[t.gen]
      BY <2>2, <2>3, <1>2, <1>10
    <3>4. t.sent.gen = t.gen /\ ~t.torn =>
            t.sent.to <= t.off /\ (t.gen > 0 => t.off <= size'[t.gen])
      BY <2>1, <3>3 DEF Behind
    <3>5. QED
      BY <3>1, <3>2, <3>4, <2>1 DEF Behind, t
<1>11. ASSUME WriteLog PROVE \A r \in Streams : tails'[r] # None => Behind(tails[r])'
  <2>1. UNCHANGED tails
    BY <1>11 DEF WriteLog, agent
  <2>2. Len(size') = Len(size) /\ \A k \in 1 .. Len(size) : size'[k] >= size[k] /\ size'[k] \in Nat
    BY <1>11, <1>1, <1>2, ConstantTypes DEF WriteLog, TailTypes
  <2>3. QED
    BY <2>1, <2>2, <1>2, <1>10
<1>12. ASSUME size' = Append(size, 0)
       PROVE  Len(size') = Len(size) + 1 /\ \A k \in 1 .. Len(size) : size'[k] >= size[k] /\ size'[k] \in Nat
  BY <1>12, <1>1, <1>2 DEF TailTypes
<1>13. ASSUME RotateLog PROVE \A r \in Streams : tails'[r] # None => Behind(tails[r])'
  <2>1. UNCHANGED tails /\ size' = Append(size, 0)
    BY <1>13 DEF RotateLog, agent
  <2>2. QED
    BY <2>1, <1>12, <1>2, <1>10
<1>14. ASSUME TruncateLog, NEW r \in Streams, tails'[r] # None PROVE Behind(tails[r])'
  <2>1. size' = Append(size, 0)
    BY <1>14 DEF TruncateLog
  <2>2. Len(size') = Len(size) + 1 /\ \A k \in 1 .. Len(size) : size'[k] >= size[k] /\ size'[k] \in Nat
    BY <2>1, <1>12
  <2>3. CASE tails[r] # None /\ tails[r].gen = Len(size)
    <3> DEFINE t == tails[r]
               x == [t EXCEPT !.gen = @ + 1]
    <3>1. t \in Tails /\ tails'[r] = x /\ Behind(t) /\ t.gen = Len(size)
      BY <2>3, <1>14, <1>1 DEF TruncateLog
    <3>2. x.gen = Len(size) + 1 /\ x.sent = t.sent
      BY <3>1 DEF Tails
    <3> HIDE DEF t, x
    <3>3. t.sent.gen \in Nat /\ t.sent.to \in Nat
      BY <3>1, <1>3
    <3>4. t.sent.gen <= Len(size) /\ (t.sent.gen > 0 => t.sent.gen \in 1 .. Len(size))
      BY <3>1, <3>3, <1>2 DEF Behind
    <3>5. QED
      BY <3>1, <3>2, <3>3, <3>4, <2>2, <1>2 DEF Behind
  <2>4. CASE ~(tails[r] # None /\ tails[r].gen = Len(size))
    <3>1. UNCHANGED tails[r] /\ tails[r] # None
      BY <2>4, <1>14 DEF TruncateLog
    <3>2. QED
      BY <3>1, <2>2, <1>2, <1>10
  <2>5. QED
    BY <2>3, <2>4
<1>15. ASSUME Disconnect PROVE \A r \in Streams : tails'[r] # None => Behind(tails[r])'
  <2>1. \A r \in Streams : tails'[r] = None \/ tails'[r] = tails[r]
    BY <1>15 DEF Disconnect
  <2>2. UNCHANGED size
    BY <1>15 DEF Disconnect
  <2>3. QED
    BY <2>1, <2>2, <1>1 DEF Behind
<1>16. ASSUME UNCHANGED <<tails, size>> PROVE \A r \in Streams : tails'[r] # None => Behind(tails[r])'
  BY <1>16, <1>1 DEF Behind
<1>17. QED
  BY <1>6, <1>7, <1>8, <1>9, <1>11, <1>13, <1>14, <1>15, <1>16, <1>18, TailSteps

-----------------------------------------------------------------------------
(* A handler that has sent its start stays beyond that point. *)
LEMMA StartedStays ==
  ASSUME StreamTypes, [Next]_vars, NEW r \in Streams, Started(r)
  PROVE  Started(r)'
<1>1. ASSUME NEW s \in Streams, HubStep(s) PROVE Started(r)'
  BY <1>1 DEF HubStep, handleTailLog, sendLogStreamRequest, streamChunk, reportOverflow,
     endStream, sendLogStreamStop, SendToAgent, Started, StreamTypes
<1>2. ASSUME UNCHANGED phase PROVE Started(r)'
  BY <1>2 DEF Started
<1>3. QED
  BY <1>1, <1>2, HubSteps DEF deliverLogChunk, hub

(* What is on its way to the agent afterwards was on its way before, or is *)
(* a message of a handler that has sent its start.                         *)
LEMMA DownSteps ==
  ASSUME LogInv, [Next]_vars, NEW c \in Conns, NEW i \in DOMAIN down'[c]
  PROVE  (\E j \in DOMAIN down[c] : down'[c][i] = down[c][j]) \/ Started(down[c][i].id)'
<1>1. DownTypes /\ StreamTypes /\ NetTypes
  BY TypeParts DEF LogInv
<1>2. ASSUME NEW m, UNCHANGED down \/ down' = [down EXCEPT ![cur] = Append(@, m)],
             cur \in Conns \/ UNCHANGED down, m \in Messages
      PROVE  (\E j \in DOMAIN down[c] : down'[c][i] = down[c][j]) \/ down'[c][i] = m
  <2>1. down[c] \in Seq(Messages)
    BY <1>1 DEF DownTypes
  <2>2. down'[c] = down[c] \/ down'[c] = Append(down[c], m)
    BY <1>2, <1>1 DEF DownTypes
  <2>3. QED
    BY <2>1, <2>2, <1>2
<1>3. ASSUME NEW s \in Streams, sendLogStreamRequest(s)
      PROVE  (\E j \in DOMAIN down[c] : down'[c][i] = down[c][j]) \/ Started(down[c][i].id)'
  <2>1. CASE UNCHANGED down
    BY <2>1
  <2>2. CASE ~UNCHANGED down
    <3> DEFINE m == [op |-> "start", id |-> s, path |-> who[s][2]]
    <3>1. cur # NoConn /\ down' = [down EXCEPT ![cur] = Append(@, m)] /\ phase'[s] = "loop"
      BY <1>3, <2>2, <1>1 DEF sendLogStreamRequest, SendToAgent, StreamTypes
    <3>2. m \in Messages /\ m.id = s
      <4>1. who[s][2] \in Paths
        BY <1>3, <1>1 DEF LogInv, HolderIsKnown, Holds, StreamTypes, sendLogStreamRequest
      <4>2. QED
        BY <4>1 DEF Messages, Starts
    <3> HIDE DEF m
    <3>3. (\E j \in DOMAIN down[c] : down'[c][i] = down[c][j]) \/ down'[c][i] = m
      BY <3>1, <3>2, <1>2, ConnIsConn DEF LogInv
    <3>4. Started(s)'
      BY <3>1 DEF Started
    <3>5. QED
      BY <3>2, <3>3, <3>4 DEF Started
  <2>3. QED
    BY <2>1, <2>2
<1>4. ASSUME NEW s \in Streams, sendLogStreamStop(s)
      PROVE  (\E j \in DOMAIN down[c] : down'[c][i] = down[c][j]) \/ Started(down[c][i].id)'
  <2>1. CASE UNCHANGED down
    BY <2>1
  <2>2. CASE ~UNCHANGED down
    <3> DEFINE m == [op |-> "stop", id |-> s]
    <3>1. cur # NoConn /\ down' = [down EXCEPT ![cur] = Append(@, m)] /\ phase'[s] = "done"
      BY <1>4, <2>2, <1>1 DEF sendLogStreamStop, SendToAgent, StreamTypes
    <3>2. m \in Messages /\ m.id = s
      BY DEF Messages, Stops
    <3> HIDE DEF m
    <3>3. (\E j \in DOMAIN down[c] : down'[c][i] = down[c][j]) \/ down'[c][i] = m
      BY <3>1, <3>2, <1>2, ConnIsConn DEF LogInv
    <3>4. Started(s)'
      BY <3>1 DEF Started
    <3>5. QED
      BY <3>2, <3>3, <3>4 DEF Started
  <2>3. QED
    BY <2>1, <2>2
<1>5. ASSUME NEW d \in Conns, startRecvLoop(d)
      PROVE  \E j \in DOMAIN down[c] : down'[c][i] = down[c][j]
  <2>1. down[c] \in Seq(Messages) /\ (down'[c] = down[c] \/ (down[c] # <<>> /\ down'[c] = Tail(down[c])))
    BY <1>5, <1>1 DEF startRecvLoop, DownTypes
  <2>2. CASE down'[c] = down[c]
    BY <2>2
  <2>3. CASE down[c] # <<>> /\ down'[c] = Tail(down[c])
    <3>1. i + 1 \in DOMAIN down[c] /\ down'[c][i] = down[c][i + 1]
      BY <2>1, <2>3
    <3>2. QED
      BY <3>1
  <2>4. QED
    BY <2>1, <2>2, <2>3
<1>6. ASSUME Disconnect PROVE \E j \in DOMAIN down[c] : down'[c][i] = down[c][j]
  BY <1>6, <1>1, ConnIsConn DEF LogInv, Disconnect, DownTypes
<1>7. ASSUME UNCHANGED down PROVE \E j \in DOMAIN down[c] : down'[c][i] = down[c][j]
  BY <1>7
<1>8. \/ \E s \in Streams : sendLogStreamRequest(s) \/ sendLogStreamStop(s)
      \/ \E d \in Conns : startRecvLoop(d)
      \/ Disconnect \/ UNCHANGED down
  BY DEF Next, vars, handleCreatePath, handleDeletePath, handleTailLog, streamChunk, reportOverflow,
     endStream, StartTail, readNewData, statLog, deliverLogChunk, handleLogStreamRequest,
     handleLogStreamStop, WriteLog, RotateLog, TruncateLog, Connect, HubClose
<1>9. QED
  BY <1>3, <1>4, <1>5, <1>6, <1>7, <1>8

(* Goroutines and sessions come of what was on its way. *)
LEMMA GorSteps ==
  [Next]_vars => gor' \subseteq gor \/ \E c \in Conns : /\ down[c] # <<>>
                                                        /\ gor' = gor \cup {<<c, Head(down[c])>>}
  BY DEF Next, vars, agent, handleCreatePath, handleDeletePath, handleTailLog, sendLogStreamRequest,
     streamChunk, reportOverflow, endStream, sendLogStreamStop, StartTail, readNewData, statLog,
     startRecvLoop, deliverLogChunk, handleLogStreamRequest, handleLogStreamStop, WriteLog,
     RotateLog, TruncateLog, Connect, Disconnect, HubClose

LEMMA SessionSteps ==
  [Next]_vars => \/ \E g \in gor : handleLogStreamRequest(g) \/ handleLogStreamStop(g)
                 \/ Disconnect \/ UNCHANGED <<sessions, stray>>
  BY DEF Next, vars, agent, handleCreatePath, handleDeletePath, handleTailLog, sendLogStreamRequest,
     streamChunk, reportOverflow, endStream, sendLogStreamStop, StartTail, readNewData, statLog,
     startRecvLoop, deliverLogChunk, WriteLog, RotateLog, TruncateLog, Connect, HubClose

LEMMA StartsNext == LogInv /\ [Next]_vars => StartsAreSent'
<1> SUFFICES ASSUME LogInv, [Next]_vars PROVE StartsAreSent'
  OBVIOUS
<1>1. /\ StreamTypes /\ DownTypes /\ GorTypes /\ SessionTypes /\ StartsAreSent
      /\ \A m \in Messages : m.id \in Streams
  BY TypeParts DEF LogInv, Messages, Starts, Stops
<1>2. \A r \in Streams : Started(r) => Started(r)'
  BY <1>1, StartedStays
<1>3. ASSUME NEW c \in Conns, NEW j \in DOMAIN down[c] PROVE Started(down[c][j].id) /\ down[c][j].id \in Streams
  <2>1. down[c] \in Seq(Messages)
    BY <1>1 DEF DownTypes
  <2>2. QED
    BY <2>1, <1>1, ElementOfSeq DEF StartsAreSent
<1>4. ASSUME NEW c \in Conns, NEW i \in DOMAIN down'[c] PROVE Started(down[c][i].id)'
  <2>1. CASE \E j \in DOMAIN down[c] : down'[c][i] = down[c][j]
    <3>1. PICK j \in DOMAIN down[c] : down'[c][i] = down[c][j]
      BY <2>1
    <3>2. PICK r \in Streams : r = down[c][j].id /\ Started(r)
      BY <1>3
    <3>3. Started(r)' /\ down'[c][i].id = r
      BY <3>1, <3>2, <1>2
    <3>4. QED
      BY <3>3 DEF Started
  <2>2. QED
    BY <2>1, DownSteps
<1>5. ASSUME NEW g \in gor' PROVE Started(g[2].id)'
  <2>1. CASE g \in gor
    <3>1. PICK r \in Streams : r = g[2].id /\ Started(r)
      BY <2>1, <1>1 DEF StartsAreSent, GorTypes
    <3>2. QED
      BY <3>1, <1>2 DEF Started
  <2>2. CASE \E c \in Conns : down[c] # <<>> /\ g = <<c, Head(down[c])>>
    <3>1. PICK c \in Conns : down[c] # <<>> /\ g = <<c, Head(down[c])>>
      BY <2>2
    <3>2. 1 \in DOMAIN down[c] /\ g[2] = down[c][1]
      BY <3>1, <1>1 DEF DownTypes
    <3>3. PICK r \in Streams : r = g[2].id /\ Started(r)
      BY <3>2, <1>3
    <3>4. QED
      BY <3>3, <1>2 DEF Started
  <2>3. QED
    BY <2>1, <2>2, GorSteps
<1>6. ASSUME NEW s \in sessions' PROVE Started(s)'
  <2>1. s \in sessions \/ \E g \in gor : s = g[2].id
    BY SessionSteps DEF handleLogStreamRequest, handleLogStreamStop, Disconnect
  <2>2. s \in Streams /\ Started(s)
    BY <2>1, <1>1 DEF StartsAreSent, GorTypes, SessionTypes
  <2>3. QED
    BY <2>2, <1>2
<1>7. QED
  BY <1>4, <1>5, <1>6 DEF StartsAreSent

-----------------------------------------------------------------------------
(* The agent's sessions. *)

LEMMA NoConnNext == LogInv /\ [Next]_vars => NoConnNoTail'
<1> SUFFICES ASSUME LogInv, [Next]_vars, aconn' = NoConn PROVE (sessions \subseteq stray)'
  BY DEF NoConnNoTail
<1>1. TypeOK /\ NoConnNoTail
  BY DEF LogInv
<1>2. CASE Disconnect
  BY <1>2 DEF Disconnect
<1>3. CASE ~Disconnect
  <2>1. aconn = NoConn
    <3>1. UNCHANGED aconn \/ (Connect /\ aconn' = nconn + 1)
      BY <1>3 DEF Next, vars, net, handleCreatePath, handleDeletePath, handleTailLog,
         sendLogStreamRequest, streamChunk, reportOverflow, endStream, sendLogStreamStop, StartTail,
         readNewData, statLog, startRecvLoop, deliverLogChunk, handleLogStreamRequest, handleLogStreamStop,
         WriteLog, RotateLog, TruncateLog, Connect, HubClose
    <3>2. nconn \in Nat
      BY <1>1, ConstantTypes DEF TypeOK
    <3>3. QED
      BY <3>1, <3>2 DEF NoConn
  <2>2. sessions \subseteq stray
    BY <2>1, <1>1 DEF NoConnNoTail
  <2>3. ASSUME NEW g \in gor, handleLogStreamRequest(g) PROVE (sessions \subseteq stray)'
    <3>1. g[1] # aconn
      BY <2>1, <1>1, ConstantTypes DEF TypeOK, NoConn, Conns
    <3>2. QED
      BY <3>1, <2>2, <2>3 DEF handleLogStreamRequest
  <2>4. QED
    BY <2>2, <2>3, <1>3, SessionSteps DEF handleLogStreamStop
<1>4. QED
  BY <1>2, <1>3

(* A stop that the agent has not handled yet. *)
StopComing(s) ==
  \E c \in Conns :
    \/ <<c, [op |-> "stop", id |-> s]>> \in gor
    \/ \E i \in DOMAIN down[c] : down[c][i] = [op |-> "stop", id |-> s]

Wanted(s) == phase[s] # "done" \/ StopComing(s) \/ cur # aconn \/ s \in stray

LEMMA WantedIs ==
  ASSUME TypeOK, StartsAreSent
  PROVE  TailIsWanted <=> \A s \in sessions : Wanted(s)
<1>1. \A s \in sessions : Started(s)
  BY DEF StartsAreSent
<1>2. \A s \in sessions : Stopped(s) <=> phase[s] = "done" /\ ~StopComing(s)
  BY DEF Stopped, StopComing
<1>3. QED
  BY <1>1, <1>2 DEF TailIsWanted, Wanted, Started, Holds

LEMMA WantedIsNext ==
  ASSUME TypeOK', StartsAreSent'
  PROVE  TailIsWanted' <=> \A s \in sessions' : Wanted(s)'
<1>1. \A s \in sessions' : Started(s)'
  BY DEF StartsAreSent
<1>2. \A s \in sessions' : Stopped(s)' <=> phase'[s] = "done" /\ ~StopComing(s)'
  BY DEF Stopped, StopComing
<1>3. QED
  BY <1>1, <1>2 DEF TailIsWanted, Wanted, Started, Holds

(* A stop is no longer on its way only when it has been handled, or the    *)
(* connection has ended; either takes the session out.                     *)
LEMMA StopStays ==
  ASSUME TypeOK, [Next]_vars, NEW s \in sessions', s \in sessions, StopComing(s)
  PROVE  StopComing(s)'
<1> DEFINE m == [op |-> "stop", id |-> s]
<1>1. DownTypes
  BY TypeParts
<1>2. PICK c \in Conns : <<c, m>> \in gor \/ \E i \in DOMAIN down[c] : down[c][i] = m
  BY DEF StopComing
<1>3. SUFFICES <<c, m>> \in gor' \/ \E i \in DOMAIN down'[c] : down'[c][i] = m
  BY DEF StopComing
<1>4. \A g : g[2] = m => g[2].op = "stop" /\ g[2].id = s
  OBVIOUS
<1> HIDE DEF m
<1>5. ~Disconnect
  BY DEF Disconnect
<1>6. CASE <<c, m>> \in gor
  <2>1. ASSUME NEW g \in gor, handleLogStreamRequest(g) PROVE <<c, m>> \in gor'
    <3>1. g # <<c, m>>
      BY <2>1, <1>4 DEF handleLogStreamRequest
    <3>2. QED
      BY <3>1, <2>1, <1>6 DEF handleLogStreamRequest
  <2>2. ASSUME NEW g \in gor, handleLogStreamStop(g) PROVE <<c, m>> \in gor'
    <3>1. g # <<c, m>>
      BY <2>2, <1>4 DEF handleLogStreamStop
    <3>2. QED
      BY <3>1, <2>2, <1>6 DEF handleLogStreamStop
  <2>3. \/ \E g \in gor : handleLogStreamRequest(g) \/ handleLogStreamStop(g)
        \/ gor \subseteq gor'
    BY <1>5 DEF Next, vars, agent, handleCreatePath, handleDeletePath, handleTailLog,
       sendLogStreamRequest, streamChunk, reportOverflow, endStream, sendLogStreamStop, StartTail,
       readNewData, statLog, startRecvLoop, deliverLogChunk, WriteLog, RotateLog, TruncateLog, Connect,
       HubClose
  <2>4. QED
    BY <2>1, <2>2, <2>3, <1>6
<1>7. CASE \E i \in DOMAIN down[c] : down[c][i] = m
  <2>1. PICK i \in DOMAIN down[c] : down[c][i] = m
    BY <1>7
  <2>2. down[c] \in Seq(Messages)
    BY <1>1 DEF DownTypes
  <2>3. ASSUME NEW d \in Conns, startRecvLoop(d)
        PROVE  <<c, m>> \in gor' \/ \E k \in DOMAIN down'[c] : down'[c][k] = m
    <3>1. CASE d # c
      BY <3>1, <2>1, <2>3, <1>1 DEF startRecvLoop, DownTypes
    <3>2. CASE d = c
      <4>1. down'[c] = Tail(down[c]) /\ gor' = gor \cup {<<c, Head(down[c])>>}
        BY <3>2, <2>3, <1>1 DEF startRecvLoop, DownTypes
      <4>2. CASE i = 1
        BY <4>1, <4>2, <2>1, <2>2
      <4>3. CASE i # 1
        <5>1. i - 1 \in DOMAIN down'[c] /\ down'[c][i - 1] = m
          BY <4>1, <4>3, <2>1, <2>2
        <5>2. QED
          BY <5>1
      <4>4. QED
        BY <4>2, <4>3
    <3>3. QED
      BY <3>1, <3>2
  <2>4. ASSUME NEW x, cur \in Conns, down' = [down EXCEPT ![cur] = Append(@, x)]
        PROVE  \E k \in DOMAIN down'[c] : down'[c][k] = m
    <3>1. down'[c] = down[c] \/ down'[c] = Append(down[c], x)
      BY <2>4, <1>1 DEF DownTypes
    <3>2. i \in DOMAIN down'[c] /\ down'[c][i] = m
      BY <3>1, <2>1, <2>2
    <3>3. QED
      BY <3>2
  <2>5. ASSUME NEW r \in Streams, sendLogStreamRequest(r) \/ sendLogStreamStop(r)
        PROVE  UNCHANGED down \/ (cur \in Conns /\ \E x : down' = [down EXCEPT ![cur] = Append(@, x)])
    BY <2>5, ConnIsConn DEF sendLogStreamRequest, sendLogStreamStop, SendToAgent
  <2>6. \/ \E r \in Streams : sendLogStreamRequest(r) \/ sendLogStreamStop(r)
        \/ \E d \in Conns : startRecvLoop(d)
        \/ UNCHANGED down
    BY <1>5 DEF Next, vars, handleCreatePath, handleDeletePath, handleTailLog, streamChunk,
       reportOverflow, endStream, StartTail, readNewData, statLog, deliverLogChunk, handleLogStreamRequest,
       handleLogStreamStop, WriteLog, RotateLog, TruncateLog, Connect, HubClose
  <2>7. QED
    BY <2>1, <2>3, <2>4, <2>5, <2>6
<1>8. QED
  BY <1>2, <1>6, <1>7

LEMMA WantedNext == LogInv /\ [Next]_vars /\ TypeOK' /\ StartsAreSent' => TailIsWanted'
<1> SUFFICES ASSUME LogInv, [Next]_vars, TypeOK', StartsAreSent', NEW s \in sessions' PROVE Wanted(s)'
  BY WantedIsNext
<1> TypeOK
  BY DEF LogInv
<1>1. /\ StreamTypes /\ StartsAreSent /\ NoConnNoTail
      /\ \A r \in sessions : Wanted(r)
  BY TypeParts, WantedIs DEF LogInv
<1>2. s \in Streams
  BY DEF TypeOK
<1>3. SUFFICES ASSUME phase'[s] = "done", cur' = aconn', s \notin stray' PROVE StopComing(s)'
  BY DEF Wanted
<1>4. ~Disconnect
  BY DEF Disconnect
<1>5. stray \subseteq stray'
  BY SessionSteps, <1>4 DEF handleLogStreamRequest, handleLogStreamStop
<1>6. CASE s \notin sessions
  <2>1. PICK g \in gor : handleLogStreamRequest(g) /\ s = g[2].id
    BY <1>6, <1>4, SessionSteps DEF handleLogStreamRequest, handleLogStreamStop
  <2>2. ~Stopped(s) /\ UNCHANGED <<phase, down>> /\ gor' = gor \ {g} /\ g[2].op = "start"
    BY <2>1, <1>3, <1>6 DEF handleLogStreamRequest, hub
  <2>3. PICK c \in Conns : \/ <<c, [op |-> "stop", id |-> s]>> \in gor
                           \/ \E i \in DOMAIN down[c] : down[c][i] = [op |-> "stop", id |-> s]
    BY <2>2, <1>3 DEF Stopped
  <2>4. <<c, [op |-> "stop", id |-> s]>> # g
    BY <2>2
  <2>5. QED
    BY <2>2, <2>3, <2>4 DEF StopComing
<1>7. CASE s \in sessions
  <2>1. Started(s) /\ Wanted(s) /\ s \notin stray
    BY <1>7, <1>1, <1>3, <1>5 DEF StartsAreSent
  <2>2. aconn # NoConn
    BY <1>7, <2>1, <1>1 DEF NoConnNoTail
  <2>3. cur = aconn
    <3>1. CASE UNCHANGED <<cur, aconn>>
      BY <3>1, <1>3
    <3>2. CASE Connect
      BY <3>2, <2>2 DEF Connect
    <3>3. CASE HubClose
      BY <3>3, <2>2, <1>3 DEF HubClose
    <3>4. QED
      BY <3>1, <3>2, <3>3, <1>4 DEF Next, vars, net, handleCreatePath, handleDeletePath, handleTailLog,
         sendLogStreamRequest, streamChunk, reportOverflow, endStream, sendLogStreamStop, StartTail,
         readNewData, statLog, startRecvLoop, deliverLogChunk, handleLogStreamRequest, handleLogStreamStop,
         WriteLog, RotateLog, TruncateLog
  <2>4. CASE StopComing(s)
    BY <2>4, <1>7, StopStays
  <2>5. CASE phase[s] # "done"
    <3>1. sendLogStreamStop(s)
      <4>1. ASSUME NEW r \in Streams, HubStep(r) PROVE sendLogStreamStop(s)
        BY <4>1, <2>5, <2>1, <1>3, <1>2, <1>1 DEF HubStep, handleTailLog, sendLogStreamRequest, streamChunk,
           reportOverflow, endStream, SendToAgent, Started, StreamTypes, sendLogStreamStop
      <4>2. ~UNCHANGED phase
        BY <2>5, <1>3
      <4>3. QED
        BY <4>1, <4>2, HubSteps DEF deliverLogChunk, hub
    <3> DEFINE m == [op |-> "stop", id |-> s]
    <3>2. down' = [down EXCEPT ![cur] = Append(@, m)] /\ cur \in Conns
      BY <3>1, <2>2, <2>3, ConnIsConn DEF sendLogStreamStop, SendToAgent
    <3>3. m \in Messages
      BY <1>2 DEF Messages, Stops
    <3>4. down[cur] \in Seq(Messages) /\ down'[cur] = Append(down[cur], m)
      <4> HIDE DEF m
      <4> QED
        BY <3>2, TypeParts DEF DownTypes
    <3>5. PICK c \in Conns : c = cur
      BY <3>2
    <3>6. Len(down[c]) + 1 \in DOMAIN down'[c] /\ down'[c][Len(down[c]) + 1] = m
      <4> HIDE DEF m
      <4> QED
        BY <3>3, <3>4, <3>5
    <3>7. QED
      BY <3>6 DEF StopComing
  <2>6. QED
    BY <2>1, <2>3, <2>4, <2>5 DEF Wanted
<1>8. QED
  BY <1>6, <1>7

-----------------------------------------------------------------------------
(* The counts of slots and the streams. *)

LEMMA HeldFinite == \A u : IsFiniteSet(Held(u)) /\ Cardinality(Held(u)) \in Nat
<1> TAKE u
<1>1. Held(u) \subseteq Streams
  BY DEF Held
<1>2. QED
  BY <1>1, ConstantTypes, FS_Subset, FS_CardinalityType

(* A stream ends and gives its slot back. *)
LEMMA SlotReleased ==
  ASSUME TypeOK, SlotsMatchStreams, NEW s \in Streams, Holds(s), who[s] # None,
         releaseLogTailSlot(who[s][1]),
         ~Holds(s)', \A r \in Streams \ {s} : UNCHANGED <<phase[r], who[r]>>
  PROVE  SlotsMatchStreams'
<1>1. PICK u \in Users : u = who[s][1]
  BY TypeParts DEF StreamTypes
<1>2. slots \in [Users -> 0 .. MaxAgentStreams] /\ \A w \in Users : slots[w] = Cardinality(Held(w))
  BY DEF TypeOK, SlotsMatchStreams, Held
<1>3. Held(u)' = Held(u) \ {s} /\ s \in Held(u)
  BY <1>1 DEF Held, Holds
<1>4. \A w \in Users \ {u} : Held(w)' = Held(w)
  BY <1>1 DEF Held, Holds
<1>5. Cardinality(Held(u)') = Cardinality(Held(u)) - 1 /\ Cardinality(Held(u)') \in Nat
  <2>1. IsFiniteSet(Held(u)) /\ IsFiniteSet(Held(u)')
    BY <1>3, HeldFinite, FS_Subset
  <2>2. QED
    BY <2>1, <1>3, FS_RemoveElement, FS_CardinalityType
<1>6. slots'[u] = Cardinality(Held(u)') /\ \A w \in Users \ {u} : slots'[w] = slots[w]
  BY <1>1, <1>2, <1>5, HeldFinite DEF releaseLogTailSlot
<1>7. \A w \in Users : slots'[w] = Cardinality(Held(w)')
  BY <1>2, <1>4, <1>6
<1>8. QED
  BY <1>7 DEF SlotsMatchStreams, Held

(* A step that ends no stream and begins none. *)
LEMMA SlotsKept ==
  ASSUME SlotsMatchStreams, UNCHANGED slots,
         \A r \in Streams : Holds(r)' <=> Holds(r),
         \A r \in Streams : Holds(r) => who'[r] = who[r]
  PROVE  SlotsMatchStreams'
<1>1. \A u : Held(u)' = Held(u)
  BY DEF Held
<1>2. QED
  BY <1>1 DEF SlotsMatchStreams, Held

LEMMA SlotsNext == LogInv /\ [Next]_vars => SlotsMatchStreams'
<1> SUFFICES ASSUME LogInv, [Next]_vars PROVE SlotsMatchStreams'
  OBVIOUS
<1>1. TypeOK /\ StreamTypes /\ SlotsMatchStreams /\ HolderIsKnown
  BY TypeParts DEF LogInv
<1>2. ASSUME NEW s \in Streams, HubStep(s) PROVE SlotsMatchStreams'
  <2>1. ASSUME NEW u \in Users, NEW p \in Paths, handleTailLog(s, u, p) PROVE SlotsMatchStreams'
    <3>1. CASE checkFileAccess(u, p) /\ cur # NoConn /\ tryAcquireLogTailSlot(u)
      <4>1. /\ slots' = [slots EXCEPT ![u] = @ + 1] /\ phase[s] = "idle"
            /\ phase' = [phase EXCEPT ![s] = "acquired"] /\ who' = [who EXCEPT ![s] = <<u, p>>]
        BY <3>1, <2>1 DEF handleTailLog
      <4>2. Held(u)' = Held(u) \cup {s} /\ s \notin Held(u)
        BY <4>1, <1>1 DEF Held, Holds, StreamTypes
      <4>3. \A w \in Users \ {u} : Held(w)' = Held(w)
        BY <4>1, <1>1 DEF Held, Holds, StreamTypes
      <4>4. Cardinality(Held(u)') = Cardinality(Held(u)) + 1
        BY <4>2, HeldFinite, FS_AddElement
      <4>5. slots \in [Users -> 0 .. MaxAgentStreams] /\ \A w \in Users : slots[w] = Cardinality(Held(w))
        BY <1>1 DEF TypeOK, SlotsMatchStreams, Held
      <4>6. \A w \in Users : slots'[w] = Cardinality(Held(w)')
        BY <4>1, <4>3, <4>4, <4>5
      <4>7. QED
        BY <4>6 DEF SlotsMatchStreams, Held
    <3>2. CASE ~(checkFileAccess(u, p) /\ cur # NoConn /\ tryAcquireLogTailSlot(u))
      <4>1. UNCHANGED <<who, slots>> /\ phase[s] = "idle" /\ phase' = [phase EXCEPT ![s] = "done"]
        BY <3>2, <2>1 DEF handleTailLog
      <4>2. QED
        BY <4>1, <1>1, SlotsKept DEF Holds, StreamTypes
    <3>3. QED
      BY <3>1, <3>2
  <2>2. CASE sendLogStreamRequest(s)
    <3>1. CASE UNCHANGED slots /\ phase' = [phase EXCEPT ![s] = "loop"] /\ UNCHANGED who
      BY <3>1, <2>2, <1>1, SlotsKept DEF Holds, StreamTypes, sendLogStreamRequest
    <3>2. CASE /\ releaseLogTailSlot(who[s][1]) /\ phase' = [phase EXCEPT ![s] = "done"]
               /\ who' = [who EXCEPT ![s] = None]
      <4>1. /\ ~Holds(s)' /\ \A r \in Streams \ {s} : UNCHANGED <<phase[r], who[r]>>
            /\ Holds(s) /\ who[s] # None
        BY <3>2, <2>2, <1>1 DEF Holds, StreamTypes, sendLogStreamRequest, HolderIsKnown
      <4>2. QED
        BY <4>1, <3>2, <1>1, SlotReleased
    <3>3. QED
      BY <2>2, <3>1, <3>2 DEF sendLogStreamRequest, SendToAgent
  <2>3. CASE streamChunk(s)
    BY <2>3, <1>1, SlotsKept DEF streamChunk, Holds, StreamTypes
  <2>4. CASE reportOverflow(s)
    BY <2>4, <1>1, SlotsKept DEF reportOverflow, Holds, StreamTypes
  <2>5. CASE endStream(s)
    <3>1. /\ ~Holds(s)' /\ \A r \in Streams \ {s} : UNCHANGED <<phase[r], who[r]>>
          /\ Holds(s) /\ who[s] # None
      BY <2>5, <1>1 DEF Holds, StreamTypes, endStream, HolderIsKnown
    <3>2. QED
      BY <3>1, <2>5, <1>1, SlotReleased DEF endStream
  <2>6. CASE sendLogStreamStop(s)
    BY <2>6, <1>1, SlotsKept DEF sendLogStreamStop, Holds, StreamTypes
  <2>7. QED
    BY <2>1, <2>2, <2>3, <2>4, <2>5, <2>6, <1>2 DEF HubStep
<1>3. ASSUME UNCHANGED <<phase, who, slots>> PROVE SlotsMatchStreams'
  BY <1>3, <1>1 DEF SlotsMatchStreams, Holds
<1>4. QED
  BY <1>2, <1>3, HubSteps DEF deliverLogChunk, hub

-----------------------------------------------------------------------------
LEMMA InitInv == Init => LogInv
<1> SUFFICES ASSUME Init PROVE LogInv
  OBVIOUS
<1>1. StartsAreSent /\ NoConnNoTail
  BY DEF Init, StartsAreSent, NoConnNoTail
<1>2. HolderIsKnown
  BY DEF Init, HolderIsKnown, Holds
<1>3. LossIsCounted
  BY DEF Init, LossIsCounted
<1>4. SentIsRead
  BY DEF Init, SentIsRead
<1>5. SlotsMatchStreams
  <2>1. \A u \in Users : Held(u) = {} /\ slots[u] = 0
    BY DEF Init, Held, Holds
  <2>2. QED
    BY <2>1, FS_EmptySet DEF SlotsMatchStreams, Held
<1>6. TailIsWanted
  BY DEF Init, TailIsWanted
<1>7. QED
  BY <1>1, <1>2, <1>3, <1>4, <1>5, <1>6, InitTypes DEF LogInv

LEMMA InvNext == LogInv /\ [Next]_vars => LogInv'
  BY TypeNext, StartsNext, NoConnNext, HolderNext, LossNext, SentNext, SlotsNext, WantedNext DEF LogInv

LEMMA InvHolds == Spec => []LogInv
<1>1. QED
  BY InitInv, InvNext, PTL DEF Spec

(* Every variable keeps its type; the agent has no more tail sessions than *)
(* its limit, and all users together no more slots than the hub's limit    *)
(* for a server (client.go handleLogStreamRequest, handlers_logs.go        *)
(* tryAcquireLogTailSlot).                                                 *)
THEOREM Types == Spec => []TypeOK
<1>1. LogInv => TypeOK
  BY DEF LogInv
<1>2. QED
  BY <1>1, InvHolds, PTL

(* However handlers start, fail and end, the count of a user's slots is    *)
(* the number of the user's streams (handlers_logs.go handleTailLog,       *)
(* releaseLogTailSlot).                                                    *)
THEOREM SlotsAreStreams == Spec => []SlotsMatchStreams
<1>1. LogInv => SlotsMatchStreams
  BY DEF LogInv
<1>2. QED
  BY <1>1, InvHolds, PTL

(* Whatever the capacity of the channel and whenever chunks come in, a     *)
(* client that has read its channel empty has been told of every chunk it  *)
(* lost (logsessions.go Deliver, DrainOverflow).                           *)
THEOREM LossReported == Spec => []LossIsReported
<1>1. LogInv => LossIsReported
  <2> SUFFICES ASSUME LogInv, NEW s \in Streams, phase[s] = "loop", chan[s] = 0 PROVE told[s] = lost[s]
    BY DEF LossIsReported
  <2>1. overflow[s] \in Nat /\ told[s] \in Nat /\ ChanCap \in Nat \ {0}
    BY ConstantTypes, TypeParts DEF LogInv, ChanTypes
  <2>2. lost[s] = told[s] + overflow[s] /\ ~(overflow[s] > 0)
    BY <2>1 DEF LogInv, LossIsCounted
  <2>3. QED
    BY <2>1, <2>2
<1>2. QED
  BY <1>1, InvHolds, PTL

(* A tail the agent runs over the hub's own connection is watched or its   *)
(* stop is on the way, for any number of connections and any order in      *)
(* which the agent handles starts and stops (client.go                     *)
(* handleLogStreamRequest, handleLogStreamStop).                           *)
THEOREM TailsAreWanted == Spec => []TailIsWanted
<1>1. LogInv => TailIsWanted
  BY DEF LogInv
<1>2. QED
  BY <1>1, InvHolds, PTL

(* No part of a file is sent twice, however often the file grows, is       *)
(* renamed and is truncated between two polls or within one, unless it     *)
(* changed between the Stat and the read of a poll that began the file     *)
(* again (tailer.go readNewData).                                          *)
THEOREM NothingSentTwice == Spec => []NothingTwice
<1>1. LogInv => NothingTwice
  <2> SUFFICES ASSUME LogInv, NEW s \in Streams, NEW t, t = tails[s], t # None, ~t.torn
               PROVE  /\ t.sent.gen = t.gen => t.off >= t.sent.to
                      /\ t.off > size[Len(size)] => t.sent.gen # Len(size)
    BY DEF NothingTwice
  <2>1. Behind(t)
    BY DEF LogInv, SentIsRead
  <2>2. t.off \in Nat /\ t.sent.to \in Nat /\ t.sent.gen \in Nat /\ t.gen \in Nat
    <3>1. t \in Tails
      BY DEF LogInv, TypeOK
    <3>2. QED
      BY <3>1, ConstantTypes DEF Tails
  <2>3. Len(size) \in Nat \ {0} /\ size[Len(size)] \in Nat
    <3>1. size \in Seq(0 .. MaxSize) /\ Len(size) \in 1 .. Len(size) /\ Len(size) \in Nat
      BY DEF LogInv, TypeOK
    <3>2. size[Len(size)] \in 0 .. MaxSize /\ MaxSize \in Nat
      BY <3>1, ElementOfSeq, ConstantTypes
    <3>3. QED
      BY <3>1, <3>2
  <2>4. QED
    BY <2>1, <2>2, <2>3 DEF Behind
<1>2. QED
  BY <1>1, InvHolds, PTL
=============================================================================
