--------------------------- MODULE AuditLogProofs ---------------------------
(***************************************************************************)
(* Proofs about AuditLog, for any number of requests at the same time, of  *)
(* users and of failures, and for any retention: type correctness, the     *)
(* chain does not fork, the observers hear of every outage once, a lost    *)
(* entry raises the alarm, and retention spares the recent days.           *)
(*                                                                         *)
(* Only the last is inductive.  A fork would be prepared when a hash is    *)
(* read and made when the entry is inserted; an observer is told several   *)
(* steps after the flag changed, and by then others may have changed it    *)
(* again.  IInv says what is true in between.                              *)
(***************************************************************************)
EXTENDS AuditLog, FiniteSetTheorems, TLAPS

\* Whoever reads the last hash or inserts holds the write lock.
Holder == \A r \in Reqs : At(r, "prev") \/ At(r, "insert") => lock = r

\* Ids grow along the chain, and what the holder of the lock has read is still
\* the newest entry.
Chain ==
    /\ \A e \in rows : e.id <= logged /\ e.hash.prev < e.id
    /\ \A e, f \in rows : e.id < f.id => e.id <= f.hash.prev
    /\ \A r \in Reqs : At(r, "insert") =>
         req[r].prev <= logged /\ \A e \in rows : e.id <= req[r].prev

\* A lost entry is counted, or about to be.
Marked == unlogged /\ ~cut => config.count > 0 \/ unsaved \/ \E r \in Reqs : Uncounted(r)

\* The observer was called, or is about to be, or never will.
Raised == alarmed \/ cut \/ \E r \in Reqs : WillFail(r)

\* A flag that is set, in memory, in _config or as a request saw it, was set by
\* someone who calls the observer; and a lost entry leads to such a flag.
WasDown(r) == (At(r, "failRead") \/ At(r, "failCount") \/ At(r, "failFlag")) /\ req[r].was
Alarm ==
    \/ Raised
    \/ /\ ~degraded /\ ~config.degraded
       /\ \A r \in Reqs : ~WasDown(r)
       /\ unlogged => \E r \in Reqs : At(r, "failMem")

Failing == {r \in Reqs : WillFail(r)}
Recovering == {r \in Reqs : WillRecover(r)}

\* The observers' view, the news under way and the flag in memory agree.
Balance == notices + Cardinality(Failing) - Cardinality(Recovering) = IF degraded THEN 1 ELSE 0
Told == ~misled => Balance

IInv == TypeOK /\ Holder /\ Chain /\ Marked /\ Alarm /\ Told /\ RetentionKeepsRecent

-----------------------------------------------------------------------------
(* Requests                                                                *)

\* All requests but one stay where they are.
Others(r) == \A s \in Reqs \ {r} : req'[s] = req[s]

\* A request goes to its next step.
LEMMA Move ==
    ASSUME TypeOK, NEW r \in Reqs, req[r] # None, NEW pc \in Steps, GoTo(r, pc)
    PROVE  /\ req' \in [Reqs -> Request \cup {None}]
           /\ req'[r] \in Request /\ req'[r] # None
           /\ req'[r] = [req[r] EXCEPT !.pc = pc] /\ req[r] \in Request
           /\ req'[r].pc = pc /\ req'[r].was = req[r].was /\ req'[r].prev = req[r].prev
           /\ Others(r)
<1>1. req \in [Reqs -> Request \cup {None}] /\ req[r] \in Request
  BY DEF TypeOK
<1>2. req' = [req EXCEPT ![r] = [req[r] EXCEPT !.pc = pc]]
  BY DEF GoTo
<1>3. [req[r] EXCEPT !.pc = pc] \in Request
  BY <1>1 DEF Request
<1>4. req'[r] = [req[r] EXCEPT !.pc = pc]
  BY <1>1, <1>2
<1>5. req'[r].pc = pc /\ req'[r].was = req[r].was /\ req'[r].prev = req[r].prev
  BY <1>1, <1>4 DEF Request
<1>6. req'[r] # None
  BY <1>3, <1>4, AuditAssumption
<1> QED
  BY <1>1, <1>2, <1>3, <1>4, <1>5, <1>6 DEF Others

\* A request is answered.
LEMMA Leave ==
    ASSUME TypeOK, NEW r \in Reqs, Finish(r)
    PROVE  /\ req' \in [Reqs -> Request \cup {None}]
           /\ req'[r] = None /\ Others(r)
  BY DEF TypeOK, Finish, Others

\* A request reads or notes something on its way.
LEMMA Note ==
    ASSUME TypeOK, NEW r \in Reqs, req[r] # None, NEW v \in Request,
           req' = [req EXCEPT ![r] = v]
    PROVE  /\ req' \in [Reqs -> Request \cup {None}]
           /\ req'[r] = v /\ req'[r] # None /\ Others(r)
<1>1. v # None
  BY AuditAssumption
<1> QED
  BY <1>1 DEF TypeOK, Others

\* Steps that neither note an outage nor tell of one leave the balance alone.
LEMMA BalanceStays ==
    ASSUME NEW r \in Reqs, Others(r), Told,
           WillFail(r)' <=> WillFail(r), WillRecover(r)' <=> WillRecover(r),
           UNCHANGED <<notices, degraded, misled>>
    PROVE  Told'
<1>1. \A s \in Reqs : (WillFail(s)' <=> WillFail(s)) /\ (WillRecover(s)' <=> WillRecover(s))
  BY DEF Others, WillFail, WillRecover, At
<1>2. Failing' = Failing /\ Recovering' = Recovering
  BY <1>1 DEF Failing, Recovering
<1> QED
  BY <1>2 DEF Told, Balance

\* A request whose failure is counted already, or that has none.
LEMMA MarkStays ==
    ASSUME NEW r \in Reqs, Others(r), Marked,
           Uncounted(r) => Uncounted(r)',
           UNCHANGED <<unlogged, unsaved, cut>>, config'.count = config.count
    PROVE  Marked'
  BY DEF Marked, Uncounted, Others, At

\* The call of the observer stays in prospect...
LEMMA RaisedStays ==
    ASSUME NEW r \in Reqs, Others(r), Raised, UNCHANGED <<alarmed, cut>>,
           WillFail(r) => WillFail(r)'
    PROVE  Raised'
  BY DEF Raised, WillFail, Others, At

\* ... and steps that note no failure need none.
LEMMA AlarmStays ==
    ASSUME NEW r \in Reqs, Others(r), Alarm, UNCHANGED <<unlogged, alarmed, cut>>,
           degraded' => degraded, config'.degraded => config.degraded,
           WillFail(r) => WillFail(r)', WasDown(r)' => WasDown(r),
           At(r, "failMem") => At(r, "failMem")'
    PROVE  Alarm'
<1>1. CASE Raised
  BY <1>1, RaisedStays DEF Alarm
<1>2. CASE ~Raised
  <2>1. \A s \in Reqs : (WasDown(s)' => WasDown(s)) /\ (At(s, "failMem") => At(s, "failMem")')
    BY DEF WasDown, Others, At
  <2> QED
    BY <1>2, <2>1 DEF Alarm
<1> QED
  BY <1>1, <1>2

\* A request that has just lost its entry will note that.
LEMMA AlarmLost ==
    ASSUME NEW r \in Reqs, Others(r), Alarm, UNCHANGED <<alarmed, cut, degraded, config>>,
           ~WillFail(r), ~WasDown(r)', At(r, "failMem")'
    PROVE  Alarm'
<1>1. CASE Raised
  BY <1>1, RaisedStays DEF Alarm
<1>2. CASE ~Raised
  <2>1. \A s \in Reqs : WasDown(s)' => WasDown(s)
    BY DEF WasDown, Others, At
  <2> QED
    BY <1>2, <2>1 DEF Alarm
<1> QED
  BY <1>1, <1>2

\* What is said of the lock when nobody but one moves.
LEMMA HolderStays ==
    ASSUME NEW r \in Reqs, Others(r), Holder,
           At(r, "prev")' \/ At(r, "insert")' => lock' = r,
           lock' = lock \/ lock = None \/ lock = r
    PROVE  Holder'
<1> SUFFICES ASSUME NEW s \in Reqs, (At(s, "prev") \/ At(s, "insert"))'
             PROVE  lock' = s
  BY DEF Holder
<1>1. CASE s = r
  BY <1>1
<1>2. CASE s # r
  <2>1. At(s, "prev") \/ At(s, "insert")
    BY <1>2 DEF Others, At
  <2>2. lock = s
    BY <2>1 DEF Holder
  <2>3. s # None
    BY AuditAssumption
  <2> QED
    BY <1>2, <2>2, <2>3
<1> QED
  BY <1>1, <1>2

\* What is said of the chain when entries are only deleted or made anonymous
\* and nobody begins to insert.
LEMMA ChainStays ==
    ASSUME TypeOK, Chain, logged' = logged,
           \A e \in rows' : \E f \in rows : e.id = f.id /\ e.hash = f.hash,
           \A s \in Reqs : At(s, "insert")' => At(s, "insert") /\ req'[s].prev = req[s].prev
    PROVE  Chain'
<1>1. \A e \in rows' : e.id <= logged /\ e.hash.prev < e.id
  BY DEF Chain
<1>2. \A e, f \in rows' : e.id < f.id => e.id <= f.hash.prev
  <2> SUFFICES ASSUME NEW e \in rows', NEW f \in rows', e.id < f.id PROVE e.id <= f.hash.prev
    OBVIOUS
  <2>1. PICK x \in rows : e.id = x.id
    OBVIOUS
  <2>2. PICK y \in rows : f.id = y.id /\ f.hash = y.hash
    OBVIOUS
  <2> QED
    BY <2>1, <2>2 DEF Chain
<1>3. \A r \in Reqs : At(r, "insert")' =>
         req'[r].prev <= logged /\ \A e \in rows' : e.id <= req'[r].prev
  BY DEF Chain
<1> QED
  BY <1>1, <1>2, <1>3 DEF Chain

-----------------------------------------------------------------------------
(* The steps before LogAudit                                               *)

LEMMA InitHolds == Init => IInv
<1> SUFFICES ASSUME Init PROVE IInv
  OBVIOUS
<1>1. \A r \in Reqs : req[r] = None
  BY DEF Init
<1>2. TypeOK
  <2>1. req \in [Reqs -> Request \cup {None}] /\ config \in [degraded: BOOLEAN, count: Nat]
    BY DEF Init
  <2>2. now \in 0..MaxTime /\ rows = {} /\ workflow = {} /\ retired = {} /\ users = Users /\ lock = None
    BY AuditAssumption DEF Init
  <2>3. /\ degraded \in BOOLEAN /\ unlogged \in BOOLEAN /\ alarmed \in BOOLEAN
        /\ unsaved \in BOOLEAN /\ misled \in BOOLEAN /\ cut \in BOOLEAN
    BY Zenon DEF Init
  <2>4. started \in Nat /\ logged \in Nat /\ notices \in Int
    BY DEF Init
  <2> QED
    BY <2>1, <2>2, <2>3, <2>4 DEF TypeOK
<1>3. Holder /\ Chain /\ Marked /\ Alarm /\ RetentionKeepsRecent
  BY <1>1 DEF Init, Holder, Chain, Marked, Alarm, WasDown, RetentionKeepsRecent, At
<1>4. Failing = {} /\ Recovering = {}
  BY <1>1 DEF Failing, Recovering, WillFail, WillRecover, At
<1>5. Told
  BY <1>4, FS_EmptySet DEF Told, Balance, Init
<1> QED
  BY <1>2, <1>3, <1>5 DEF IInv

\* A request that is at rest before and after a step, in the sense of IInv.
Quiet(r) == req[r] = None \/ req[r].pc \in {"change", "begin"}

\* A step of a quiet request that stays quiet, with what it may change.
LEMMA QuietHolds ==
    ASSUME IInv, TypeOK', NEW r \in Reqs, Others(r), Quiet(r), Quiet(r)',
           UNCHANGED <<lock, logged, degraded, config, notices, unlogged, alarmed, unsaved, misled, cut>>,
           \A e \in rows' : \E f \in rows : e.id = f.id /\ e.hash = f.hash,
           RetentionKeepsRecent'
    PROVE  IInv'
<1> USE DEF IInv
<1>1. Holder'
  BY HolderStays DEF Quiet, At
<1>2. \A s \in Reqs : At(s, "insert")' => At(s, "insert") /\ req'[s].prev = req[s].prev
  BY DEF Quiet, At, Others
<1>3. Chain'
  BY <1>2, ChainStays
<1>4. Marked'
  BY MarkStays DEF Quiet, Uncounted, At
<1>5. Told'
  BY BalanceStays DEF Quiet, WillFail, WillRecover, At
<1>6. Alarm'
  BY AlarmStays DEF Quiet, WillFail, WasDown, At
<1> QED
  BY <1>1, <1>3, <1>4, <1>5, <1>6

LEMMA StartHolds ==
    ASSUME IInv, NEW r \in Reqs, NEW u \in Users \cup {None}, NEW a \in Actions, Start(r, u, a)
    PROVE  IInv'
<1> DEFINE v == [pc |-> IF a \in {"login_failed", "exported"} THEN "begin" ELSE "change",
                 user |-> u, action |-> a, prev |-> 0, was |-> FALSE, count |-> 0]
<1>1. v \in Request /\ v.pc \in {"change", "begin"}
  BY DEF Request, Steps
<1>2. req[r] = None /\ req' = [req EXCEPT ![r] = v] /\ started' = started + 1
  BY DEF Start
<1>3. UNCHANGED <<now, users, rows, workflow, lock, logged, degraded, config, notices,
                  unlogged, alarmed, unsaved, misled, cut, retired>>
  BY DEF Start
<1> HIDE DEF v
<1>4. TypeOK'
  BY <1>1, <1>2, <1>3 DEF IInv, TypeOK
<1>5. Others(r) /\ Quiet(r) /\ Quiet(r)'
  BY <1>1, <1>2 DEF IInv, TypeOK, Others, Quiet
<1>6. RetentionKeepsRecent'
  BY <1>3 DEF IInv, RetentionKeepsRecent
<1> QED
  BY <1>3, <1>4, <1>5, <1>6, QuietHolds

LEMMA CreateItemHolds ==
    ASSUME IInv, NEW r \in Reqs, CreateItem(r)
    PROVE  IInv'
<1>1. /\ req[r] # None /\ req[r].pc = "change" /\ req[r].action \in Kinds
      /\ UNCHANGED <<now, users, rows, lock, started, logged, degraded, config, notices,
                     unlogged, alarmed, unsaved, misled, cut, retired>>
  BY DEF CreateItem, At
<1>2. "begin" \in Steps
  BY DEF Steps
<1>3. RetentionKeepsRecent'
  BY <1>1 DEF IInv, RetentionKeepsRecent
<1>4. CASE /\ req[r].user \in users
           /\ workflow' = workflow \cup {[kind |-> req[r].action, by |-> req[r].user, id |-> started]}
           /\ GoTo(r, "begin")
  <2>1. /\ req' \in [Reqs -> Request \cup {None}] /\ req'[r].pc = "begin" /\ Others(r)
    BY <1>1, <1>2, <1>4, Move DEF IInv
  <2>2. workflow' \subseteq Item
    BY <1>1, <1>4 DEF IInv, TypeOK, Item
  <2>3. TypeOK'
    BY <1>1, <2>1, <2>2 DEF IInv, TypeOK
  <2>4. Quiet(r) /\ Quiet(r)'
    BY <1>1, <2>1 DEF Quiet
  <2> QED
    BY <1>1, <1>3, <2>1, <2>3, <2>4, QuietHolds
<1>5. CASE Finish(r) /\ UNCHANGED workflow
  <2>1. /\ req' \in [Reqs -> Request \cup {None}] /\ req'[r] = None /\ Others(r)
    BY <1>5, Leave DEF IInv
  <2>2. TypeOK'
    BY <1>1, <1>5, <2>1 DEF IInv, TypeOK
  <2>3. Quiet(r) /\ Quiet(r)'
    BY <1>1, <2>1 DEF Quiet
  <2> QED
    BY <1>1, <1>3, <2>1, <2>2, <2>3, QuietHolds
<1> QED
  BY <1>4, <1>5 DEF CreateItem

LEMMA DeleteFilterHolds ==
    ASSUME IInv, NEW r \in Reqs, DeleteFilter(r)
    PROVE  IInv'
<1>1. /\ req[r] # None /\ req[r].pc = "change" /\ GoTo(r, "begin")
      /\ workflow' \subseteq workflow
      /\ UNCHANGED <<now, users, rows, lock, started, logged, degraded, config, notices,
                     unlogged, alarmed, unsaved, misled, cut, retired>>
  BY DEF DeleteFilter, At
<1>2. "begin" \in Steps
  BY DEF Steps
<1>3. req' \in [Reqs -> Request \cup {None}] /\ req'[r].pc = "begin" /\ Others(r)
  BY <1>1, <1>2, Move DEF IInv
<1>4. TypeOK'
  BY <1>1, <1>3 DEF IInv, TypeOK
<1>5. Quiet(r) /\ Quiet(r)'
  BY <1>1, <1>3 DEF Quiet
<1>6. RetentionKeepsRecent'
  BY <1>1 DEF IInv, RetentionKeepsRecent
<1> QED
  BY <1>1, <1>3, <1>4, <1>5, <1>6, QuietHolds

-----------------------------------------------------------------------------
(* Retention and deleted users                                             *)

\* Integer division by the hours of a day.
LEMMA Quotient ==
    ASSUME NEW p \in Nat \ {0}, NEW a \in Nat
    PROVE  /\ a \div p \in Nat
           /\ p * (a \div p) <= a
           /\ a < p * (a \div p) + p
  BY SMT

\* What has expired is older than a day less than the retention, although only
\* the days are compared.
LEMMA ExpiredIsOld ==
    ASSUME NEW at \in Nat, now \in Nat, Expired(at)
    PROVE  now - at > (Retention - 1) * HoursPerDay
<1> DEFINE h == HoursPerDay
           k == Retention * h
           x == at \div h
           y == (now - k) \div h
<1>1. h \in Nat \ {0} /\ Retention \in Nat \ {0}
  BY AuditAssumption
<1>2. k \in Nat /\ (Retention - 1) * h = k - h
  BY <1>1, SMT
<1>3. now >= k /\ x <= y
  BY DEF Expired, Before, Day
<1>4. now - k \in Nat
  BY <1>2, <1>3
<1>5. x \in Nat /\ at < h * x + h
  BY <1>1, Quotient
<1>6. y \in Nat /\ h * y <= now - k
  BY <1>1, <1>4, Quotient
<1> HIDE DEF h, k, x, y
<1>7. h * x <= h * y /\ h * x \in Nat /\ h * y \in Nat
  BY <1>1, <1>3, <1>5, <1>6, SMT
<1>8. now - at > k - h
  BY <1>1, <1>2, <1>4, <1>5, <1>6, <1>7
<1> QED
  BY <1>2, <1>8 DEF h

LEMMA RunRetentionHolds ==
    ASSUME IInv, NEW r \in Reqs, RunRetention(r)
    PROVE  IInv'
<1>1. /\ req[r] # None /\ req[r].pc = "change" /\ GoTo(r, "begin")
      /\ rows' \in {rows, {e \in rows : ~Expired(e.at)}}
      /\ retired' = retired \cup {[at |-> e.at, run |-> now] : e \in rows \ rows'}
      /\ UNCHANGED <<now, users, workflow, lock, started, logged, degraded, config, notices,
                     unlogged, alarmed, unsaved, misled, cut>>
  BY DEF RunRetention, At
<1>2. "begin" \in Steps
  BY DEF Steps
<1>3. req' \in [Reqs -> Request \cup {None}] /\ req'[r].pc = "begin" /\ Others(r)
  BY <1>1, <1>2, Move DEF IInv
<1>4. now \in 0..MaxTime /\ \A e \in rows : e.at \in 0..MaxTime
  BY DEF IInv, TypeOK, Row
<1>5. TypeOK'
  <2>1. retired' \subseteq [at: 0..MaxTime, run: 0..MaxTime]
    BY <1>1, <1>4 DEF IInv, TypeOK
  <2> QED
    BY <1>1, <1>3, <2>1 DEF IInv, TypeOK
<1>6. Quiet(r) /\ Quiet(r)'
  BY <1>1, <1>3 DEF Quiet
<1>7. RetentionKeepsRecent'
  <2> SUFFICES ASSUME NEW d \in retired' PROVE d.run - d.at > (Retention - 1) * HoursPerDay
    BY DEF RetentionKeepsRecent
  <2>1. CASE d \in retired
    BY <2>1 DEF IInv, RetentionKeepsRecent
  <2>2. CASE d \notin retired
    <3>1. PICK e \in rows \ rows' : d = [at |-> e.at, run |-> now]
      BY <1>1, <2>2
    <3>2. Expired(e.at)
      BY <1>1, <3>1
    <3>3. e.at \in Nat /\ now \in Nat
      BY <1>4, <3>1, AuditAssumption
    <3> QED
      BY <3>1, <3>2, <3>3, ExpiredIsOld
  <2> QED
    BY <2>1, <2>2
<1>8. \A e \in rows' : \E f \in rows : e.id = f.id /\ e.hash = f.hash
  BY <1>1
<1> QED
  BY <1>1, <1>3, <1>5, <1>6, <1>7, <1>8, QuietHolds

\* Steps of nobody's request: nothing is read or told.
LEMMA AsideHolds ==
    ASSUME IInv, TypeOK', RetentionKeepsRecent',
           UNCHANGED <<lock, req, logged, degraded, config, notices, unlogged, alarmed, unsaved, misled, cut>>,
           \A e \in rows' : \E f \in rows : e.id = f.id /\ e.hash = f.hash
    PROVE  IInv'
<1>1. Holder' /\ Marked' /\ Alarm'
  BY DEF IInv, Holder, Marked, At, Uncounted, Alarm, Raised, WillFail, WasDown
<1>2. Chain'
  BY ChainStays DEF IInv, At
<1>3. Failing' = Failing /\ Recovering' = Recovering
  BY DEF Failing, Recovering, WillFail, WillRecover, At
<1>4. Told'
  BY <1>3 DEF IInv, Told, Balance
<1> QED
  BY <1>1, <1>2, <1>4 DEF IInv

LEMMA UserHolds ==
    ASSUME IInv, NEW u \in Users, DeleteUser(u) \/ DeleteIncomplete(u)
    PROVE  IInv'
<1>1. /\ users' \subseteq users /\ workflow' \subseteq workflow
      /\ UNCHANGED <<now, lock, req, started, logged, degraded, config, notices, unlogged, alarmed, unsaved, misled, cut, retired>>
  BY DEF DeleteUser, DeleteIncomplete
<1>2. RetentionKeepsRecent'
  BY <1>1 DEF IInv, RetentionKeepsRecent
<1>3. \A e \in rows : [e EXCEPT !.user = IF @ = u THEN None ELSE @] \in Row
  BY DEF IInv, TypeOK, Row
<1>4. \A e \in rows : LET f == [e EXCEPT !.user = IF @ = u THEN None ELSE @]
                      IN f.id = e.id /\ f.hash = e.hash
  BY DEF IInv, TypeOK, Row
<1>5. rows' \subseteq Row /\ \A e \in rows' : \E f \in rows : e.id = f.id /\ e.hash = f.hash
  <2>1. CASE DeleteUser(u)
    <3>1. rows' = {[e EXCEPT !.user = IF @ = u THEN None ELSE @] : e \in rows}
      BY <2>1 DEF DeleteUser
    <3> QED
      BY <1>3, <1>4, <3>1
  <2>2. CASE DeleteIncomplete(u)
    <3>1. rows' \subseteq rows
      BY <2>2 DEF DeleteIncomplete
    <3> QED
      BY <3>1 DEF IInv, TypeOK
  <2> QED
    BY <2>1, <2>2
<1>6. TypeOK'
  BY <1>1, <1>5 DEF IInv, TypeOK
<1> QED
  BY <1>1, <1>2, <1>5, <1>6, AsideHolds

LEMMA TickHolds == ASSUME IInv, Tick PROVE IInv'
<1>1. /\ now' \in 0..MaxTime
      /\ UNCHANGED <<users, rows, workflow, lock, req, started, logged, degraded, config,
                     notices, unlogged, alarmed, unsaved, misled, cut, retired>>
  BY AuditAssumption DEF Tick, IInv, TypeOK
<1>2. TypeOK' /\ RetentionKeepsRecent'
  BY <1>1 DEF IInv, TypeOK, RetentionKeepsRecent
<1> QED
  BY <1>1, <1>2, AsideHolds

-----------------------------------------------------------------------------
(* LogAudit                                                                *)

LEMMA BeginHolds == ASSUME IInv, NEW r \in Reqs, Begin(r) PROVE IInv'
<1>1. /\ req[r] # None /\ req[r].pc = "begin" /\ lock = None /\ GoTo(r, "prev") /\ lock' = r
      /\ UNCHANGED <<now, users, rows, workflow, started, logged, degraded, config, notices,
                     unlogged, alarmed, unsaved, misled, cut, retired>>
  BY DEF Begin, BeginImmediate, At
<1>2. "prev" \in Steps
  BY DEF Steps
<1>3. req' \in [Reqs -> Request \cup {None}] /\ req'[r].pc = "prev" /\ Others(r)
  BY <1>1, <1>2, Move DEF IInv
<1>4. TypeOK' /\ RetentionKeepsRecent'
  BY <1>1, <1>3 DEF IInv, TypeOK, RetentionKeepsRecent
<1>5. Holder'
  BY <1>1, <1>3, HolderStays DEF IInv
<1>6. \A s \in Reqs : At(s, "insert")' => At(s, "insert") /\ req'[s].prev = req[s].prev
  BY <1>3 DEF At, Others
<1>7. Chain'
  BY <1>1, <1>6, ChainStays DEF IInv
<1>8. Marked'
  BY <1>1, <1>3, MarkStays DEF IInv, Uncounted, At
<1>9. Told'
  BY <1>1, <1>3, BalanceStays DEF IInv, WillFail, WillRecover, At
<1>10. Alarm'
  BY <1>1, <1>3, AlarmStays DEF IInv, WillFail, WasDown, At
<1> QED
  BY <1>4, <1>5, <1>7, <1>8, <1>9, <1>10 DEF IInv

LEMMA BeginFailsHolds == ASSUME IInv, NEW r \in Reqs, BeginFails(r) PROVE IInv'
<1>1. /\ req[r] # None /\ req[r].pc = "begin" /\ GoTo(r, "failMem") /\ unlogged' = TRUE
      /\ UNCHANGED <<now, users, rows, workflow, lock, started, logged, degraded, config, notices,
                     alarmed, unsaved, misled, cut, retired>>
  BY DEF BeginFails, At
<1>2. "failMem" \in Steps
  BY DEF Steps
<1>3. /\ req' \in [Reqs -> Request \cup {None}] /\ req'[r].pc = "failMem" /\ req'[r] # None
      /\ Others(r)
  BY <1>1, <1>2, Move DEF IInv
<1>4. TypeOK' /\ RetentionKeepsRecent'
  BY <1>1, <1>3 DEF IInv, TypeOK, RetentionKeepsRecent
<1>5. Holder'
  BY <1>1, <1>3, HolderStays DEF IInv, At
<1>6. \A s \in Reqs : At(s, "insert")' => At(s, "insert") /\ req'[s].prev = req[s].prev
  BY <1>3 DEF At, Others
<1>7. Chain'
  BY <1>1, <1>6, ChainStays DEF IInv
<1>8. Marked'
  BY <1>3 DEF Marked, Uncounted, At
<1>9. Told'
  BY <1>1, <1>3, BalanceStays DEF IInv, WillFail, WillRecover, At
<1>10. Alarm'
  BY <1>1, <1>3, AlarmLost DEF IInv, WillFail, WasDown, At
<1> QED
  BY <1>4, <1>5, <1>7, <1>8, <1>9, <1>10 DEF IInv

\* The hash is read under the lock: it is that of the newest entry.
LEMMA ReadPrevHolds == ASSUME IInv, NEW r \in Reqs, ReadPrev(r) PROVE IInv'
<1>1. /\ req[r] # None /\ req[r].pc = "prev"
      /\ UNCHANGED <<now, users, rows, workflow, lock, started, logged, degraded, config, notices,
                     unlogged, alarmed, unsaved, misled, cut, retired>>
  BY DEF ReadPrev, At
<1>2. PICK prev \in {0} \cup {e.id : e \in rows} :
        /\ \A e \in rows : e.id <= prev
        /\ req' = [req EXCEPT ![r].pc = "insert", ![r].prev = prev]
  BY DEF ReadPrev
<1> DEFINE v == [req[r] EXCEPT !.pc = "insert", !.prev = prev]
<1>3. prev \in Nat /\ prev <= logged
  BY <1>2 DEF IInv, TypeOK, Row, Chain
<1>4. req[r] \in Request /\ req' = [req EXCEPT ![r] = v]
  BY <1>1, <1>2 DEF IInv, TypeOK
<1>5. v \in Request /\ v.pc = "insert" /\ v.prev = prev /\ v.was = req[r].was
  BY <1>3, <1>4 DEF Request, Steps
<1> HIDE DEF v
<1>6. req' \in [Reqs -> Request \cup {None}] /\ req'[r] = v /\ req'[r] # None /\ Others(r)
  BY <1>1, <1>4, <1>5, Note DEF IInv
<1>7. TypeOK' /\ RetentionKeepsRecent'
  BY <1>1, <1>6 DEF IInv, TypeOK, RetentionKeepsRecent
<1>8. lock = r
  BY <1>1 DEF IInv, Holder, At
<1>9. Holder'
  BY <1>1, <1>8, <1>6, HolderStays DEF IInv
<1>10. Chain'
  <2>1. \A s \in Reqs : At(s, "insert")' =>
          req'[s].prev <= logged /\ \A e \in rows : e.id <= req'[s].prev
    BY <1>2, <1>3, <1>5, <1>6 DEF IInv, Chain, At, Others
  <2> QED
    BY <1>1, <2>1 DEF IInv, Chain
<1>11. Marked'
  BY <1>1, <1>6, MarkStays DEF IInv, Uncounted, At
<1>12. Told'
  BY <1>1, <1>5, <1>6, BalanceStays DEF IInv, WillFail, WillRecover, At
<1>13. Alarm'
  BY <1>1, <1>5, <1>6, AlarmStays DEF IInv, WillFail, WasDown, At
<1> QED
  BY <1>7, <1>9, <1>10, <1>11, <1>12, <1>13 DEF IInv

\* The entry is inserted behind the newest one, or lost.
LEMMA InsertHolds == ASSUME IInv, NEW r \in Reqs, Insert(r) PROVE IInv'
<1>1. /\ req[r] # None /\ req[r].pc = "insert" /\ lock' = None
      /\ UNCHANGED <<now, users, workflow, started, degraded, config, notices,
                     alarmed, unsaved, misled, cut, retired>>
  BY DEF Insert, At
<1>2. lock = r
  BY <1>1 DEF IInv, Holder, At
<1>3. "okMem" \in Steps /\ "failMem" \in Steps
  BY DEF Steps
<1>4. RetentionKeepsRecent'
  BY <1>1 DEF IInv, RetentionKeepsRecent
<1>5. \A s \in Reqs \ {r} : ~At(s, "insert")
  BY <1>2 DEF IInv, Holder
<1> DEFINE n == [id |-> logged + 1, user |-> req[r].user, action |-> req[r].action, at |-> now,
                 hash |-> entryHash(req[r].prev, logged + 1, req[r].action, req[r].user)]
<1>6. CASE /\ logged' = logged + 1 /\ rows' = rows \cup {n}
           /\ GoTo(r, "okMem") /\ UNCHANGED unlogged
  <2>1. /\ req' \in [Reqs -> Request \cup {None}] /\ req[r] \in Request
        /\ req'[r].pc = "okMem" /\ req'[r] # None /\ Others(r)
    BY <1>1, <1>3, <1>6, Move DEF IInv
  <2>2. logged \in Nat /\ req[r].prev \in Nat
    BY <2>1 DEF IInv, TypeOK, Request
  <2>3. n \in Row /\ n.id = logged + 1 /\ n.hash.prev = req[r].prev
    BY <2>1, <2>2 DEF IInv, TypeOK, Request, Row, Hash, entryHash, Formatted
  <2>4. TypeOK'
    BY <1>1, <1>6, <2>1, <2>2, <2>3 DEF IInv, TypeOK
  <2>5. Holder'
    BY <1>1, <1>2, <2>1, HolderStays DEF IInv, At
  <2>6. Chain'
    <3> HIDE DEF n
    <3>1. req[r].prev <= logged /\ \A e \in rows : e.id <= req[r].prev
      BY <1>1 DEF IInv, Chain, At
    <3>2. \A e \in rows : e.id \in Nat /\ e.id <= logged /\ e.hash.prev < e.id
      BY DEF IInv, Chain, TypeOK, Row
    <3>3. \A e \in rows' : e.id <= logged' /\ e.hash.prev < e.id
      BY <1>6, <2>2, <2>3, <3>1, <3>2
    <3>4. \A e, f \in rows' : e.id < f.id => e.id <= f.hash.prev
      <4> SUFFICES ASSUME NEW e \in rows', NEW f \in rows', e.id < f.id PROVE e.id <= f.hash.prev
        OBVIOUS
      <4>1. CASE e \in rows /\ f \in rows
        BY <4>1 DEF IInv, Chain
      <4>2. CASE f = n
        <5>1. e # n
          BY <2>2, <2>3, <4>2
        <5> QED
          BY <1>6, <2>3, <3>1, <4>2, <5>1
      <4>3. CASE e = n /\ f \in rows
        BY <2>2, <2>3, <3>2, <4>3
      <4> QED
        BY <1>6, <4>1, <4>2, <4>3
    <3>5. \A s \in Reqs : ~At(s, "insert")'
      BY <1>5, <2>1 DEF At, Others
    <3> QED
      BY <3>3, <3>4, <3>5 DEF Chain
  <2>7. Marked'
    BY <1>1, <1>6, <2>1, MarkStays DEF IInv, Uncounted, At
  <2>8. Told'
    BY <1>1, <2>1, BalanceStays DEF IInv, WillFail, WillRecover, At
  <2>9. Alarm'
    BY <1>1, <1>6, <2>1, AlarmStays DEF IInv, WillFail, WasDown, At
  <2> QED
    BY <1>4, <2>4, <2>5, <2>6, <2>7, <2>8, <2>9 DEF IInv
<1>7. CASE GoTo(r, "failMem") /\ unlogged' = TRUE /\ UNCHANGED <<rows, logged>>
  <2>1. /\ req' \in [Reqs -> Request \cup {None}] /\ req'[r].pc = "failMem" /\ req'[r] # None
        /\ Others(r)
    BY <1>1, <1>3, <1>7, Move DEF IInv
  <2>2. TypeOK'
    BY <1>1, <1>7, <2>1 DEF IInv, TypeOK
  <2>3. Holder'
    BY <1>1, <1>2, <2>1, HolderStays DEF IInv, At
  <2>4. \A s \in Reqs : ~At(s, "insert")'
    BY <1>5, <2>1 DEF At, Others
  <2>5. Chain'
    BY <1>7, <2>4, ChainStays DEF IInv
  <2>6. Marked'
    BY <2>1 DEF Marked, Uncounted, At
  <2>7. Told'
    BY <1>1, <2>1, BalanceStays DEF IInv, WillFail, WillRecover, At
  <2>8. Alarm'
    BY <1>1, <2>1, AlarmLost DEF IInv, WillFail, WasDown, At
  <2> QED
    BY <1>4, <2>2, <2>3, <2>5, <2>6, <2>7, <2>8 DEF IInv
<1> QED
  BY <1>6, <1>7 DEF Insert

-----------------------------------------------------------------------------
(* Noting failures and recoveries                                          *)

\* Steps after the transaction: lock, entries and history of entries stay.
LEMMA AfterHolds ==
    ASSUME IInv, NEW r \in Reqs, Others(r), req[r] # None,
           req[r].pc \in {"okMem", "okFlag", "failMem", "failRead", "failCount", "failFlag"},
           req'[r] = None \/ req'[r].pc \in {"okFlag", "failRead", "failCount", "failFlag"},
           req' \in [Reqs -> Request \cup {None}],
           config' \in [degraded: BOOLEAN, count: Nat], degraded' \in BOOLEAN,
           alarmed' \in BOOLEAN, unsaved' \in BOOLEAN, notices' \in Int,
           UNCHANGED <<now, users, rows, workflow, lock, started, logged, unlogged, misled, cut, retired>>
    PROVE  TypeOK' /\ Holder' /\ Chain' /\ RetentionKeepsRecent'
<1>1. TypeOK' /\ RetentionKeepsRecent'
  BY DEF IInv, TypeOK, RetentionKeepsRecent
<1>2. Holder'
  BY HolderStays DEF IInv, At
<1>3. \A s \in Reqs : At(s, "insert")' => At(s, "insert") /\ req'[s].prev = req[s].prev
  BY DEF At, Others
<1>4. Chain'
  BY <1>3, ChainStays DEF IInv
<1> QED
  BY <1>1, <1>2, <1>4

\* The sets of requests that have news are finite.
LEMMA Finite == IsFiniteSet(Failing) /\ IsFiniteSet(Recovering)
  BY AuditAssumption, FS_Subset DEF Failing, Recovering

\* One more request has news of an outage, or of an end.
LEMMA Joins ==
    ASSUME NEW r \in Reqs, Others(r), ~WillFail(r), ~WillRecover(r)
    PROVE  /\ WillFail(r)' /\ ~WillRecover(r)' =>
                Cardinality(Failing)' = Cardinality(Failing) + 1 /\ Recovering' = Recovering
           /\ WillRecover(r)' /\ ~WillFail(r)' =>
                Cardinality(Recovering)' = Cardinality(Recovering) + 1 /\ Failing' = Failing
<1>1. \A s \in Reqs \ {r} : (WillFail(s)' <=> WillFail(s)) /\ (WillRecover(s)' <=> WillRecover(s))
  BY DEF Others, WillFail, WillRecover, At
<1>2. r \notin Failing /\ r \notin Recovering
  BY DEF Failing, Recovering
<1>3. ASSUME WillFail(r)', ~WillRecover(r)'
      PROVE  Cardinality(Failing)' = Cardinality(Failing) + 1 /\ Recovering' = Recovering
  <2>1. Failing' = Failing \cup {r} /\ Recovering' = Recovering
    BY <1>1, <1>2, <1>3 DEF Failing, Recovering
  <2> QED
    BY <1>2, <2>1, Finite, FS_AddElement
<1>4. ASSUME WillRecover(r)', ~WillFail(r)'
      PROVE  Cardinality(Recovering)' = Cardinality(Recovering) + 1 /\ Failing' = Failing
  <2>1. Recovering' = Recovering \cup {r} /\ Failing' = Failing
    BY <1>1, <1>2, <1>4 DEF Failing, Recovering
  <2> QED
    BY <1>2, <2>1, Finite, FS_AddElement
<1> QED
  BY <1>3, <1>4

\* A request has told its news.
LEMMA Tells ==
    ASSUME NEW r \in Reqs, Others(r), req'[r] = None
    PROVE  /\ WillFail(r) /\ ~WillRecover(r) =>
                Cardinality(Failing)' = Cardinality(Failing) - 1 /\ Recovering' = Recovering
           /\ WillRecover(r) /\ ~WillFail(r) =>
                Cardinality(Recovering)' = Cardinality(Recovering) - 1 /\ Failing' = Failing
<1>1. \A s \in Reqs \ {r} : (WillFail(s)' <=> WillFail(s)) /\ (WillRecover(s)' <=> WillRecover(s))
  BY DEF Others, WillFail, WillRecover, At
<1>2. ~WillFail(r)' /\ ~WillRecover(r)'
  BY DEF WillFail, WillRecover, At
<1>3. ASSUME WillFail(r), ~WillRecover(r)
      PROVE  Cardinality(Failing)' = Cardinality(Failing) - 1 /\ Recovering' = Recovering
  <2>1. Failing' = Failing \ {r} /\ Recovering' = Recovering /\ r \in Failing
    BY <1>1, <1>2, <1>3 DEF Failing, Recovering
  <2> QED
    BY <2>1, Finite, FS_RemoveElement
<1>4. ASSUME WillRecover(r), ~WillFail(r)
      PROVE  Cardinality(Recovering)' = Cardinality(Recovering) - 1 /\ Failing' = Failing
  <2>1. Recovering' = Recovering \ {r} /\ Failing' = Failing /\ r \in Recovering
    BY <1>1, <1>2, <1>4 DEF Failing, Recovering
  <2> QED
    BY <2>1, Finite, FS_RemoveElement
<1> QED
  BY <1>3, <1>4

\* Cardinalities of the two sets are numbers.
LEMMA Counts == Cardinality(Failing) \in Nat /\ Cardinality(Recovering) \in Nat
  BY Finite, FS_CardinalityType

\* swapDegraded: the request remembers what the flag was.
LEMMA Swap ==
    ASSUME TypeOK, NEW r \in Reqs, req[r] # None, NEW value \in BOOLEAN, NEW next \in Steps,
           swapDegraded(r, value, next)
    PROVE  /\ req' \in [Reqs -> Request \cup {None}] /\ Others(r)
           /\ req'[r] # None /\ req'[r].pc = next /\ req'[r].was = degraded
           /\ degraded' = value
<1> DEFINE v == [req[r] EXCEPT !.pc = next, !.was = degraded]
<1>1. req[r] \in Request /\ req' = [req EXCEPT ![r] = v] /\ degraded' = value
  BY DEF TypeOK, swapDegraded
<1>2. v \in Request /\ v.pc = next /\ v.was = degraded
  BY <1>1 DEF Request, TypeOK
<1> HIDE DEF v
<1> QED
  BY <1>1, <1>2, Note

LEMMA NoteMemoryHolds == ASSUME IInv, NEW r \in Reqs, NoteMemory(r) PROVE IInv'
<1>1. UNCHANGED <<now, users, rows, workflow, lock, started, logged, config, notices,
                  unlogged, alarmed, unsaved, misled, cut, retired>>
  BY DEF NoteMemory
<1>2. /\ config \in [degraded: BOOLEAN, count: Nat] /\ degraded \in BOOLEAN
      /\ unsaved \in BOOLEAN /\ alarmed \in BOOLEAN /\ notices \in Int
  BY DEF IInv, TypeOK
<1>3. "failRead" \in Steps /\ "okFlag" \in Steps /\ TRUE \in BOOLEAN /\ FALSE \in BOOLEAN
  BY DEF Steps
<1>4. CASE At(r, "failMem") /\ swapDegraded(r, TRUE, "failRead")
  <2>1. req[r] # None /\ req[r].pc = "failMem"
    BY <1>4 DEF At
  <2>2. /\ req' \in [Reqs -> Request \cup {None}] /\ Others(r) /\ req'[r] # None
        /\ req'[r].pc = "failRead" /\ req'[r].was = degraded /\ degraded' = TRUE
    BY <1>3, <1>4, <2>1, Swap DEF IInv
  <2>3. TypeOK' /\ Holder' /\ Chain' /\ RetentionKeepsRecent'
    BY <1>1, <1>2, <2>1, <2>2, AfterHolds
  <2>4. Marked'
    BY <1>1, <2>2, MarkStays DEF IInv, Uncounted, At
  <2>5. Told'
    <3>1. ~WillFail(r) /\ ~WillRecover(r) /\ ~WillRecover(r)' /\ (WillFail(r)' <=> ~degraded)
      BY <2>1, <2>2 DEF WillFail, WillRecover, At
    <3>2. CASE degraded
      <4>1. UNCHANGED <<notices, degraded, misled>>
        BY <1>1, <2>2, <3>2
      <4> QED
        BY <2>2, <3>1, <3>2, <4>1, BalanceStays DEF IInv
    <3>3. CASE ~degraded
      <4>1. Cardinality(Failing)' = Cardinality(Failing) + 1 /\ Recovering' = Recovering
        BY <2>2, <3>1, <3>3, Joins
      <4> QED
        BY <1>1, <1>2, <2>2, <3>3, <4>1, Counts DEF IInv, Told, Balance
    <3> QED
      BY <3>2, <3>3
  <2>6. Alarm'
    <3>1. CASE degraded
      <4>1. Raised /\ ~WillFail(r)
        BY <2>1, <3>1 DEF IInv, Alarm, WillFail, At
      <4> QED
        BY <1>1, <2>2, <4>1, RaisedStays DEF Alarm
    <3>2. CASE ~degraded
      <4>1. WillFail(r)'
        BY <2>2, <3>2 DEF WillFail, At
      <4> QED
        BY <4>1 DEF Alarm, Raised
    <3> QED
      BY <3>1, <3>2
  <2> QED
    BY <2>3, <2>4, <2>5, <2>6 DEF IInv
<1>5. CASE At(r, "okMem") /\ degraded /\ swapDegraded(r, FALSE, "okFlag")
  <2>1. req[r] # None /\ req[r].pc = "okMem"
    BY <1>5 DEF At
  <2>2. /\ req' \in [Reqs -> Request \cup {None}] /\ Others(r) /\ req'[r] # None
        /\ req'[r].pc = "okFlag" /\ degraded' = FALSE
    BY <1>3, <1>5, <2>1, Swap DEF IInv
  <2>3. TypeOK' /\ Holder' /\ Chain' /\ RetentionKeepsRecent'
    BY <1>1, <1>2, <2>1, <2>2, AfterHolds
  <2>4. Marked'
    BY <1>1, <2>1, <2>2, MarkStays DEF IInv, Uncounted, At
  <2>5. Told'
    <3>1. ~WillFail(r) /\ ~WillRecover(r) /\ WillRecover(r)' /\ ~WillFail(r)'
      BY <2>1, <2>2 DEF WillFail, WillRecover, At
    <3>2. Cardinality(Recovering)' = Cardinality(Recovering) + 1 /\ Failing' = Failing
      BY <2>2, <3>1, Joins
    <3> QED
      BY <1>1, <1>2, <1>5, <2>2, <3>2, Counts DEF IInv, Told, Balance
  <2>6. Alarm'
    BY <1>1, <2>1, <2>2, AlarmStays DEF IInv, WillFail, WasDown, At
  <2> QED
    BY <2>3, <2>4, <2>5, <2>6 DEF IInv
<1>6. CASE At(r, "okMem") /\ ~degraded /\ Finish(r) /\ UNCHANGED degraded
  <2>1. req[r] # None /\ req[r].pc = "okMem"
    BY <1>6 DEF At
  <2>2. req' \in [Reqs -> Request \cup {None}] /\ Others(r) /\ req'[r] = None
    BY <1>6, Leave DEF IInv
  <2>3. TypeOK' /\ Holder' /\ Chain' /\ RetentionKeepsRecent'
    BY <1>1, <1>2, <1>6, <2>1, <2>2, AfterHolds
  <2>4. Marked'
    BY <1>1, <2>1, <2>2, MarkStays DEF IInv, Uncounted, At
  <2>5. Told'
    BY <1>1, <1>6, <2>1, <2>2, BalanceStays DEF IInv, WillFail, WillRecover, At
  <2>6. Alarm'
    BY <1>1, <1>6, <2>1, <2>2, AlarmStays DEF IInv, WillFail, WasDown, At
  <2> QED
    BY <2>3, <2>4, <2>5, <2>6 DEF IInv
<1> QED
  BY <1>4, <1>5, <1>6 DEF NoteMemory

LEMMA FailureCountHolds == ASSUME IInv, NEW r \in Reqs, FailureCount(r) PROVE IInv'
<1>1. UNCHANGED <<now, users, rows, workflow, lock, started, logged, degraded, notices,
                  unlogged, alarmed, misled, cut, retired>>
  BY DEF FailureCount
<1>2. /\ config \in [degraded: BOOLEAN, count: Nat] /\ degraded \in BOOLEAN
      /\ unsaved \in BOOLEAN /\ alarmed \in BOOLEAN /\ notices \in Int
  BY DEF IInv, TypeOK
<1>3. ASSUME NEW count \in {config.count, 0}, At(r, "failRead"), UNCHANGED <<config, unsaved>>,
             req' = [req EXCEPT ![r].pc = "failCount", ![r].count = count]
      PROVE  IInv'
  <2> DEFINE v == [req[r] EXCEPT !.pc = "failCount", !.count = count]
  <2>1. req[r] # None /\ req[r].pc = "failRead" /\ count \in Nat
    BY <1>2, <1>3 DEF At
  <2>2. req[r] \in Request /\ req' = [req EXCEPT ![r] = v]
    BY <1>3, <2>1 DEF IInv, TypeOK
  <2>3. v \in Request /\ v.pc = "failCount" /\ v.was = req[r].was
    BY <2>1, <2>2 DEF Request, Steps
  <2> HIDE DEF v
  <2>4. /\ req' \in [Reqs -> Request \cup {None}] /\ Others(r)
        /\ req'[r] = v /\ req'[r] # None
    BY <2>1, <2>2, <2>3, Note DEF IInv
  <2>5. TypeOK' /\ Holder' /\ Chain' /\ RetentionKeepsRecent'
    BY <1>1, <1>2, <1>3, <2>1, <2>3, <2>4, AfterHolds
  <2>6. Marked'
    BY <1>1, <1>3, <2>3, <2>4, MarkStays DEF IInv, Uncounted, At
  <2>7. Told'
    BY <1>1, <1>3, <2>1, <2>3, <2>4, BalanceStays DEF IInv, WillFail, WillRecover, At
  <2>8. Alarm'
    BY <1>1, <1>3, <2>1, <2>3, <2>4, AlarmStays DEF IInv, WillFail, WasDown, At
  <2> QED
    BY <2>5, <2>6, <2>7, <2>8 DEF IInv
<1>4. ASSUME At(r, "failCount"), GoTo(r, "failFlag"), NEW saved \in BOOLEAN,
             SetConfig([config EXCEPT !.count = req[r].count + 1], saved),
             unsaved' = (unsaved \/ ~saved)
      PROVE  IInv'
  <2>1. req[r] # None /\ req[r].pc = "failCount" /\ "failFlag" \in Steps
    BY <1>4 DEF At, Steps
  <2>2. /\ req' \in [Reqs -> Request \cup {None}] /\ Others(r) /\ req[r] \in Request
        /\ req'[r].pc = "failFlag" /\ req'[r] # None /\ req'[r].was = req[r].was
    BY <1>4, <2>1, Move DEF IInv
  <2>3. req[r].count \in Nat
    BY <2>2 DEF Request
  <2>4. \/ config' = [config EXCEPT !.count = req[r].count + 1]
        \/ ~saved /\ config' = config
    BY <1>4 DEF SetConfig
  <2>5. /\ config' \in [degraded: BOOLEAN, count: Nat] /\ config'.degraded = config.degraded
        /\ config'.count > 0 \/ ~saved
    BY <1>2, <2>3, <2>4
  <2>6. unsaved' \in BOOLEAN /\ (~saved => unsaved')
    BY <1>4, Zenon
  <2>7. TypeOK' /\ Holder' /\ Chain' /\ RetentionKeepsRecent'
    BY <1>1, <1>2, <2>1, <2>2, <2>5, <2>6, AfterHolds
  <2>8. Marked'
    BY <2>5, <2>6 DEF Marked
  <2>9. Told'
    BY <1>1, <2>1, <2>2, BalanceStays DEF IInv, WillFail, WillRecover, At
  <2>10. Alarm'
    BY <1>1, <2>1, <2>2, <2>5, AlarmStays DEF IInv, WillFail, WasDown, At
  <2> QED
    BY <2>7, <2>8, <2>9, <2>10 DEF IInv
<1> QED
  BY <1>3, <1>4 DEF FailureCount

\* The last write of a failure or a recovery, and the call of the observer.
LEMMA FlagHolds ==
    ASSUME IInv, NEW r \in Reqs, FailureFlag(r) \/ RecoverFlag(r)
    PROVE  IInv'
<1>1. /\ UNCHANGED <<now, users, rows, workflow, lock, started, logged, degraded, unlogged,
                     unsaved, misled, cut, retired>>
      /\ Finish(r) /\ req[r] # None /\ req[r].pc \in {"failFlag", "okFlag"}
  BY DEF FailureFlag, RecoverFlag, At
<1>2. /\ config \in [degraded: BOOLEAN, count: Nat] /\ degraded \in BOOLEAN
      /\ unsaved \in BOOLEAN /\ alarmed \in BOOLEAN /\ notices \in Int /\ req[r] \in Request
  BY <1>1 DEF IInv, TypeOK
<1>3. req' \in [Reqs -> Request \cup {None}] /\ Others(r) /\ req'[r] = None
  BY <1>1, Leave DEF IInv
<1>4. /\ config' \in [degraded: BOOLEAN, count: Nat] /\ config'.count = config.count
      /\ RecoverFlag(r) => (config'.degraded => config.degraded)
  <2>1. CASE FailureFlag(r)
    <3>1. PICK saved \in BOOLEAN : SetConfig([config EXCEPT !.degraded = TRUE], saved)
      BY <2>1 DEF FailureFlag
    <3>2. (config' = [config EXCEPT !.degraded = TRUE] \/ config' = config) /\ ~RecoverFlag(r)
      BY <2>1, <3>1 DEF SetConfig, FailureFlag, RecoverFlag, At
    <3> QED
      BY <1>2, <3>2
  <2>2. CASE RecoverFlag(r)
    <3>1. PICK saved \in BOOLEAN : SetConfig([config EXCEPT !.degraded = FALSE], saved)
      BY <2>2 DEF RecoverFlag
    <3>2. config' = [config EXCEPT !.degraded = FALSE] \/ config' = config
      BY <3>1 DEF SetConfig
    <3> QED
      BY <1>2, <3>2
  <2> QED
    BY <2>1, <2>2
<1>5. /\ FailureFlag(r) => req[r].pc = "failFlag" /\ notices' = notices + IF req[r].was THEN 0 ELSE 1
      /\ RecoverFlag(r) => req[r].pc = "okFlag" /\ notices' = notices - 1 /\ alarmed' = alarmed
  BY DEF FailureFlag, RecoverFlag, At
<1>6. /\ notices' \in Int /\ alarmed' \in BOOLEAN
      /\ FailureFlag(r) => alarmed' = (alarmed \/ ~req[r].was)
  <2>1. notices' \in Int
    BY <1>2, <1>5
  <2>2. FailureFlag(r) => alarmed' = (alarmed \/ ~req[r].was)
    BY DEF FailureFlag
  <2>3. alarmed' \in BOOLEAN
    BY <1>2, <1>5, <2>2, Zenon
  <2> QED
    BY <2>1, <2>2, <2>3
<1>7. TypeOK' /\ Holder' /\ Chain' /\ RetentionKeepsRecent'
  BY <1>1, <1>2, <1>3, <1>4, <1>6, AfterHolds
<1>8. Marked'
  BY <1>1, <1>3, <1>4, MarkStays DEF IInv, Uncounted, At
<1>9. CASE FailureFlag(r) /\ req[r].was
  <2>1. notices' = notices /\ ~WillFail(r) /\ ~WillRecover(r) /\ WasDown(r)
    BY <1>1, <1>2, <1>5, <1>9 DEF WillFail, WillRecover, WasDown, At
  <2>2. ~WillFail(r)' /\ ~WillRecover(r)'
    BY <1>3 DEF WillFail, WillRecover, At
  <2>3. Told'
    BY <1>1, <1>3, <2>1, <2>2, BalanceStays DEF IInv
  <2>4. Raised /\ alarmed' = alarmed
    <3>1. Raised
      BY <2>1 DEF IInv, Alarm
    <3>2. alarmed' = (alarmed \/ ~req[r].was) /\ req[r].was
      BY <1>6, <1>9
    <3>3. CASE alarmed
      BY <1>2, <3>1, <3>2, <3>3, Zenon
    <3>4. CASE ~alarmed
      BY <1>2, <3>1, <3>2, <3>4, Zenon
    <3> QED
      BY <3>3, <3>4, Zenon
  <2>5. Alarm'
    BY <1>1, <1>3, <2>1, <2>4, RaisedStays DEF Alarm
  <2> QED
    BY <1>7, <1>8, <2>3, <2>5 DEF IInv
<1>10. CASE FailureFlag(r) /\ ~req[r].was
  <2>1. notices' = notices + 1 /\ WillFail(r) /\ ~WillRecover(r)
    BY <1>1, <1>5, <1>10 DEF WillFail, WillRecover, At
  <2>2. Cardinality(Failing)' = Cardinality(Failing) - 1 /\ Recovering' = Recovering
    BY <1>3, <2>1, Tells
  <2>3. Told'
    BY <1>1, <1>2, <2>1, <2>2, Counts DEF IInv, Told, Balance
  <2>4. alarmed'
    BY <1>6, <1>10, Zenon
  <2> QED
    BY <1>7, <1>8, <2>3, <2>4 DEF IInv, Alarm, Raised
<1>11. CASE RecoverFlag(r)
  <2>1. notices' = notices - 1 /\ WillRecover(r) /\ ~WillFail(r)
    BY <1>1, <1>5, <1>11 DEF WillFail, WillRecover, At
  <2>2. Cardinality(Recovering)' = Cardinality(Recovering) - 1 /\ Failing' = Failing
    BY <1>3, <2>1, Tells
  <2>3. Told'
    BY <1>1, <1>2, <2>1, <2>2, Counts DEF IInv, Told, Balance
  <2>4. Alarm'
    BY <1>1, <1>3, <1>4, <1>5, <1>11, <2>1, AlarmStays DEF IInv, WasDown, At
  <2> QED
    BY <1>7, <1>8, <2>3, <2>4 DEF IInv
<1> QED
  BY <1>9, <1>10, <1>11

\* A start finds nothing in hand and the flag of _config; what it cut off and
\* what it did not know is remembered.
LEMMA RestartHolds == ASSUME IInv, Restart PROVE IInv'
<1>1. /\ \A r \in Reqs : req'[r] = None
      /\ req' \in [Reqs -> Request \cup {None}] /\ lock' = None
      /\ degraded' \in {config.degraded, FALSE}
      /\ UNCHANGED <<now, users, rows, workflow, started, logged, config, notices, unlogged,
                     unsaved, alarmed, retired>>
  BY DEF Restart
<1>2. /\ cut' = (cut \/ \E r \in Reqs : WillFail(r) \/ Uncounted(r))
      /\ misled' = (misled \/ degraded' # degraded \/ \E r \in Reqs : WillFail(r) \/ WillRecover(r))
  BY DEF Restart
<1>3. degraded' \in BOOLEAN /\ misled' \in BOOLEAN /\ cut' \in BOOLEAN
  <2>1. degraded' \in BOOLEAN
    BY <1>1 DEF IInv, TypeOK
  <2>2. misled' \in BOOLEAN /\ cut' \in BOOLEAN
    BY <1>2, Zenon
  <2> QED
    BY <2>1, <2>2
<1>4. TypeOK' /\ RetentionKeepsRecent'
  BY <1>1, <1>3 DEF IInv, TypeOK, RetentionKeepsRecent
<1>5. Holder'
  BY <1>1 DEF Holder, At
<1>6. Chain'
  BY <1>1, ChainStays DEF IInv, At
<1>7. (cut => cut') /\ \A r \in Reqs : WillFail(r) \/ Uncounted(r) => cut'
  BY <1>2, Zenon
<1>8. Marked'
  BY <1>1, <1>7 DEF IInv, Marked
<1>9. Alarm'
  <2>1. Raised => Raised'
    BY <1>1, <1>7 DEF Raised
  <2>2. CASE Raised
    BY <2>1, <2>2 DEF Alarm
  <2>3. CASE ~Raised
    <3>1. ~degraded' /\ ~config'.degraded
      BY <1>1, <2>3 DEF IInv, Alarm
    <3>2. unlogged => cut'
      BY <1>7, <2>3 DEF IInv, Alarm, Uncounted
    <3>3. \A r \in Reqs : ~WasDown(r)'
      BY <1>1 DEF WasDown, At
    <3> QED
      BY <1>1, <3>1, <3>2, <3>3 DEF Alarm, Raised
  <2> QED
    BY <2>2, <2>3
<1>10. Told'
  <2> SUFFICES ASSUME ~misled' PROVE Balance'
    BY DEF Told
  <2>1. ~misled /\ degraded' = degraded /\ \A r \in Reqs : ~WillFail(r) /\ ~WillRecover(r)
    BY <1>2, Zenon
  <2>2. \A r \in Reqs : ~WillFail(r)' /\ ~WillRecover(r)'
    BY <1>1 DEF WillFail, WillRecover, At
  <2>3. Failing' = Failing /\ Recovering' = Recovering
    BY <2>1, <2>2 DEF Failing, Recovering
  <2> QED
    BY <1>1, <2>1, <2>3 DEF IInv, Told, Balance
<1> QED
  BY <1>4, <1>5, <1>6, <1>8, <1>9, <1>10 DEF IInv

LEMMA Inductive == Spec => []IInv
<1>1. IInv /\ [Next]_vars => IInv'
  <2> SUFFICES ASSUME IInv, [Next]_vars PROVE IInv'
    OBVIOUS
  <2>1. CASE UNCHANGED vars
    <3>1. TypeOK' /\ RetentionKeepsRecent'
      BY <2>1 DEF vars, IInv, TypeOK, RetentionKeepsRecent
    <3> QED
      BY <2>1, <3>1, AsideHolds DEF vars
  <2>2. ASSUME NEW r \in Reqs, NEW u \in Users \cup {None}, NEW a \in Actions, Start(r, u, a)
        PROVE  IInv'
    BY <2>2, StartHolds
  <2>3. ASSUME NEW r \in Reqs,
               CreateItem(r) \/ DeleteFilter(r) \/ RunRetention(r) \/ Begin(r) \/ BeginFails(r)
        PROVE  IInv'
    BY <2>3, CreateItemHolds, DeleteFilterHolds, RunRetentionHolds, BeginHolds, BeginFailsHolds
  <2>4. ASSUME NEW r \in Reqs,
               \/ ReadPrev(r) \/ Insert(r) \/ NoteMemory(r) \/ FailureCount(r)
               \/ FailureFlag(r) \/ RecoverFlag(r)
        PROVE  IInv'
    BY <2>4, ReadPrevHolds, InsertHolds, NoteMemoryHolds, FailureCountHolds, FlagHolds
  <2>5. ASSUME NEW u \in Users, DeleteUser(u) \/ DeleteIncomplete(u)
        PROVE  IInv'
    BY <2>5, UserHolds
  <2> QED
    BY <2>1, <2>2, <2>3, <2>4, <2>5, TickHolds, RestartHolds DEF Next
<1> QED
  BY <1>1, InitHolds, PTL DEF Spec

-----------------------------------------------------------------------------
(* Theorems                                                                *)

\* Entries, requests, health flags and workflow rows keep their types.
THEOREM AuditTypeCorrect == Spec => []TypeOK
<1>1. IInv => TypeOK
  BY DEF IInv
<1> QED
  BY <1>1, Inductive, PTL

\* LogAudit never chains two entries to one predecessor, whatever is deleted
\* and however many requests log at the same time (audit.go:25-53).
THEOREM ChainNeverForks == Spec => []ChainIsLinear
<1>1. IInv => ChainIsLinear
  <2> SUFFICES ASSUME IInv, NEW e \in rows, NEW f \in rows, e.id < f.id
               PROVE  e.hash.prev # f.hash.prev /\ e.hash.prev # f.id
    BY DEF ChainIsLinear
  <2>1. e.hash.prev < e.id /\ e.id <= f.hash.prev
    BY DEF IInv, Chain
  <2>2. e.id \in Nat /\ f.id \in Nat /\ e.hash.prev \in Nat /\ f.hash.prev \in Nat
    BY DEF IInv, TypeOK, Row, Hash
  <2> QED
    BY <2>1, <2>2
<1> QED
  BY <1>1, Inductive, PTL

\* When no request is in hand, the observers have been told of every outage
\* and of its end, once each, over restarts that cut off no call of theirs and
\* load the flag that the hub had (audit_controls.go:74-119, store.go:75-77).
THEOREM OutagesAreAnnounced == Spec => []ObserversKnow
<1>1. IInv => ObserversKnow
  <2> SUFFICES ASSUME IInv, Idle, ~misled PROVE notices = IF degraded THEN 1 ELSE 0
    BY DEF ObserversKnow
  <2>1. Failing = {} /\ Recovering = {}
    BY DEF Idle, Failing, Recovering, WillFail, WillRecover, At
  <2>2. Cardinality(Failing) = 0 /\ Cardinality(Recovering) = 0
    BY <2>1, FS_EmptySet
  <2>3. notices \in Int
    BY DEF IInv, TypeOK
  <2> QED
    BY <2>2, <2>3 DEF IInv, Told, Balance
<1> QED
  BY <1>1, Inductive, PTL

\* If a request ended without its entry, the observer has been called, and
\* _config holds a count of failures or a write of that count failed too,
\* unless the hub ended while a failure was being noted (audit_controls.go:74-96).
THEOREM LossIsCounted == Spec => []NoSilentLoss
<1>1. IInv => NoSilentLoss
  <2> SUFFICES ASSUME IInv, Idle, unlogged, ~cut
               PROVE  alarmed /\ (config.count > 0 \/ unsaved)
    BY DEF NoSilentLoss
  <2>1. \A r \in Reqs : ~Uncounted(r) /\ ~WillFail(r) /\ ~At(r, "failMem")
    BY DEF Idle, Uncounted, WillFail, At
  <2> QED
    BY <2>1 DEF IInv, Marked, Alarm, Raised
<1> QED
  BY <1>1, Inductive, PTL

\* Retention deletes nothing of the last retention_days - 1 days, for every
\* length of a day and every retention (handlers_audit.go:158).
THEOREM RecentEntriesStay == Spec => []RetentionKeepsRecent
<1>1. IInv => RetentionKeepsRecent
  BY DEF IInv
<1> QED
  BY <1>1, Inductive, PTL
=============================================================================
