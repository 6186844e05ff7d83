------------------------------ MODULE AuditLog ------------------------------
(***************************************************************************)
(* The audit log: entries chained by hash, the health of the pipeline that *)
(* writes them, retention and the review workflow.                         *)
(* Sources: hub/internal/store/audit.go, audit_controls.go,                *)
(* audit_workflow.go, store.go, users.go, hub/internal/server/             *)
(* handlers_audit.go, audit_helpers.go.                                    *)
(*                                                                         *)
(* A request makes its own change, then logs it; LogAudit takes SQLite's   *)
(* write lock, reads the last hash, inserts and commits.  Every statement  *)
(* outside that transaction is one step and waits for the lock.  A hash is *)
(* the record of what it was computed from, with the predecessor's id for  *)
(* the predecessor's hash: ids are unique and hashes are not inverted.     *)
(***************************************************************************)
EXTENDS Integers, FiniteSets

CONSTANTS
    Users,        \* users that act
    Kinds,        \* workflow tables: "review", "filter", "flag"
    Reqs,         \* requests in hand at the same time
    None,         \* NULL, and the empty hash
    Heap,         \* any address of the heap
    HoursPerDay,  \* hours of a day
    Retention,    \* retention_days
    MaxTime,      \* bound: the clock stops here
    MaxRequests   \* bound: requests that start

VARIABLES
    now,        \* the clock, in hours
    users,      \* users that exist
    rows,       \* audit_logs, in the order of their ids, which is that of rowid
    workflow,   \* audit_reviews, audit_saved_filters and audit_flags
    lock,       \* who holds the write lock of LogAudit
    req,        \* requests in hand
    started,    \* how many requests started
    logged,     \* how many entries were inserted: the ids, which are unique
    degraded,   \* Store.auditDegraded
    config,     \* _config: audit.degraded and audit.failure_count
    notices,    \* history: calls of onAuditFailure less calls of onAuditRecovery
    unlogged,   \* history: some request ended without its entry
    alarmed,    \* history: onAuditFailure was called
    unsaved,    \* history: a write of the count of failures failed
    misled,     \* history: a start found another flag than the hub had, or cut off
                \* a request that was to call an observer
    cut,        \* history: a start cut off a request that was noting its failure
    retired     \* history: entries that retention deleted, with the time of the run

vars == <<now, users, rows, workflow, lock, req, started, logged, degraded, config,
          notices, unlogged, alarmed, unsaved, misled, cut, retired>>

Actions == {"login_failed", "exported", "retention"} \cup Kinds
Hash == [prev: Nat, id: Nat \ {0}, action: Actions, user: Users \cup {None, Heap}]
Row == [id: Nat \ {0}, user: Users \cup {None}, action: Actions, at: 0..MaxTime, hash: Hash]
Item == [kind: Kinds, by: Users, id: Nat]

Steps == {"change", "begin", "prev", "insert", "okMem", "okFlag",
          "failMem", "failRead", "failCount", "failFlag"}

\* A request: its entry, the hash it read, the state it saw, the count it read.
Request == [pc: Steps, user: Users \cup {None}, action: Actions,
            prev: Nat, was: BOOLEAN, count: Nat]

ASSUME AuditAssumption ==
    /\ HoursPerDay \in Nat \ {0} /\ Retention \in Nat \ {0}
    /\ MaxTime \in Nat /\ MaxRequests \in Nat /\ IsFiniteSet(Reqs)
    /\ Kinds \subseteq {"review", "filter", "flag"}
    /\ None \notin Users \cup Reqs \cup Request /\ Heap \notin Users \cup {None}

TypeOK ==
    /\ now \in 0..MaxTime /\ users \subseteq Users
    /\ rows \subseteq Row
    /\ workflow \subseteq Item
    /\ lock \in Reqs \cup {None}
    /\ req \in [Reqs -> Request \cup {None}]
    /\ started \in Nat /\ logged \in Nat
    /\ degraded \in BOOLEAN
    /\ config \in [degraded: BOOLEAN, count: Nat]
    /\ notices \in Int
    /\ unlogged \in BOOLEAN /\ alarmed \in BOOLEAN /\ unsaved \in BOOLEAN
    /\ misled \in BOOLEAN /\ cut \in BOOLEAN
    /\ retired \subseteq [at: 0..MaxTime, run: 0..MaxTime]

Init ==
    /\ now = 0 /\ users = Users
    /\ rows = {} /\ workflow = {}
    /\ lock = None /\ req = [r \in Reqs |-> None] /\ started = 0 /\ logged = 0
    /\ degraded = FALSE /\ config = [degraded |-> FALSE, count |-> 0]
    /\ notices = 0 /\ unlogged = FALSE /\ alarmed = FALSE /\ retired = {}
    /\ unsaved = FALSE /\ misled = FALSE /\ cut = FALSE

At(r, pc) == req[r] # None /\ req[r].pc = pc
GoTo(r, pc) == req' = [req EXCEPT ![r].pc = pc]
Finish(r) == req' = [req EXCEPT ![r] = None]
Idle == \A r \in Reqs : req[r] = None

Tick ==
    /\ now < MaxTime /\ now' = now + 1
    /\ UNCHANGED <<users, rows, workflow, lock, req, started, logged, degraded, config,
                   notices, unlogged, alarmed, unsaved, misled, cut, retired>>

-----------------------------------------------------------------------------
(* Time as text                                                            *)

Day(t) == t \div HoursPerDay

\* created_at is "2006-01-02 15:04:05", a bound is "2006-01-02T15:04:05Z", and
\* SQLite compares them as text: the days decide, and on the same day the blank
\* comes before the T.
Before(at, bound) == Day(at) <= Day(bound)

\* The cutoff of retention; hours before the epoch of the model keep everything.
Expired_HoursForDays(at) == now >= Retention /\ Before(at, now - Retention)

Expired(at) == now >= Retention * HoursPerDay /\ Before(at, now - Retention * HoursPerDay)

-----------------------------------------------------------------------------
(* Requests: their own change                                              *)

\* A request begins; a failed login and an export change nothing else.
Start(r, user, action) ==
    /\ req[r] = None /\ started < MaxRequests
    /\ user = None <=> action = "login_failed"
    /\ user \in users \cup {None}
    /\ started' = started + 1
    /\ req' = [req EXCEPT ![r] =
                 [pc |-> IF action \in {"login_failed", "exported"} THEN "begin" ELSE "change",
                  user |-> user, action |-> action, prev |-> 0, was |-> FALSE, count |-> 0]]
    /\ UNCHANGED <<now, users, rows, workflow, lock, logged, degraded, config, notices,
                   unlogged, alarmed, unsaved, misled, cut, retired>>

\* CreateAuditReview, CreateAuditSavedFilter, CreateAuditFlag.
\* The insert fails when the user is gone: nothing is logged then.
CreateItem(r) ==
    /\ At(r, "change") /\ lock = None
    /\ req[r].action \in Kinds
    /\ \/ /\ req[r].user \in users
          /\ workflow' = workflow \cup {[kind |-> req[r].action, by |-> req[r].user, id |-> started]}
          /\ GoTo(r, "begin")
       \/ req[r].user \notin users /\ Finish(r) /\ UNCHANGED workflow
    /\ UNCHANGED <<now, users, rows, lock, started, logged, degraded, config, notices,
                   unlogged, alarmed, unsaved, misled, cut, retired>>

\* DeleteAuditSavedFilter is logged with the filter's own action.
DeleteFilter(r) ==
    /\ At(r, "change") /\ lock = None /\ req[r].action = "filter"
    /\ \E f \in workflow : f.kind = "filter" /\ workflow' = workflow \ {f}
    /\ GoTo(r, "begin")
    /\ UNCHANGED <<now, users, rows, lock, started, logged, degraded, config, notices,
                   unlogged, alarmed, unsaved, misled, cut, retired>>

\* handleRunAuditRetention, DeleteAuditLogsBefore.  A delete that fails is
\* logged as well.
RunRetention(r) ==
    /\ At(r, "change") /\ lock = None /\ req[r].action = "retention"
    /\ rows' \in {rows, {e \in rows : ~Expired(e.at)}}
    /\ retired' = retired \cup {[at |-> e.at, run |-> now] : e \in rows \ rows'}
    /\ GoTo(r, "begin")
    /\ UNCHANGED <<now, users, workflow, lock, started, logged, degraded, config, notices,
                   unlogged, alarmed, unsaved, misled, cut>>

\* DeleteUser: entries lose their user, workflow rows go.
DeleteUser(u) ==
    /\ u \in users /\ lock = None
    /\ users' = users \ {u}
    /\ rows' = {[e EXCEPT !.user = IF @ = u THEN None ELSE @] : e \in rows}
    /\ workflow' = {x \in workflow : x.by # u}
    /\ UNCHANGED <<now, lock, req, started, logged, degraded, config, notices,
                   unlogged, alarmed, unsaved, misled, cut, retired>>

\* DeleteIncompleteUsers: the entries of a user who never enrolled go too.
DeleteIncomplete(u) ==
    /\ u \in users /\ lock = None
    /\ users' = users \ {u}
    /\ rows' = {e \in rows : e.user # u}
    /\ workflow' = {x \in workflow : x.by # u}
    /\ UNCHANGED <<now, lock, req, started, logged, degraded, config, notices,
                   unlogged, alarmed, unsaved, misled, cut, retired>>

-----------------------------------------------------------------------------
(* LogAudit                                                                *)

BeginImmediate_Deferred(r) ==
    /\ At(r, "begin") /\ GoTo(r, "prev") /\ UNCHANGED lock

BeginImmediate(r) ==
    /\ At(r, "begin") /\ lock = None /\ GoTo(r, "prev") /\ lock' = r

Begin(r) ==
    /\ BeginImmediate(r)
    /\ UNCHANGED <<now, users, rows, workflow, started, logged, degraded, config, notices,
                   unlogged, alarmed, unsaved, misled, cut, retired>>

\* No connection, or the lock is not to be had within the busy timeout.
BeginFails_Unnoted(r) ==
    /\ At(r, "begin") /\ Finish(r) /\ unlogged' = TRUE
    /\ UNCHANGED <<now, users, rows, workflow, lock, started, logged, degraded, config, notices,
                   alarmed, unsaved, misled, cut, retired>>

BeginFails(r) ==
    /\ At(r, "begin") /\ GoTo(r, "failMem") /\ unlogged' = TRUE
    /\ UNCHANGED <<now, users, rows, workflow, lock, started, logged, degraded, config, notices,
                   alarmed, unsaved, misled, cut, retired>>

\* SELECT prev_hash ... ORDER BY rowid DESC LIMIT 1
ReadPrev(r) ==
    /\ At(r, "prev")
    /\ \E prev \in {0} \cup {e.id : e \in rows} :
        /\ \A e \in rows : e.id <= prev
        /\ req' = [req EXCEPT ![r].pc = "insert", ![r].prev = prev]
    /\ UNCHANGED <<now, users, rows, workflow, lock, started, logged, degraded, config, notices,
                   unlogged, alarmed, unsaved, misled, cut, retired>>

\* %v of a *string prints the address it points to.
Formatted(p) == IF p = None THEN None ELSE Heap

entryHash(prev, id, action, user) ==
    [prev |-> prev, id |-> id, action |-> action, user |-> Formatted(user)]

\* INSERT and COMMIT; a user deleted meanwhile fails the foreign key.
Insert(r) ==
    /\ At(r, "insert")
    /\ lock' = None
    /\ LET q == req[r] IN
       \/ /\ q.user \in users \cup {None}
          /\ logged' = logged + 1
          /\ rows' = rows \cup {[id |-> logged', user |-> q.user, action |-> q.action, at |-> now,
                                  hash |-> entryHash(q.prev, logged', q.action, q.user)]}
          /\ GoTo(r, "okMem") /\ UNCHANGED unlogged
       \/ GoTo(r, "failMem") /\ unlogged' = TRUE /\ UNCHANGED <<rows, logged>>
    /\ UNCHANGED <<now, users, workflow, started, degraded, config, notices,
                   alarmed, unsaved, misled, cut, retired>>

-----------------------------------------------------------------------------
(* noteAuditFailure and noteAuditSuccess                                   *)

swapDegraded_Racy(r, value, next) ==
    /\ req' = [req EXCEPT ![r].pc = next, ![r].was = config.degraded]
    /\ degraded' = value

\* Under the mutex: the flag is read and set.
swapDegraded(r, value, next) ==
    /\ req' = [req EXCEPT ![r].pc = next, ![r].was = degraded]
    /\ degraded' = value

NoteMemory(r) ==
    /\ \/ At(r, "failMem") /\ swapDegraded(r, TRUE, "failRead")
       \/ At(r, "okMem") /\ degraded /\ swapDegraded(r, FALSE, "okFlag")
       \/ At(r, "okMem") /\ ~degraded /\ Finish(r) /\ UNCHANGED degraded
    /\ UNCHANGED <<now, users, rows, workflow, lock, started, logged, config, notices,
                   unlogged, alarmed, unsaved, misled, cut, retired>>

\* SetConfig, whose error is ignored.
SetConfig(value, saved) ==
    IF saved THEN lock = None /\ config' = value ELSE UNCHANGED config

\* The count is read, as 0 if that fails, and then written back.
FailureCount(r) ==
    /\ \/ /\ At(r, "failRead")
          /\ \E count \in {config.count, 0} :
               req' = [req EXCEPT ![r].pc = "failCount", ![r].count = count]
          /\ UNCHANGED <<config, unsaved>>
       \/ /\ At(r, "failCount") /\ GoTo(r, "failFlag")
          /\ \E saved \in BOOLEAN :
               /\ SetConfig([config EXCEPT !.count = req[r].count + 1], saved)
               /\ unsaved' = (unsaved \/ ~saved)
    /\ UNCHANGED <<now, users, rows, workflow, lock, started, logged, degraded, notices,
                   unlogged, alarmed, misled, cut, retired>>

\* The flag is set, and the observer hears of the first failure of an outage.
FailureFlag(r) ==
    /\ At(r, "failFlag") /\ Finish(r)
    /\ \E saved \in BOOLEAN : SetConfig([config EXCEPT !.degraded = TRUE], saved)
    /\ notices' = notices + IF req[r].was THEN 0 ELSE 1
    /\ alarmed' = (alarmed \/ ~req[r].was)
    /\ UNCHANGED <<now, users, rows, workflow, lock, started, logged, degraded, unlogged,
                   unsaved, misled, cut, retired>>

\* The flag is reset, and the observer hears of the end of the outage.
RecoverFlag(r) ==
    /\ At(r, "okFlag") /\ Finish(r)
    /\ \E saved \in BOOLEAN : SetConfig([config EXCEPT !.degraded = FALSE], saved)
    /\ notices' = notices - 1
    /\ UNCHANGED <<now, users, rows, workflow, lock, started, logged, degraded, unlogged,
                   unsaved, alarmed, misled, cut, retired>>

\* Requests that will tell the observer of an outage, and of its end.
WillFail(r) == (At(r, "failRead") \/ At(r, "failCount") \/ At(r, "failFlag")) /\ ~req[r].was
WillRecover(r) == At(r, "okFlag")

\* A request that has yet to count its failure.
Uncounted(r) == At(r, "failMem") \/ At(r, "failRead") \/ At(r, "failCount")

\* The hub ends, in order or not, and starts again: store.New reads the flag,
\* which is FALSE if that fails.
Restart ==
    /\ req' = [r \in Reqs |-> None] /\ lock' = None
    /\ degraded' \in {config.degraded, FALSE}
    /\ misled' = (misled \/ degraded' # degraded \/ \E r \in Reqs : WillFail(r) \/ WillRecover(r))
    /\ cut' = (cut \/ \E r \in Reqs : WillFail(r) \/ Uncounted(r))
    /\ UNCHANGED <<now, users, rows, workflow, started, logged, config, notices, unlogged,
                   unsaved, alarmed, retired>>

Next ==
    \/ Tick
    \/ \E r \in Reqs :
        \/ \E u \in Users \cup {None}, a \in Actions : Start(r, u, a)
        \/ CreateItem(r) \/ DeleteFilter(r) \/ RunRetention(r)
        \/ Begin(r) \/ BeginFails(r) \/ ReadPrev(r) \/ Insert(r)
        \/ NoteMemory(r) \/ FailureCount(r) \/ FailureFlag(r) \/ RecoverFlag(r)
    \/ \E u \in Users : DeleteUser(u) \/ DeleteIncomplete(u)
    \/ Restart

Spec == Init /\ [][Next]_vars

-----------------------------------------------------------------------------
(* Properties                                                              *)

\* However requests interleave and whatever is deleted, no two entries are
\* chained to the same predecessor and no entry is chained to a later one
\* (audit.go:25-53).
ChainIsLinear ==
    \A e, f \in rows :
        e.id < f.id => e.hash.prev \notin {f.hash.prev, f.id}

\* When nothing is in hand, the observers have heard of every outage once and
\* of its end once, in whatever order failures and successes were noted, and
\* over restarts (audit_controls.go:74-119, store.go:75-77).  Excepted is what
\* follows a start that cut off a request on its way to an observer, or that
\* loaded another flag than the hub had: a late failure may leave the flag set
\* in _config after the outage has ended, and then the first success after a
\* restart announces the end a second time.
ObserversKnow == Idle /\ ~misled => notices = IF degraded THEN 1 ELSE 0

\* If a request ended without its entry, onAuditFailure has been called, and
\* _config holds a count of failures unless a write of that count, whose error
\* noteAuditFailure ignores, failed too (audit_controls.go:74-96).  Excepted is
\* a hub that ended while a request was noting its failure.
NoSilentLoss == Idle /\ unlogged /\ ~cut => alarmed /\ (config.count > 0 \/ unsaved)

\* Retention keeps every entry of the last retention_days - 1 days, for all
\* that it compares timestamps of two formats as text (handlers_audit.go:158).
RetentionKeepsRecent ==
    \A d \in retired : d.run - d.at > (Retention - 1) * HoursPerDay
=============================================================================
