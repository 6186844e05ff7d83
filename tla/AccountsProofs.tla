--------------------------- MODULE AccountsProofs ---------------------------
(***************************************************************************)
(* Proofs about Accounts, for any number of users, names, API tokens and   *)
(* requests at the same time: type correctness, an invalidated credential  *)
(* stays refused, an enrolled user has a password of their own, and first  *)
(* registrations leave one administrator.                                  *)
(*                                                                         *)
(* None is inductive: an operation collects what it will invalidate,       *)
(* increments the generation and revokes the API tokens in three steps,    *)
(* and a login in hand may issue a pair with the generation it read before *)
(* all of them.  The argument has two halves.  Advance says how the tables *)
(* may change in one step, whoever takes it: generations grow, ids are not *)
(* used again, API tokens do not come back to life.  Remembers says what   *)
(* a request in hand knows, in a form that Advance preserves.  The first   *)
(* registrations have an invariant of their own, FirstInv.                 *)
(***************************************************************************)
EXTENDS Accounts, FiniteSetTheorems, TLAPS

\* A token of a session is not from a future generation of its user, and only
\* users that exist or existed have one.
NotAhead(c) ==
    /\ c.sub \in known
    /\ Live(c.sub) => c.gen <= users[c.sub].gen

IsSession(c) == c.type \in {"access", "refresh"}

\* A credential that no later step can make acceptable: its user is gone, and
\* ids are not used twice, or has a later generation; an API token has been
\* made and is not live.
Refused(c) ==
    IF c.type = "api" THEN c.gen \in ApiIds /\ api[c.gen].owner # NoRow /\ ~api[c.gen].live
    ELSE c.sub \in known /\ (Live(c.sub) => c.gen < users[c.sub].gen)

\* What the tables say whatever is in hand.
Tables ==
    /\ Rows \subseteq known
    /\ \A k \in ApiIds : api[k].live => api[k].owner \in Ids
    /\ InitialPasswordReplaced

RegSteps == {"regClean", "regCreate"}
SnapSteps == {"ldapWrite", "pairReply", "refBump", "refReply", "setupWrite",
              "enPass", "enOn", "enMark", "enReply"}
PairSteps == {"pairReply", "enPass", "enOn", "enMark", "enReply"}

\* What a request remembers: the row it read is not from a future generation,
\* its credentials are its user's, and once the generation was incremented the
\* sessions among them are refused.
Remembers(q) ==
    /\ IF q.pc \in RegSteps THEN q.old = {} ELSE q.id \in Ids
    /\ q.pc \in SnapSteps => q.snap \in User
    /\ q.pc = "ldapWrite" /\ q.op = "other" => q.snap.pw # "initial"
    /\ q.pc \in PairSteps => q.id \in known /\ (Live(q.id) => q.snap.gen <= users[q.id].gen)
    /\ q.pc = "enOn" => (Live(q.id) => users[q.id].pw # "initial")
    /\ \A c \in q.old :
         /\ c.sub = q.id
         /\ IF c.type = "api" THEN c.gen \in ApiIds /\ api[c.gen].owner = c.sub
                              ELSE IsSession(c) /\ NotAhead(c)
    /\ q.op = "role" => \A c \in q.old : c.type # "api"
    /\ q.pc = "revoke" => \A c \in q.old : c.type # "api" => Refused(c)

IInv ==
    /\ TypeOK /\ Tables
    /\ \A c \in issued : c.type # "api" /\ (IsSession(c) => NotAhead(c))
    /\ \A c \in dead : Refused(c)
    /\ \A r \in Reqs : req[r] # Idle => Remembers(req[r])

-----------------------------------------------------------------------------
(* How the tables change                                                   *)

Advance ==
    /\ known \subseteq known'
    /\ \A id \in known : Live(id)' =>
         /\ Live(id) /\ users[id].gen <= users'[id].gen
         /\ users'[id].pw = "initial" => users[id].pw = "initial"
    /\ \A k \in ApiIds : api[k].owner # NoRow =>
         /\ api'[k].owner = api[k].owner
         /\ api'[k].live => api[k].live

\* All requests but one stay where they are.
Others(r) == \A s \in Reqs \ {r} : req'[s] = req[s]

\* What the rows are.
LEMMA RowTypes ==
    ASSUME TypeOK
    PROVE  /\ \A id \in Ids : Live(id) <=> users[id] # NoRow
           /\ \A id \in Ids : Live(id) => users[id] \in User /\ users[id].gen \in Nat
           /\ \A id : Live(id) => id \in Ids
  BY DEF TypeOK, Live, User

LEMMA StayAdvance ==
    ASSUME UNCHANGED <<users, api>>, TypeOK, known \subseteq known', known \subseteq Ids
    PROVE  Advance
<1>1. \A id \in known : Live(id)' => Live(id) /\ users[id].gen <= users'[id].gen
  BY RowTypes DEF Live
<1> QED
  BY <1>1 DEF Advance

\* What Advance preserves of a token and of a request.
LEMMA TokensKeep ==
    ASSUME TypeOK, TypeOK', Advance, NEW c \in Credential
    PROVE  /\ NotAhead(c) => NotAhead(c)'
           /\ Refused(c) => Refused(c)'
<1>1. c.gen \in Nat
  BY DEF Credential
<1>2. ASSUME c.sub \in known, Live(c.sub)'
      PROVE  /\ Live(c.sub) /\ users[c.sub].gen <= users'[c.sub].gen
             /\ users[c.sub].gen \in Nat /\ users'[c.sub].gen \in Nat
  <2>1. c.sub \in Ids /\ Live(c.sub) /\ users[c.sub].gen <= users'[c.sub].gen
    BY <1>2 DEF Advance, TypeOK
  <2>2. users'[c.sub] \in User
    BY <1>2, <2>1 DEF Live, TypeOK
  <2> QED
    BY <2>1, <2>2, RowTypes DEF User
<1>3. c.sub \in known => c.sub \in known'
  BY DEF Advance
<1>4. NotAhead(c) => NotAhead(c)'
  BY <1>1, <1>2, <1>3 DEF NotAhead
<1>5. Refused(c) => Refused(c)'
  <2>1. CASE c.type = "api"
    BY <2>1 DEF Refused, Advance
  <2>2. CASE c.type # "api"
    BY <1>1, <1>2, <1>3, <2>2 DEF Refused
  <2> QED
    BY <2>1, <2>2
<1> QED
  BY <1>4, <1>5

LEMMA RequestKeeps ==
    ASSUME TypeOK, TypeOK', Advance, NEW q \in Request, Remembers(q)
    PROVE  /\ IF q.pc \in RegSteps THEN q.old = {} ELSE q.id \in Ids
           /\ q.pc \in SnapSteps => q.snap \in User
           /\ q.pc = "ldapWrite" /\ q.op = "other" => q.snap.pw # "initial"
           /\ q.pc \in PairSteps => q.id \in known' /\ (Live(q.id)' => q.snap.gen <= users'[q.id].gen)
           /\ q.pc = "enOn" => (Live(q.id)' => users'[q.id].pw # "initial")
           /\ \A c \in q.old :
                /\ c.sub = q.id
                /\ IF c.type = "api" THEN c.gen \in ApiIds /\ api'[c.gen].owner = c.sub
                                     ELSE IsSession(c) /\ NotAhead(c)'
           /\ q.op = "role" => \A c \in q.old : c.type # "api"
           /\ q.pc = "revoke" => \A c \in q.old : c.type # "api" => Refused(c)'
<1>1. /\ IF q.pc \in RegSteps THEN q.old = {} ELSE q.id \in Ids
      /\ q.pc \in SnapSteps => q.snap \in User
      /\ q.pc = "ldapWrite" /\ q.op = "other" => q.snap.pw # "initial"
      /\ q.op = "role" => \A c \in q.old : c.type # "api"
  BY DEF Remembers
<1>2. q.old \subseteq Credential
  BY DEF Request
<1>3. ASSUME q.pc \in PairSteps
      PROVE  /\ q.id \in known' /\ (Live(q.id)' => q.snap.gen <= users'[q.id].gen)
             /\ q.pc = "enOn" => (Live(q.id)' => users'[q.id].pw # "initial")
  <2>1. q.id \in known /\ q.id \in Ids /\ (Live(q.id) => q.snap.gen <= users[q.id].gen)
    BY <1>3 DEF Remembers, TypeOK
  <2>2. q.snap.gen \in Nat
    BY <1>3 DEF Remembers, PairSteps, SnapSteps, User
  <2>3. CASE Live(q.id)'
    <3>1. /\ Live(q.id) /\ users[q.id].gen <= users'[q.id].gen
          /\ users'[q.id].pw = "initial" => users[q.id].pw = "initial"
      BY <2>1, <2>3 DEF Advance
    <3>2. users[q.id].gen \in Nat
      BY <2>1, <3>1, RowTypes
    <3>3. users'[q.id].gen \in Nat
      BY <2>1, <2>3 DEF Live, TypeOK, User
    <3>4. q.pc = "enOn" => users[q.id].pw # "initial"
      BY <3>1 DEF Remembers
    <3> QED
      BY <2>1, <2>2, <3>1, <3>2, <3>3, <3>4 DEF Advance
  <2>4. CASE ~Live(q.id)'
    BY <2>1, <2>4 DEF Advance
  <2> QED
    BY <2>3, <2>4
<1>4. ASSUME NEW c \in q.old
      PROVE  /\ c.sub = q.id
             /\ IF c.type = "api" THEN c.gen \in ApiIds /\ api'[c.gen].owner = c.sub
                                  ELSE IsSession(c) /\ NotAhead(c)'
  <2>1. c \in Credential /\ c.sub \in Ids /\ c.sub # NoRow /\ c.sub = q.id
    BY <1>2, AccountsAssumption DEF Remembers, Credential
  <2>2. CASE c.type = "api"
    <3>1. c.gen \in ApiIds /\ api[c.gen].owner = c.sub
      BY <2>2 DEF Remembers
    <3> QED
      BY <2>1, <2>2, <3>1 DEF Advance
  <2>3. CASE c.type # "api"
    <3>1. IsSession(c) /\ NotAhead(c)
      BY <2>3 DEF Remembers
    <3> QED
      BY <2>1, <2>3, <3>1, TokensKeep
  <2> QED
    BY <2>2, <2>3
<1>5. q.pc = "revoke" => \A c \in q.old : c.type # "api" => Refused(c)'
  BY <1>2, TokensKeep DEF Remembers
<1>6. q.pc = "enOn" => q.pc \in PairSteps
  BY DEF PairSteps
<1> QED
  BY <1>1, <1>3, <1>4, <1>5, <1>6

\* Remembers of a value that the step does not change.
LEMMA RemembersKeeps ==
    ASSUME TypeOK, TypeOK', Advance, NEW r \in Reqs, req[r] \in Request,
           Remembers(req[r]), req'[r] = req[r]
    PROVE  Remembers(req[r])'
<1> DEFINE q == req[r]
<1>1. q \in Request /\ Remembers(q) /\ q' = q
  OBVIOUS
<1> QED
  BY <1>1, RequestKeeps DEF Remembers

\* One request moves and the tables advance: what is left to show.
LEMMA Combine ==
    ASSUME IInv, Advance, TypeOK', Tables', NEW r \in Reqs, Others(r),
           req'[r] = Idle \/ Remembers(req[r])',
           \A c \in issued' \ issued : c.type # "api" /\ (IsSession(c) => NotAhead(c)'),
           \A c \in dead' \ dead : Refused(c)'
    PROVE  IInv'
<1>1. TypeOK /\ issued \subseteq Credential /\ dead \subseteq Credential
  BY DEF IInv, TypeOK
<1>2. \A c \in issued' : c.type # "api" /\ (IsSession(c) => NotAhead(c)')
  BY <1>1, TokensKeep DEF IInv
<1>3. \A c \in dead' : Refused(c)'
  BY <1>1, TokensKeep DEF IInv
<1>4. ASSUME NEW s \in Reqs, req'[s] # Idle PROVE Remembers(req[s])'
  <2>1. CASE s = r
    BY <1>4, <2>1
  <2>2. CASE s # r
    <3>1. req'[s] = req[s] /\ req[s] \in Request
      BY <1>1, <1>4, <2>2 DEF Others, TypeOK
    <3>2. Remembers(req[s])
      BY <1>4, <3>1 DEF IInv
    <3> QED
      BY <1>1, <3>1, <3>2, RemembersKeeps
  <2> QED
    BY <2>1, <2>2
<1> QED
  BY <1>2, <1>3, <1>4 DEF IInv, IsSession

-----------------------------------------------------------------------------
(* Steps of a request                                                      *)

\* A request goes to its next step and remembers what it did.
LEMMA Moves ==
    ASSUME TypeOK, NEW r \in Reqs, req[r] # Idle, NEW pc \in Steps, GoTo(r, pc)
    PROVE  /\ req' \in [Reqs -> Request \cup {Idle}] /\ Others(r)
           /\ req[r] \in Request /\ req'[r] \in Request /\ req'[r].pc = pc
           /\ req'[r].id = req[r].id /\ req'[r].snap = req[r].snap
           /\ req'[r].op = req[r].op /\ req'[r].old = req[r].old
<1>1. req \in [Reqs -> Request \cup {Idle}] /\ req[r] \in Request
  BY DEF TypeOK
<1> DEFINE v == [req[r] EXCEPT !.pc = pc]
<1>2. req' = [req EXCEPT ![r] = v]
  BY DEF GoTo
<1>3. /\ v \in Request /\ v.pc = pc /\ v.id = req[r].id /\ v.snap = req[r].snap
      /\ v.op = req[r].op /\ v.old = req[r].old
  BY <1>1 DEF Request
<1> HIDE DEF v
<1>4. req'[r] = v /\ req' \in [Reqs -> Request \cup {Idle}] /\ Others(r)
  BY <1>1, <1>2, <1>3 DEF Others
<1> QED
  BY <1>1, <1>3, <1>4

LEMMA Leaves ==
    ASSUME TypeOK, NEW r \in Reqs, Finish(r)
    PROVE  req' \in [Reqs -> Request \cup {Idle}] /\ Others(r) /\ req'[r] = Idle
  BY DEF TypeOK, Finish, Others

\* A step that takes the request on, whose demands at the new step are no more
\* than at the old one, but for those in the last hypotheses.
LEMMA MoveRemembers ==
    ASSUME IInv, TypeOK', Advance, NEW r \in Reqs, req[r] # Idle, NEW pc \in Steps, GoTo(r, pc),
           pc \in RegSteps <=> req[r].pc \in RegSteps,
           pc # "ldapWrite",
           pc \in SnapSteps => req[r].pc \in SnapSteps,
           pc \in PairSteps => req[r].pc \in PairSteps,
           pc = "enOn" => \A u \in Ids : u = req[r].id /\ Live(u)' => users'[u].pw # "initial",
           pc = "revoke" => \A c \in req[r].old : c.type # "api" => Refused(c)'
    PROVE  Remembers(req[r])'
<1>1. /\ TypeOK /\ req[r] \in Request /\ req'[r].pc = pc
      /\ req'[r].id = req[r].id /\ req'[r].snap = req[r].snap
      /\ req'[r].op = req[r].op /\ req'[r].old = req[r].old
  BY Moves DEF IInv
<1>2. Remembers(req[r])
  BY DEF IInv
<1> DEFINE q == req[r]
<1>3. /\ IF q.pc \in RegSteps THEN q.old = {} ELSE q.id \in Ids
      /\ q.pc \in SnapSteps => q.snap \in User
      /\ q.pc \in PairSteps => q.id \in known' /\ (Live(q.id)' => q.snap.gen <= users'[q.id].gen)
      /\ \A c \in q.old :
           /\ c.sub = q.id
           /\ IF c.type = "api" THEN c.gen \in ApiIds /\ api'[c.gen].owner = c.sub
                                ELSE IsSession(c) /\ NotAhead(c)'
      /\ q.op = "role" => \A c \in q.old : c.type # "api"
  BY <1>1, <1>2, RequestKeeps
<1>4. pc = "enOn" => (Live(req[r].id)' => users'[req'[r].id].pw # "initial")
  BY <1>1, <1>3 DEF RegSteps
<1> QED
  BY <1>1, <1>3, <1>4 DEF Remembers, IsSession

\* A request begins: it remembers what it read.
LEMMA Begins ==
    ASSUME IInv, NEW r \in Reqs, NEW pc \in Steps, NEW id \in Ids \cup {NoRow},
           NEW snap \in User \cup {NoRow}, NEW role \in Role,
           NEW op \in {"other", "role", "ldap"}, NEW old \in SUBSET Credential,
           Begin(r, pc, id, snap, role, op, old),
           UNCHANGED <<users, setupDone, api, issued, known, dead, crashed>>,
           Remembers([pc |-> pc, id |-> id, snap |-> snap, role |-> role, op |-> op, old |-> old])
    PROVE  IInv'
<1> DEFINE q == [pc |-> pc, id |-> id, snap |-> snap, role |-> role, op |-> op, old |-> old]
<1>1. q \in Request
  BY DEF Request
<1>2. req' = [req EXCEPT ![r] = q] /\ started' \in 0..MaxRequests
  BY AccountsAssumption DEF Begin, IInv, TypeOK
<1>3. Remembers(q)
  OBVIOUS
<1> HIDE DEF q
<1>4. req' \in [Reqs -> Request \cup {Idle}] /\ req'[r] = q /\ Others(r)
  BY <1>1, <1>2 DEF IInv, TypeOK, Others
<1>5. TypeOK'
  BY <1>2, <1>4 DEF IInv, TypeOK
<1>6. Tables'
  BY DEF IInv, Tables, Rows, Live, InitialPasswordReplaced
<1>7. Remembers(req[r])'
  BY <1>3, <1>4 DEF Remembers, NotAhead, Refused, Live
<1>8. Advance
  BY StayAdvance DEF IInv, TypeOK
<1> QED
  BY <1>4, <1>5, <1>6, <1>7, <1>8, Combine

\* The credentials of a user as an operation finds them.
LEMMA OldCredentials ==
    ASSUME IInv, NEW id \in Ids
    PROVE  /\ CredentialsOf(id) \subseteq Credential
           /\ \A c \in CredentialsOf(id) :
                /\ c.sub = id
                /\ IF c.type = "api" THEN c.gen \in ApiIds /\ api[c.gen].owner = c.sub
                                     ELSE IsSession(c) /\ NotAhead(c)
<1> SUFFICES ASSUME NEW c \in CredentialsOf(id)
             PROVE  /\ c \in Credential /\ c.sub = id
                    /\ IF c.type = "api" THEN c.gen \in ApiIds /\ api[c.gen].owner = c.sub
                                         ELSE IsSession(c) /\ NotAhead(c)
  OBVIOUS
<1>1. CASE c \in issued /\ c.sub = id /\ c.type \in {"access", "refresh"}
  BY <1>1 DEF IInv, TypeOK, IsSession
<1>2. CASE c \in ApiTokens /\ c.sub = id
  <2>1. PICK k \in ApiIds : api[k].live /\ c = Jwt("api", api[k].owner, "none", k)
    BY <1>2 DEF ApiTokens
  <2>2. c.type = "api" /\ c.gen = k /\ c.sub = api[k].owner /\ c.role = "none"
    BY <2>1 DEF Jwt
  <2>3. c \in Credential
    BY <1>2, <2>1, AccountsAssumption DEF Jwt, Credential
  <2> QED
    BY <1>2, <2>1, <2>2, <2>3
<1> QED
  BY <1>1, <1>2 DEF CredentialsOf

-----------------------------------------------------------------------------
(* The statements of the store                                             *)

\* An UPDATE of one row.
LEMMA UpdateAdvances ==
    ASSUME IInv, NEW id, NEW row, UpdateRow(id, row), UNCHANGED <<known, api>>,
           Live(id) => /\ row \in User /\ users[id].gen <= row.gen
                       /\ row.pw = "initial" => users[id].pw = "initial"
                       /\ row.totp = "on" => row.pw # "initial"
    PROVE  /\ Advance /\ Tables'
           /\ users' \in [Ids -> User \cup {NoRow}]
           /\ \A u \in Ids : Live(u)' <=> Live(u)
           /\ Live(id) => users'[id] = row
<1>1. TypeOK /\ Tables /\ users \in [Ids -> User \cup {NoRow}]
  BY DEF IInv, TypeOK
<1>2. CASE ~Live(id)
  <2>1. users' = users
    BY <1>2 DEF UpdateRow
  <2>2. Advance
    BY <1>1, <2>1, StayAdvance DEF TypeOK
  <2>3. Tables'
    BY <1>1, <2>1 DEF Tables, Rows, Live, InitialPasswordReplaced
  <2> QED
    BY <1>1, <1>2, <2>1, <2>2, <2>3 DEF Live
<1>3. CASE Live(id)
  <2>1. id \in Ids /\ users' = [users EXCEPT ![id] = row] /\ row # NoRow
    BY <1>3, AccountsAssumption DEF UpdateRow, Live
  <2>2. /\ users'[id] = row /\ users' \in [Ids -> User \cup {NoRow}]
        /\ \A u \in Ids \ {id} : users'[u] = users[u]
    BY <1>1, <1>3, <2>1
  <2>3. \A u \in Ids : Live(u)' <=> Live(u)
    BY <1>3, <2>1, <2>2 DEF Live
  <2>4. Advance
    <3>1. ASSUME NEW u \in known, Live(u)'
          PROVE  /\ Live(u) /\ users[u].gen <= users'[u].gen
                 /\ users'[u].pw = "initial" => users[u].pw = "initial"
      <4>1. u \in Ids /\ Live(u) /\ users[u].gen \in Nat
        BY <1>1, <2>3, <3>1, RowTypes DEF TypeOK
      <4> QED
        BY <1>3, <2>2, <4>1
    <3> QED
      BY <3>1 DEF Advance
  <2>5. Tables'
    BY <1>1, <1>3, <2>2, <2>3 DEF Tables, Rows, InitialPasswordReplaced
  <2> QED
    BY <1>3, <2>2, <2>3, <2>4, <2>5
<1> QED
  BY <1>2, <1>3

\* The updates that the handlers use.
LEMMA SetTotpAdvances ==
    ASSUME IInv, NEW id, NEW v \in {"none", "pending", "on"}, SetTotp(id, v),
           UNCHANGED <<known, api>>, v = "on" => (Live(id) => users[id].pw # "initial")
    PROVE  Advance /\ Tables' /\ users' \in [Ids -> User \cup {NoRow}]
<1> DEFINE row == [users[id] EXCEPT !.totp = v]
<1>1. ASSUME Live(id)
      PROVE  /\ row \in User /\ users[id].gen <= row.gen
             /\ row.pw = "initial" => users[id].pw = "initial"
             /\ row.totp = "on" => row.pw # "initial"
  <2>1. users[id] \in User /\ users[id].gen \in Nat
    BY <1>1, RowTypes DEF IInv
  <2>2. row \in User /\ row.gen = users[id].gen /\ row.pw = users[id].pw /\ row.totp = v
    BY <2>1 DEF User
  <2> QED
    BY <1>1, <2>1, <2>2
<1>2. UpdateRow(id, row)
  BY DEF SetTotp
<1> QED
  BY <1>1, <1>2, UpdateAdvances

LEMMA PasswordAdvances ==
    ASSUME IInv, NEW id, NEW pw \in {"own", "reset"}, UpdateUserPassword(id, pw),
           UNCHANGED <<known, api>>
    PROVE  /\ Advance /\ Tables' /\ users' \in [Ids -> User \cup {NoRow}]
           /\ id \in Ids => (Live(id)' => users'[id].pw # "initial")
<1> DEFINE row == [users[id] EXCEPT !.pw = pw]
<1>1. ASSUME Live(id)
      PROVE  /\ row \in User /\ users[id].gen <= row.gen
             /\ row.pw = "initial" => users[id].pw = "initial"
             /\ row.totp = "on" => row.pw # "initial"
             /\ row.pw # "initial"
  <2>1. users[id] \in User /\ users[id].gen \in Nat
    BY <1>1, RowTypes DEF IInv
  <2>2. row \in User /\ row.gen = users[id].gen /\ row.pw = pw
    BY <2>1 DEF User
  <2> QED
    BY <2>1, <2>2
<1>2. UpdateRow(id, row)
  BY DEF UpdateUserPassword
<1> HIDE DEF row
<1> QED
  BY <1>1, <1>2, UpdateAdvances

LEMMA RoleAdvances ==
    ASSUME IInv, NEW id, NEW role \in Role, UNCHANGED <<known, api>>,
           UpdateRow(id, [users[id] EXCEPT !.role = role])
    PROVE  Advance /\ Tables' /\ users' \in [Ids -> User \cup {NoRow}]
<1> DEFINE row == [users[id] EXCEPT !.role = role]
<1>1. ASSUME Live(id)
      PROVE  /\ row \in User /\ users[id].gen <= row.gen
             /\ row.pw = "initial" => users[id].pw = "initial"
             /\ row.totp = "on" => row.pw # "initial"
  <2>1. users[id] \in User /\ users[id].gen \in Nat /\ id \in Rows
    BY <1>1, RowTypes DEF IInv, Rows
  <2>2. row \in User /\ row.gen = users[id].gen /\ row.pw = users[id].pw
        /\ row.totp = users[id].totp
    BY <2>1 DEF User
  <2>3. users[id].totp = "on" => users[id].pw # "initial"
    BY <2>1 DEF IInv, Tables, InitialPasswordReplaced
  <2> QED
    BY <2>1, <2>2, <2>3
<1> QED
  BY <1>1, UpdateAdvances

LEMMA IncrementAdvances ==
    ASSUME IInv, NEW id, IncrementTokenGeneration(id), UNCHANGED <<known, api>>
    PROVE  /\ Advance /\ Tables' /\ users' \in [Ids -> User \cup {NoRow}]
           /\ Live(id) => users'[id].gen = users[id].gen + 1
           /\ \A u \in Ids : Live(u)' <=> Live(u)
<1> DEFINE row == [users[id] EXCEPT !.gen = @ + 1]
<1>1. ASSUME Live(id)
      PROVE  /\ row \in User /\ users[id].gen <= row.gen
             /\ row.pw = "initial" => users[id].pw = "initial"
             /\ row.totp = "on" => row.pw # "initial"
             /\ row.gen = users[id].gen + 1
  <2>1. users[id] \in User /\ users[id].gen \in Nat /\ id \in Rows
    BY <1>1, RowTypes DEF IInv, Rows
  <2>2. row \in User /\ row.gen = users[id].gen + 1 /\ row.pw = users[id].pw
        /\ row.totp = users[id].totp
    BY <2>1 DEF User
  <2>3. users[id].totp = "on" => users[id].pw # "initial"
    BY <2>1 DEF IInv, Tables, InitialPasswordReplaced
  <2> QED
    BY <2>1, <2>2, <2>3
<1>2. UpdateRow(id, row)
  BY DEF IncrementTokenGeneration
<1> HIDE DEF row
<1> QED
  BY <1>1, <1>2, UpdateAdvances

\* API tokens are revoked: owners stay, and nothing comes to life.
LEMMA RevokeFacts ==
    ASSUME TypeOK, NEW S, RevokeAll(S)
    PROVE  /\ api' \in [ApiIds -> ApiRow]
           /\ \A k \in ApiIds : /\ api'[k].owner = api[k].owner
                                /\ api'[k].live => api[k].live
                                /\ api[k].owner \in S => ~api'[k].live
<1> SUFFICES ASSUME NEW k \in ApiIds
             PROVE  /\ api'[k] \in ApiRow /\ api'[k].owner = api[k].owner
                    /\ api'[k].live => api[k].live
                    /\ api[k].owner \in S => ~api'[k].live
  BY DEF RevokeAll
<1>1. api[k] \in ApiRow
  BY DEF TypeOK
<1>2. api'[k] = IF api[k].owner \in S THEN [api[k] EXCEPT !.live = FALSE] ELSE api[k]
  BY DEF RevokeAll
<1> QED
  BY <1>1, <1>2 DEF ApiRow

LEMMA DeleteAdvances ==
    ASSUME IInv, NEW S, DeleteRows(S), UNCHANGED known
    PROVE  /\ Advance /\ Tables' /\ users' \in [Ids -> User \cup {NoRow}]
           /\ api' \in [ApiIds -> ApiRow]
           /\ \A id \in Ids \cap S : ~Live(id)'
           /\ \A k \in ApiIds : api'[k].owner = api[k].owner /\ (api[k].owner \in S => ~api'[k].live)
<1>1. TypeOK /\ Tables
  BY DEF IInv
<1>2. /\ api' \in [ApiIds -> ApiRow]
      /\ \A k \in ApiIds : /\ api'[k].owner = api[k].owner
                           /\ api'[k].live => api[k].live
                           /\ api[k].owner \in S => ~api'[k].live
  BY <1>1, RevokeFacts DEF DeleteRows
<1>3. /\ users' \in [Ids -> User \cup {NoRow}]
      /\ \A id \in Ids : users'[id] = IF id \in S THEN NoRow ELSE users[id]
  BY <1>1 DEF DeleteRows, TypeOK
<1>4. \A id \in Ids : Live(id)' => Live(id) /\ users'[id] = users[id] /\ id \notin S
  BY <1>3 DEF Live
<1>5. Advance
  <2>1. \A id \in known : Live(id)' => users[id].gen <= users'[id].gen
    BY <1>1, <1>4, RowTypes DEF TypeOK
  <2> QED
    BY <1>1, <1>2, <1>4, <2>1 DEF Advance, TypeOK
<1>6. Tables'
  BY <1>1, <1>2, <1>4 DEF Tables, Rows, InitialPasswordReplaced
<1> QED
  BY <1>2, <1>3, <1>4, <1>5, <1>6

\* A new row: its id was never used.
LEMMA CreateAdvances ==
    ASSUME IInv, NEW id, NEW row \in User, CreateUser(id, row), UNCHANGED api,
           row.totp = "on" => row.pw # "initial"
    PROVE  /\ Advance /\ Tables' /\ users' \in [Ids -> User \cup {NoRow}]
           /\ known' \subseteq Ids /\ id \in Ids
<1>1. TypeOK /\ Tables
  BY DEF IInv
<1>2. /\ id \in Ids \ known /\ users' = [users EXCEPT ![id] = row] /\ known' = known \cup {id}
  BY DEF CreateUser
<1>3. /\ users' \in [Ids -> User \cup {NoRow}] /\ known' \subseteq Ids
      /\ users'[id] = row /\ \A u \in Ids \ {id} : users'[u] = users[u]
  BY <1>1, <1>2 DEF TypeOK
<1>4. \A u \in known : u \in Ids /\ u # id /\ users'[u] = users[u] /\ (Live(u)' <=> Live(u))
  BY <1>1, <1>2, <1>3 DEF TypeOK, Live
<1>5. Advance
  <2>1. \A u \in known : Live(u)' => users[u].gen <= users'[u].gen
    BY <1>1, <1>4, RowTypes
  <2> QED
    BY <1>2, <1>4, <2>1 DEF Advance
<1>6. Tables'
  <2>1. \A u \in Rows' : u = id \/ (u \in Rows /\ users'[u] = users[u])
    BY <1>3 DEF Rows, Live
  <2> QED
    BY <1>1, <1>2, <1>3, <2>1 DEF Tables, InitialPasswordReplaced
<1> QED
  BY <1>2, <1>3, <1>5, <1>6

\* A request writes and is answered.
LEMMA WriteEnds ==
    ASSUME IInv, NEW r \in Reqs, Finish(r), Advance, Tables',
           users' \in [Ids -> User \cup {NoRow}], api' \in [ApiIds -> ApiRow],
           known' \subseteq Ids, setupDone' \in BOOLEAN, UNCHANGED <<started, crashed>>,
           issued' \subseteq Credential, dead' \subseteq Credential,
           \A c \in issued' \ issued : c.type # "api" /\ (IsSession(c) => NotAhead(c)'),
           \A c \in dead' \ dead : Refused(c)'
    PROVE  IInv'
<1>1. req' \in [Reqs -> Request \cup {Idle}] /\ Others(r) /\ req'[r] = Idle
  BY Leaves DEF IInv
<1>2. TypeOK'
  BY <1>1 DEF IInv, TypeOK
<1> QED
  BY <1>1, <1>2, Combine

\* A request writes and goes on.
LEMMA WriteGoes ==
    ASSUME IInv, NEW r \in Reqs, req[r] # Idle, NEW pc \in Steps, GoTo(r, pc), Advance, Tables',
           users' \in [Ids -> User \cup {NoRow}], api' \in [ApiIds -> ApiRow],
           known' \subseteq Ids, setupDone' \in BOOLEAN, UNCHANGED <<issued, started, crashed>>,
           dead' \subseteq Credential, \A c \in dead' \ dead : Refused(c)',
           pc \in RegSteps <=> req[r].pc \in RegSteps,
           pc # "ldapWrite",
           pc \in SnapSteps => req[r].pc \in SnapSteps,
           pc \in PairSteps => req[r].pc \in PairSteps,
           pc = "enOn" => \A u \in Ids : u = req[r].id /\ Live(u)' => users'[u].pw # "initial",
           pc = "revoke" => \A c \in req[r].old : c.type # "api" => Refused(c)'
    PROVE  IInv'
<1>1. req' \in [Reqs -> Request \cup {Idle}] /\ Others(r)
  BY Moves DEF IInv
<1>2. TypeOK'
  BY <1>1 DEF IInv, TypeOK
<1>3. Remembers(req[r])'
  BY <1>2, MoveRemembers
<1> QED
  BY <1>1, <1>2, <1>3, Combine

\* A step that leaves the tables alone.
LEMMA SameTables ==
    ASSUME IInv, UNCHANGED <<users, api, known>>
    PROVE  /\ Advance /\ Tables' /\ users' \in [Ids -> User \cup {NoRow}]
           /\ api' \in [ApiIds -> ApiRow] /\ known' \subseteq Ids
<1>1. Advance
  BY StayAdvance DEF IInv, TypeOK
<1>2. Tables'
  BY DEF IInv, Tables, Rows, Live, InitialPasswordReplaced
<1> QED
  BY <1>1, <1>2 DEF IInv, TypeOK

\* A statement of no request in hand.
LEMMA AtOnceHolds ==
    ASSUME IInv, Advance, Tables', UNCHANGED <<req, crashed>>, started' \in 0..MaxRequests,
           users' \in [Ids -> User \cup {NoRow}], api' \in [ApiIds -> ApiRow],
           known' \subseteq Ids, setupDone' \in BOOLEAN,
           issued' \subseteq Credential, dead' \subseteq Credential,
           \A c \in issued' \ issued : c.type # "api" /\ (IsSession(c) => NotAhead(c)'),
           \A c \in dead' \ dead : Refused(c)'
    PROVE  IInv'
<1>1. TypeOK' /\ TypeOK /\ issued \subseteq Credential /\ dead \subseteq Credential
  BY DEF IInv, TypeOK
<1>2. \A c \in issued' : c.type # "api" /\ (IsSession(c) => NotAhead(c)')
  BY <1>1, TokensKeep DEF IInv
<1>3. \A c \in dead' : Refused(c)'
  BY <1>1, TokensKeep DEF IInv
<1>4. ASSUME NEW s \in Reqs, req'[s] # Idle PROVE Remembers(req[s])'
  <2>1. req'[s] = req[s] /\ req[s] \in Request /\ Remembers(req[s])
    BY <1>1, <1>4 DEF IInv, TypeOK
  <2> QED
    BY <1>1, <2>1, RemembersKeeps
<1> QED
  BY <1>1, <1>2, <1>3, <1>4 DEF IInv, IsSession

\* What is known of a request in hand.
LEMMA InHand ==
    ASSUME IInv, NEW r \in Reqs, req[r] # Idle
    PROVE  /\ TypeOK /\ req[r] \in Request /\ Remembers(req[r])
           /\ issued \subseteq Credential /\ dead \subseteq Credential
           /\ setupDone \in BOOLEAN /\ known \subseteq Ids
           /\ api \in [ApiIds -> ApiRow] /\ users \in [Ids -> User \cup {NoRow}]
           /\ req[r].old \subseteq Credential /\ req[r].role \in Role
           /\ req[r].pc \notin RegSteps => req[r].id \in Ids
  BY DEF IInv, TypeOK, Request, Remembers

\* The tokens of one pair are credentials, of the generation they were made for.
LEMMA PairFacts ==
    ASSUME NEW id \in Ids, NEW role \in Role, NEW gen \in Nat
    PROVE  /\ Pair(id, role, gen) \subseteq Credential
           /\ \A c \in Pair(id, role, gen) : c.sub = id /\ c.gen = gen /\ IsSession(c) /\ c.type # "api"
  BY DEF Pair, Jwt, Credential, IsSession

-----------------------------------------------------------------------------
(* Requests begin                                                          *)

LEMMA BeginHolds ==
    ASSUME IInv, NEW r \in Reqs
    PROVE  /\ RegisterCheck(r) => IInv'
           /\ \A t \in issued : LoginTotp(r, t) \/ RefreshRead(r, t) \/ TotpSetup(r, t) \/ TotpEnable(r, t) => IInv'
<1>0. "viewer" \in Role /\ {} \in SUBSET Credential /\ "other" \in {"other", "role", "ldap"}
      /\ {"regClean", "pairReply", "refBump", "setupWrite", "enPass", "enOn"} \subseteq Steps
  BY DEF Role, Steps
<1>1. ASSUME RegisterCheck(r) PROVE IInv'
  <2>1. Remembers([pc |-> "regClean", id |-> NoRow, snap |-> NoRow, role |-> "viewer",
                   op |-> "other", old |-> {}])
    BY DEF Remembers, RegSteps, SnapSteps, PairSteps
  <2>2. /\ Begin(r, "regClean", NoRow, NoRow, "viewer", "other", {})
        /\ UNCHANGED <<users, setupDone, api, issued, known, dead, crashed>>
    BY <1>1 DEF RegisterCheck, BeginPlain
  <2> QED
    BY <1>0, <2>1, <2>2, Begins
<1>2. ASSUME NEW t \in issued, LoginTotp(r, t) \/ RefreshRead(r, t) \/ TotpSetup(r, t) \/ TotpEnable(r, t)
      PROVE  IInv'
  <2>1. Live(t.sub) /\ UNCHANGED <<users, setupDone, api, issued, known, dead, crashed>>
    BY <1>2 DEF LoginTotp, RefreshRead, TotpSetup, TotpEnable, Presented, Accepted
  <2>2. /\ t.sub \in Ids /\ t.sub \in known /\ users[t.sub] \in User /\ users[t.sub].gen \in Nat
    BY <2>1, RowTypes DEF IInv, Tables, Rows
  <2>3. PICK pc \in {"pairReply", "refBump", "setupWrite", "enPass", "enOn"} :
          /\ BeginPlain(r, pc, t.sub, users[t.sub])
          /\ pc = "enOn" => users[t.sub].pw # "initial"
    BY <1>2 DEF LoginTotp, RefreshRead, TotpSetup, TotpEnable, must
  <2> DEFINE q == [pc |-> pc, id |-> t.sub, snap |-> users[t.sub], role |-> "viewer",
                   op |-> "other", old |-> {}]
  <2>4. Remembers(q)
    BY <2>2, <2>3 DEF Remembers, RegSteps, SnapSteps, PairSteps
  <2>5. Begin(r, pc, t.sub, users[t.sub], "viewer", "other", {})
    BY <2>3 DEF BeginPlain
  <2>6. pc \in Steps
    BY <1>0
  <2> QED
    BY <1>0, <2>1, <2>2, <2>4, <2>5, <2>6, Begins
<1> QED
  BY <1>1, <1>2

\* Operations that invalidate collect the credentials of their user.
LEMMA CollectHolds ==
    ASSUME IInv, NEW r \in Reqs, NEW id \in Ids,
           NEW pc \in {"cpWrite", "tdWrite", "roleWrite", "rtTotp", "delWrite"},
           NEW role \in Role, NEW op \in {"other", "role"}, NEW old \in SUBSET CredentialsOf(id),
           op = "role" => \A c \in old : c.type # "api",
           Begin(r, pc, id, NoRow, role, op, old),
           UNCHANGED <<users, setupDone, api, issued, known, dead, crashed>>
    PROVE  IInv'
<1>1. Remembers([pc |-> pc, id |-> id, snap |-> NoRow, role |-> role, op |-> op, old |-> old])
  BY OldCredentials DEF Remembers, RegSteps, SnapSteps, PairSteps
<1>2. pc \in Steps /\ op \in {"other", "role", "ldap"} /\ old \in SUBSET Credential
  BY OldCredentials DEF Steps
<1> QED
  BY <1>1, <1>2, Begins

LEMMA InvalidateBegins ==
    ASSUME IInv, NEW r \in Reqs
    PROVE  /\ \A t \in issued : ChangePassword(r, t) => IInv'
           /\ \A t \in issued, id \in Ids : TotpDisable(r, t, id) => IInv'
           /\ \A c \in issued \cup ApiTokens, id \in Ids, role \in Role : UpdateUserRole(r, c, id, role) => IInv'
           /\ \A c \in issued \cup ApiTokens, id \in Ids : DeleteUser(r, c, id) => IInv'
           /\ \A id \in Ids : ResetTotp(r, id) => IInv'
<1>0. "viewer" \in Role
  BY DEF Role
<1>1. ASSUME NEW t \in issued, ChangePassword(r, t) PROVE IInv'
  <2>1. t.sub \in Ids
    BY DEF IInv, TypeOK, Credential
  <2> QED
    BY <1>0, <1>1, <2>1, CollectHolds DEF ChangePassword
<1>2. ASSUME NEW t \in issued, NEW id \in Ids, TotpDisable(r, t, id) PROVE IInv'
  BY <1>0, <1>2, CollectHolds DEF TotpDisable
<1>3. ASSUME NEW c \in issued \cup ApiTokens, NEW id \in Ids, NEW role \in Role,
             UpdateUserRole(r, c, id, role)
      PROVE  IInv'
  <2> DEFINE old == {d \in CredentialsOf(id) : d.type # "api"}
  <2>1. old \in SUBSET CredentialsOf(id) /\ \A d \in old : d.type # "api"
    OBVIOUS
  <2>2. /\ Begin(r, "roleWrite", id, NoRow, role, "role", old)
        /\ UNCHANGED <<users, setupDone, api, issued, known, dead, crashed>>
    BY <1>3 DEF UpdateUserRole
  <2> HIDE DEF old
  <2> QED
    BY <2>1, <2>2, CollectHolds
<1>4. ASSUME NEW c \in issued \cup ApiTokens, NEW id \in Ids, DeleteUser(r, c, id) PROVE IInv'
  BY <1>0, <1>4, CollectHolds DEF DeleteUser
<1>5. ASSUME NEW id \in Ids, ResetTotp(r, id) PROVE IInv'
  BY <1>0, <1>5, CollectHolds DEF ResetTotp
<1> QED
  BY <1>1, <1>2, <1>3, <1>4, <1>5

\* A row that is about to be created.
LEMMA NewUserFacts ==
    ASSUME NEW n \in Names, NEW role \in Role, NEW provider \in {"local", "ldap"},
           NEW pw \in {"own", "initial", "reset"}, NEW via \in {"register", "admin", "ldap"}
    PROVE  /\ NewUser(n, role, provider, pw, via) \in User
           /\ NewUser(n, role, provider, pw, via).totp = "none"
           /\ NewUser(n, role, provider, pw, via).pw = pw
  BY DEF NewUser, User

LEMMA LdapFindHolds ==
    ASSUME IInv, NEW r \in Reqs, NEW who \in Authenticate, LdapFind(r, who)
    PROVE  IInv'
<1> DEFINE role == mapLDAPRole(who.groups)
<1>1. role \in Role /\ who.name \in Names
  BY DEF LdapFind, mapLDAPRole, Role, Authenticate
<1>2. UNCHANGED <<users, setupDone, api, issued, known, dead, crashed>>
  BY DEF LdapFind
<1>3. "ldapWrite" \in Steps /\ {"other", "ldap"} \subseteq {"other", "role", "ldap"}
  BY DEF Steps
<1>4. ASSUME NEW id \in Ids \ known,
             Begin(r, "ldapWrite", id, NewUser(who.name, role, "ldap", "own", "ldap"), role, "other", {})
      PROVE  IInv'
  <2> DEFINE snap == NewUser(who.name, role, "ldap", "own", "ldap")
  <2>1. snap \in User /\ snap.pw # "initial"
    BY <1>1, NewUserFacts
  <2> HIDE DEF snap
  <2>2. Remembers([pc |-> "ldapWrite", id |-> id, snap |-> snap, role |-> role, op |-> "other", old |-> {}])
    BY <2>1 DEF Remembers, RegSteps, SnapSteps, PairSteps
  <2>3. Begin(r, "ldapWrite", id, snap, role, "other", {})
    BY <1>4 DEF snap
  <2>4. {} \in SUBSET Credential
    OBVIOUS
  <2> HIDE DEF role
  <2> QED
    BY <1>1, <1>2, <1>3, <2>1, <2>2, <2>3, <2>4, Begins
<1>5. ASSUME NEW id \in Ids, Live(id),
             Begin(r, "ldapWrite", id, users[id], role, "ldap", CredentialsOf(id))
      PROVE  IInv'
  <2>1. users[id] \in User
    BY <1>5, RowTypes DEF IInv
  <2>2. Remembers([pc |-> "ldapWrite", id |-> id, snap |-> users[id], role |-> role, op |-> "ldap",
                   old |-> CredentialsOf(id)])
    BY <2>1, OldCredentials DEF Remembers, RegSteps, SnapSteps, PairSteps
  <2>3. CredentialsOf(id) \in SUBSET Credential
    BY OldCredentials
  <2> HIDE DEF role
  <2> QED
    BY <1>1, <1>2, <1>3, <1>5, <2>1, <2>2, <2>3, Begins
<1> QED
  BY <1>4, <1>5 DEF LdapFind, findExistingLDAPUser, Rows

-----------------------------------------------------------------------------
(* First registration                                                      *)

LEMMA RegisterCleanHolds == ASSUME IInv, NEW r \in Reqs, RegisterClean(r) PROVE IInv'
<1>1. /\ req[r] # Idle /\ req[r].pc = "regClean" /\ DeleteIncompleteUsers
      /\ UNCHANGED <<setupDone, issued, known, started, dead, crashed>>
  BY DEF RegisterClean, At
<1>2. /\ Advance /\ Tables' /\ users' \in [Ids -> User \cup {NoRow}] /\ api' \in [ApiIds -> ApiRow]
  BY <1>1, DeleteAdvances DEF DeleteIncompleteUsers
<1>3. /\ issued' \subseteq Credential /\ dead' \subseteq Credential /\ setupDone' \in BOOLEAN
      /\ known' \subseteq Ids
  BY <1>1, InHand
<1>4. CASE Finish(r)
  BY <1>1, <1>2, <1>3, <1>4, WriteEnds
<1>5. CASE GoTo(r, "regCreate")
  <2>1. "regCreate" \in Steps /\ "regCreate" \in RegSteps /\ req[r].pc \in RegSteps
        /\ "regCreate" \notin SnapSteps \cup PairSteps
    BY <1>1 DEF Steps, RegSteps, SnapSteps, PairSteps
  <2> QED
    BY <1>1, <1>2, <1>3, <1>5, <2>1, WriteGoes
<1> QED
  BY <1>4, <1>5 DEF RegisterClean

LEMMA RegisterCreateHolds == ASSUME IInv, NEW r \in Reqs, RegisterCreate(r) PROVE IInv'
<1>1. /\ req[r] # Idle /\ req[r].pc = "regCreate"
      /\ UNCHANGED <<setupDone, api, issued, started, dead, crashed>>
  BY DEF RegisterCreate, At
<1>2. /\ TypeOK /\ issued' \subseteq Credential /\ dead' \subseteq Credential
      /\ setupDone' \in BOOLEAN /\ api' \in [ApiIds -> ApiRow]
      /\ req[r] \in Request /\ Remembers(req[r])
  BY <1>1, InHand
<1>3. ASSUME NEW id \in Ids, NEW n \in Names,
             CreateUser(id, NewUser(n, "admin", "local", "own", "register")),
             req' = [req EXCEPT ![r].pc = "regRecount", ![r].id = id]
      PROVE  IInv'
  <2> DEFINE row == NewUser(n, "admin", "local", "own", "register")
             v == [req[r] EXCEPT !.pc = "regRecount", !.id = id]
  <2>1. row \in User /\ row.totp = "none"
    BY NewUserFacts DEF Role
  <2>2. Advance /\ Tables' /\ users' \in [Ids -> User \cup {NoRow}] /\ known' \subseteq Ids
    BY <1>1, <1>3, <2>1, CreateAdvances
  <2>3. req' = [req EXCEPT ![r] = v]
    BY <1>2, <1>3 DEF TypeOK
  <2>4. v \in Request /\ v.pc = "regRecount" /\ v.id = id /\ v.old = req[r].old
    BY <1>2 DEF Request, Steps
  <2>5. v.old = {}
    BY <1>1, <1>2, <2>4 DEF Remembers, RegSteps
  <2> HIDE DEF v
  <2>6. req' \in [Reqs -> Request \cup {Idle}] /\ req'[r] = v /\ Others(r)
    BY <1>2, <2>3, <2>4 DEF TypeOK, Others
  <2>7. TypeOK'
    BY <1>1, <1>2, <2>2, <2>6 DEF TypeOK
  <2>8. Remembers(req[r])'
    BY <2>4, <2>5, <2>6 DEF Remembers, RegSteps, SnapSteps, PairSteps
  <2> QED
    BY <1>1, <2>2, <2>6, <2>7, <2>8, Combine
<1>4. CASE Finish(r) /\ UNCHANGED <<users, known>>
  BY <1>1, <1>2, <1>4, SameTables, WriteEnds
<1> QED
  BY <1>3, <1>4 DEF RegisterCreate

LEMMA RegisterRecountHolds == ASSUME IInv, NEW r \in Reqs, RegisterRecount(r) PROVE IInv'
<1>1. /\ req[r] # Idle /\ req[r].pc = "regRecount"
      /\ UNCHANGED <<users, setupDone, api, known, started, dead, crashed>>
  BY DEF RegisterRecount, At
<1>2. issued \subseteq Credential /\ dead' \subseteq Credential /\ setupDone' \in BOOLEAN
      /\ req[r].id \in Ids
  BY <1>1, InHand DEF RegSteps
<1>3. /\ Advance /\ Tables' /\ users' \in [Ids -> User \cup {NoRow}]
      /\ api' \in [ApiIds -> ApiRow] /\ known' \subseteq Ids
  BY <1>1, SameTables
<1>4. CASE GoTo(r, "regUndo") /\ UNCHANGED issued
  <2>1. "regUndo" \in Steps /\ "regUndo" \notin RegSteps \cup SnapSteps \cup PairSteps
        /\ req[r].pc \notin RegSteps
    BY <1>1 DEF Steps, RegSteps, SnapSteps, PairSteps
  <2> QED
    BY <1>1, <1>2, <1>3, <1>4, <2>1, WriteGoes
<1>5. CASE Finish(r) /\ issued' = issued \cup {Jwt("setup", req[r].id, "admin", 0)}
  <2> DEFINE t == Jwt("setup", req[r].id, "admin", 0)
  <2>1. t \in Credential /\ t.type = "setup"
    BY <1>2 DEF Jwt, Credential, Role
  <2> HIDE DEF t
  <2>2. issued' = issued \cup {t}
    BY <1>5 DEF t
  <2>3. issued' \subseteq Credential /\ \A c \in issued' \ issued : c.type # "api" /\ ~IsSession(c)
    BY <1>2, <2>1, <2>2 DEF IsSession
  <2> QED
    BY <1>1, <1>2, <1>3, <1>5, <2>3, WriteEnds
<1> QED
  BY <1>4, <1>5 DEF RegisterRecount

LEMMA RegisterUndoHolds == ASSUME IInv, NEW r \in Reqs, RegisterUndo(r) PROVE IInv'
<1>1. /\ req[r] # Idle /\ DeleteRows({req[r].id}) /\ Finish(r)
      /\ UNCHANGED <<setupDone, issued, known, started, dead, crashed>>
  BY DEF RegisterUndo, At
<1> QED
  BY <1>1, DeleteAdvances, InHand, WriteEnds

-----------------------------------------------------------------------------
(* Tokens are handed out                                                   *)

\* A token that is good for the second factor only.
LEMMA PrimaryFacts ==
    ASSUME TypeOK, NEW id, Live(id)
    PROVE  PrimaryToken(id) \in Credential /\ PrimaryToken(id).type \in {"totp", "setup"}
<1>1. id \in Ids /\ users[id].role \in Role
  BY RowTypes DEF User
<1> QED
  BY <1>1 DEF PrimaryToken, Jwt, Credential

\* A request that only hands out tokens, and not from the future.
LEMMA ReplyHolds ==
    ASSUME IInv, NEW r \in Reqs, Finish(r), req[r] # Idle,
           UNCHANGED <<users, setupDone, api, known, started, dead, crashed>>,
           issued' \subseteq Credential,
           \A c \in issued' \ issued : c.type # "api" /\ (IsSession(c) => NotAhead(c))
    PROVE  IInv'
<1>1. \A c \in issued' \ issued : c.type # "api" /\ (IsSession(c) => NotAhead(c)')
  BY DEF NotAhead, Live
<1> QED
  BY <1>1, SameTables, InHand, WriteEnds

LEMMA LdapReplyHolds == ASSUME IInv, NEW r \in Reqs, LdapReply(r) PROVE IInv'
<1>1. /\ req[r] # Idle /\ Finish(r)
      /\ issued' = IF Live(req[r].id) THEN issued \cup {PrimaryToken(req[r].id)} ELSE issued
      /\ UNCHANGED <<users, setupDone, api, known, started, dead, crashed>>
  BY DEF LdapReply, At
<1>2. TypeOK /\ issued \subseteq Credential
  BY <1>1, InHand
<1>3. issued' \subseteq Credential /\ \A c \in issued' \ issued : c.type # "api" /\ ~IsSession(c)
  BY <1>1, <1>2, PrimaryFacts DEF IsSession
<1> QED
  BY <1>1, <1>3, ReplyHolds

\* handleLoginTOTP and handleTOTPEnable issue a pair of the generation they
\* read; it may be refused from the start, and is never from the future.
LEMMA PairHolds ==
    ASSUME IInv, NEW r \in Reqs, PairReply(r) \/ TotpEnableReply(r)
    PROVE  IInv'
<1> DEFINE q == req[r]
<1>1. /\ q # Idle /\ q.pc \in {"pairReply", "enReply"} /\ Finish(r)
      /\ issued' \subseteq issued \cup Pair(q.id, q.snap.role, q.snap.gen)
      /\ UNCHANGED <<users, setupDone, api, known, started, dead, crashed>>
  BY DEF PairReply, TotpEnableReply, At
<1>2. /\ issued \subseteq Credential /\ Remembers(q)
  BY <1>1, InHand
<1>3. /\ q.id \in Ids /\ q.snap \in User /\ q.id \in known
      /\ Live(q.id) => q.snap.gen <= users[q.id].gen
  BY <1>1, <1>2 DEF Remembers, RegSteps, SnapSteps, PairSteps
<1>4. q.snap.role \in Role /\ q.snap.gen \in Nat
  BY <1>3 DEF User
<1> HIDE DEF q
<1>5. /\ Pair(q.id, q.snap.role, q.snap.gen) \subseteq Credential
      /\ \A c \in Pair(q.id, q.snap.role, q.snap.gen) :
           c.sub = q.id /\ c.gen = q.snap.gen /\ IsSession(c) /\ c.type # "api"
  BY <1>3, <1>4, PairFacts
<1>6. issued' \subseteq Credential
  BY <1>1, <1>2, <1>5
<1>7. \A c \in issued' \ issued : c.type # "api" /\ NotAhead(c)
  BY <1>1, <1>3, <1>5 DEF NotAhead
<1> QED
  BY <1>1, <1>6, <1>7, ReplyHolds DEF q

LEMMA RefreshReplyHolds == ASSUME IInv, NEW r \in Reqs, RefreshReply(r) PROVE IInv'
<1> DEFINE id == req[r].id
           role == req[r].snap.role
<1>1. /\ req[r] # Idle /\ req[r].pc = "refReply" /\ Finish(r)
      /\ issued' = IF Live(id) THEN issued \cup Pair(id, role, users[id].gen) ELSE issued
      /\ UNCHANGED <<users, setupDone, api, known, started, dead, crashed>>
  BY DEF RefreshReply, At
<1>2. TypeOK /\ issued \subseteq Credential /\ Remembers(req[r]) /\ Rows \subseteq known
  BY <1>1, InHand DEF IInv, Tables
<1>3. id \in Ids /\ role \in Role
  BY <1>1, <1>2 DEF Remembers, RegSteps, SnapSteps, User
<1> HIDE DEF id, role
<1>4. CASE Live(id)
  <2>1. users[id].gen \in Nat /\ id \in known
    BY <1>2, <1>3, <1>4, RowTypes DEF Rows
  <2>2. /\ Pair(id, role, users[id].gen) \subseteq Credential
        /\ \A c \in Pair(id, role, users[id].gen) :
             c.sub = id /\ c.gen = users[id].gen /\ IsSession(c) /\ c.type # "api"
    BY <1>3, <2>1, PairFacts
  <2>3. issued' \subseteq Credential
    BY <1>1, <1>2, <1>4, <2>2
  <2>4. \A c \in issued' \ issued : c.type # "api" /\ NotAhead(c)
    BY <1>1, <1>4, <2>1, <2>2 DEF NotAhead
  <2> QED
    BY <1>1, <2>3, <2>4, ReplyHolds
<1>5. CASE ~Live(id)
  BY <1>1, <1>2, <1>5, ReplyHolds
<1> QED
  BY <1>4, <1>5

-----------------------------------------------------------------------------
(* Rows are written                                                        *)

LEMMA LdapWriteHolds == ASSUME IInv, NEW r \in Reqs, LdapWrite(r) PROVE IInv'
<1> DEFINE q == req[r]
<1>1. /\ q # Idle /\ q.pc = "ldapWrite"
      /\ UNCHANGED <<setupDone, api, issued, started, dead, crashed>>
  BY DEF LdapWrite, At
<1>2. /\ TypeOK /\ Remembers(q) /\ issued' \subseteq Credential /\ dead' \subseteq Credential
      /\ setupDone' \in BOOLEAN /\ api' \in [ApiIds -> ApiRow] /\ q.role \in Role
      /\ known \subseteq Ids
  BY <1>1, InHand
<1>3. /\ {"ldapReply", "rotate"} \subseteq Steps /\ q.pc \notin RegSteps
      /\ {"ldapReply", "rotate"} \cap (RegSteps \cup SnapSteps \cup PairSteps) = {}
  BY <1>1 DEF Steps, RegSteps, SnapSteps, PairSteps
<1>4. CASE q.op = "other" /\ CreateUser(q.id, q.snap) /\ GoTo(r, "ldapReply")
  <2>1. q.snap \in User /\ q.snap.pw # "initial"
    BY <1>1, <1>2, <1>4 DEF Remembers, SnapSteps
  <2>2. Advance /\ Tables' /\ users' \in [Ids -> User \cup {NoRow}] /\ known' \subseteq Ids
    BY <1>1, <1>4, <2>1, CreateAdvances
  <2> QED
    BY <1>1, <1>2, <1>3, <1>4, <2>2, WriteGoes
<1>5. CASE Finish(r) /\ UNCHANGED <<users, known>>
  BY <1>1, <1>2, <1>5, SameTables, WriteEnds
<1>6. ASSUME updateLDAPUser(q.id, q.role), UNCHANGED known,
             NEW pc \in {"rotate", "ldapReply"}, GoTo(r, pc)
      PROVE  IInv'
  <2>1. Advance /\ Tables' /\ users' \in [Ids -> User \cup {NoRow}] /\ known' \subseteq Ids
    BY <1>1, <1>2, <1>6, RoleAdvances DEF updateLDAPUser
  <2>2. /\ pc \in Steps /\ pc \notin RegSteps \cup SnapSteps \cup PairSteps
        /\ pc \notin {"ldapWrite", "enOn", "revoke"}
    BY <1>3
  <2> QED
    BY <1>1, <1>2, <1>3, <1>6, <2>1, <2>2, WriteGoes
<1> QED
  BY <1>4, <1>5, <1>6 DEF LdapWrite

\* One write, and the request goes on or ends: the steps that change one
\* field of one row and hand out nothing.
LEMMA FieldHolds ==
    ASSUME IInv, NEW r \in Reqs, req[r] # Idle, req[r].pc \notin RegSteps, NEW pc \in Steps,
           Finish(r) \/ GoTo(r, pc),
           pc \notin RegSteps \cup {"ldapWrite", "revoke"},
           pc \in SnapSteps => req[r].pc \in SnapSteps,
           pc \in PairSteps => req[r].pc \in PairSteps,
           pc = "enOn" => \A u \in Ids : u = req[r].id /\ Live(u)' => users'[u].pw # "initial",
           UNCHANGED <<api, issued, known, started, dead, crashed>>, setupDone' \in BOOLEAN,
           Advance, Tables', users' \in [Ids -> User \cup {NoRow}]
    PROVE  IInv'
<1>1. issued' \subseteq Credential /\ dead' \subseteq Credential /\ known' \subseteq Ids
      /\ api' \in [ApiIds -> ApiRow]
  BY InHand
<1>2. CASE Finish(r)
  BY <1>1, <1>2, WriteEnds
<1>3. CASE GoTo(r, pc)
  BY <1>1, <1>3, WriteGoes
<1> QED
  BY <1>2, <1>3

LEMMA FieldsHold ==
    ASSUME IInv, NEW r \in Reqs
    PROVE  /\ RefreshBump(r) => IInv'
           /\ TotpSetupWrite(r) => IInv'
           /\ TotpEnablePassword(r) => IInv'
           /\ TotpEnableOn(r) => IInv'
           /\ TotpEnableMark(r) => IInv'
           /\ ChangePasswordWrite(r) => IInv'
           /\ TotpDisableWrite(r) => IInv'
           /\ UpdateUserRoleWrite(r) => IInv'
           /\ ResetTotpStep(r) => IInv'
<1> USE DEF At
<1>0. setupDone \in BOOLEAN
  BY DEF IInv, TypeOK
<1>1. ASSUME RefreshBump(r) PROVE IInv'
  <2>1. /\ req[r] # Idle /\ req[r].pc = "refBump" /\ GoTo(r, "refReply")
        /\ IncrementTokenGeneration(req[r].id)
        /\ UNCHANGED <<setupDone, api, issued, known, started, dead, crashed>>
    BY <1>1 DEF RefreshBump
  <2>2. Advance /\ Tables' /\ users' \in [Ids -> User \cup {NoRow}]
    BY <2>1, IncrementAdvances
  <2>3. "refReply" \in Steps /\ "refReply" \notin RegSteps \cup PairSteps /\ req[r].pc \notin RegSteps
        /\ req[r].pc \in SnapSteps
    BY <2>1 DEF Steps, RegSteps, SnapSteps, PairSteps
  <2> QED
    BY <1>0, <2>1, <2>2, <2>3, FieldHolds
<1>2. ASSUME TotpSetupWrite(r) PROVE IInv'
  <2>1. /\ req[r] # Idle /\ req[r].pc = "setupWrite" /\ Finish(r) /\ SetTotp(req[r].id, "pending")
        /\ UNCHANGED <<setupDone, api, issued, known, started, dead, crashed>>
    BY <1>2 DEF TotpSetupWrite
  <2>2. Advance /\ Tables' /\ users' \in [Ids -> User \cup {NoRow}]
    BY <2>1, SetTotpAdvances
  <2>3. "rotate" \in Steps /\ "rotate" \notin RegSteps \cup SnapSteps \cup PairSteps /\ req[r].pc \notin RegSteps
    BY <2>1 DEF Steps, RegSteps, SnapSteps, PairSteps
  <2> QED
    BY <1>0, <2>1, <2>2, <2>3, FieldHolds
<1>3. ASSUME TotpEnablePassword(r) PROVE IInv'
  <2>1. /\ req[r] # Idle /\ req[r].pc = "enPass"
        /\ UNCHANGED <<setupDone, api, issued, known, started, dead, crashed>>
    BY <1>3 DEF TotpEnablePassword
  <2>2. /\ "enOn" \in Steps /\ "enOn" \notin RegSteps /\ req[r].pc \notin RegSteps
        /\ req[r].pc \in SnapSteps /\ req[r].pc \in PairSteps
        /\ "rotate" \in Steps /\ "rotate" \notin RegSteps \cup SnapSteps \cup PairSteps
    BY <2>1 DEF Steps, RegSteps, SnapSteps, PairSteps
  <2>3. CASE Finish(r) /\ UNCHANGED users
    <3>1. Advance /\ Tables' /\ users' \in [Ids -> User \cup {NoRow}]
      BY <2>1, <2>3, SameTables
    <3> QED
      BY <1>0, <2>1, <2>2, <2>3, <3>1, FieldHolds
  <2>4. CASE UpdateUserPassword(req[r].id, "own") /\ GoTo(r, "enOn")
    <3>1. req[r].id \in Ids
      BY <2>1, <2>2, InHand
    <3>2. /\ Advance /\ Tables' /\ users' \in [Ids -> User \cup {NoRow}]
          /\ \A u \in Ids : u = req[r].id /\ Live(u)' => users'[u].pw # "initial"
      <4>1. ASSUME NEW u \in Ids, u = req[r].id
            PROVE  /\ Advance /\ Tables' /\ users' \in [Ids -> User \cup {NoRow}]
                   /\ Live(u)' => users'[u].pw # "initial"
        BY <2>1, <2>4, <4>1, PasswordAdvances
      <4> QED
        BY <3>1, <4>1
    <3> QED
      BY <1>0, <2>1, <2>2, <2>4, <3>2, FieldHolds
  <2> QED
    BY <1>3, <2>3, <2>4 DEF TotpEnablePassword
<1>4. ASSUME TotpEnableOn(r) PROVE IInv'
  <2>1. /\ req[r] # Idle /\ req[r].pc = "enOn" /\ GoTo(r, "enMark") /\ SetTotp(req[r].id, "on")
        /\ UNCHANGED <<setupDone, api, issued, known, started, dead, crashed>>
    BY <1>4 DEF TotpEnableOn
  <2>2. Live(req[r].id) => users[req[r].id].pw # "initial"
    BY <2>1, InHand DEF Remembers
  <2>3. Advance /\ Tables' /\ users' \in [Ids -> User \cup {NoRow}]
    BY <2>1, <2>2, SetTotpAdvances
  <2>4. /\ "enMark" \in Steps /\ "enMark" \notin RegSteps /\ req[r].pc \notin RegSteps
        /\ req[r].pc \in SnapSteps /\ req[r].pc \in PairSteps
    BY <2>1 DEF Steps, RegSteps, SnapSteps, PairSteps
  <2> QED
    BY <1>0, <2>1, <2>3, <2>4, FieldHolds
<1>5. ASSUME TotpEnableMark(r) PROVE IInv'
  <2>1. /\ req[r] # Idle /\ req[r].pc = "enMark" /\ GoTo(r, "enReply") /\ setupDone' = TRUE
        /\ UNCHANGED <<users, api, issued, known, started, dead, crashed>>
    BY <1>5 DEF TotpEnableMark
  <2>2. Advance /\ Tables' /\ users' \in [Ids -> User \cup {NoRow}] /\ setupDone' \in BOOLEAN
    BY <2>1, SameTables
  <2>3. /\ "enReply" \in Steps /\ "enReply" \notin RegSteps /\ req[r].pc \notin RegSteps
        /\ req[r].pc \in SnapSteps /\ req[r].pc \in PairSteps
    BY <2>1 DEF Steps, RegSteps, SnapSteps, PairSteps
  <2> QED
    BY <2>1, <2>2, <2>3, FieldHolds
<1>6. {"rotate", "rtPass", "rtMark"} \subseteq Steps
      /\ {"rotate", "rtPass", "rtMark"} \cap (RegSteps \cup SnapSteps \cup PairSteps) = {}
      /\ {"cpWrite", "tdWrite", "roleWrite", "rtTotp", "rtPass", "rtMark"} \cap RegSteps = {}
  BY DEF Steps, RegSteps, SnapSteps, PairSteps
\* The steps of the operations that invalidate, before the generation is incremented.
<1>7. ASSUME NEW pc \in {"rotate", "rtPass", "rtMark"},
             req[r] # Idle, req[r].pc \in {"cpWrite", "tdWrite", "roleWrite", "rtTotp", "rtPass", "rtMark"},
             Finish(r) \/ GoTo(r, pc),
             UNCHANGED <<api, issued, known, started, dead, crashed>>, setupDone' \in BOOLEAN,
             Advance, Tables', users' \in [Ids -> User \cup {NoRow}]
      PROVE  IInv'
  <2>1. pc \in Steps /\ pc \notin RegSteps \cup SnapSteps \cup PairSteps /\ req[r].pc \notin RegSteps
        /\ pc \notin {"ldapWrite", "revoke", "enOn"}
    BY <1>6, <1>7
  <2> QED
    BY <1>7, <2>1, FieldHolds
<1>8. ASSUME ChangePasswordWrite(r) PROVE IInv'
  <2>1. UpdateUserPassword(req[r].id, "own") /\ UNCHANGED <<known, api>>
    BY <1>8 DEF ChangePasswordWrite
  <2>2. Advance /\ Tables' /\ users' \in [Ids -> User \cup {NoRow}]
    BY <2>1, PasswordAdvances
  <2> QED
    BY <1>0, <1>7, <1>8, <2>2 DEF ChangePasswordWrite
<1>9. ASSUME TotpDisableWrite(r) PROVE IInv'
  <2>1. SetTotp(req[r].id, "none") /\ UNCHANGED <<known, api>>
    BY <1>9 DEF TotpDisableWrite
  <2>2. Advance /\ Tables' /\ users' \in [Ids -> User \cup {NoRow}]
    BY <2>1, SetTotpAdvances
  <2> QED
    BY <1>0, <1>7, <1>9, <2>2 DEF TotpDisableWrite
<1>10. ASSUME UpdateUserRoleWrite(r) PROVE IInv'
  <2>1. /\ req[r] # Idle /\ req[r].pc = "roleWrite"
        /\ UNCHANGED <<setupDone, api, issued, known, started, dead, crashed>>
    BY <1>10 DEF UpdateUserRoleWrite
  <2>2. CASE /\ Live(req[r].id) /\ users' = [users EXCEPT ![req[r].id].role = req[r].role]
             /\ GoTo(r, "rotate")
    <3>1. UpdateRow(req[r].id, [users[req[r].id] EXCEPT !.role = req[r].role])
      BY <2>2 DEF UpdateRow
    <3>2. Advance /\ Tables' /\ users' \in [Ids -> User \cup {NoRow}]
      BY <2>1, <3>1, InHand, RoleAdvances
    <3> QED
      BY <1>0, <1>7, <2>1, <2>2, <3>2
  <2>3. CASE Finish(r) /\ UNCHANGED users
    <3>1. Advance /\ Tables' /\ users' \in [Ids -> User \cup {NoRow}]
      BY <2>1, <2>3, SameTables
    <3> QED
      BY <1>0, <1>7, <2>1, <2>3, <3>1
  <2> QED
    BY <1>10, <2>2, <2>3 DEF UpdateUserRoleWrite
<1>11. ASSUME ResetTotpStep(r) PROVE IInv'
  <2>1. UNCHANGED <<api, issued, known, started, dead, crashed>>
    BY <1>11 DEF ResetTotpStep
  <2>2. CASE At(r, "rtTotp") /\ SetTotp(req[r].id, "none") /\ GoTo(r, "rtPass") /\ UNCHANGED setupDone
    <3>1. Advance /\ Tables' /\ users' \in [Ids -> User \cup {NoRow}]
      BY <2>1, <2>2, SetTotpAdvances
    <3> QED
      BY <1>0, <1>7, <2>1, <2>2, <3>1
  <2>3. CASE At(r, "rtPass") /\ UpdateUserPassword(req[r].id, "reset") /\ GoTo(r, "rtMark") /\ UNCHANGED setupDone
    <3>1. Advance /\ Tables' /\ users' \in [Ids -> User \cup {NoRow}]
      BY <2>1, <2>3, PasswordAdvances
    <3> QED
      BY <1>0, <1>7, <2>1, <2>3, <3>1
  <2>4. CASE At(r, "rtMark") /\ setupDone' = TRUE /\ GoTo(r, "rotate") /\ UNCHANGED users
    <3>1. Advance /\ Tables' /\ users' \in [Ids -> User \cup {NoRow}] /\ setupDone' \in BOOLEAN
      BY <2>1, <2>4, SameTables
    <3> QED
      BY <1>7, <2>1, <2>4, <3>1
  <2> QED
    BY <1>11, <2>2, <2>3, <2>4 DEF ResetTotpStep
<1> QED
  BY <1>1, <1>2, <1>3, <1>4, <1>5, <1>8, <1>9, <1>10, <1>11

-----------------------------------------------------------------------------
(* Credentials are invalidated                                             *)

\* Once the generation has been incremented, the sessions are refused.
LEMMA RotateRefuses ==
    ASSUME IInv, NEW r \in Reqs, req[r] # Idle, req[r].pc = "rotate",
           NEW id, id = req[r].id, Live(id), IncrementTokenGeneration(id), UNCHANGED <<known, api>>
    PROVE  \A c \in req[r].old : c.type # "api" => Refused(c)'
<1> SUFFICES ASSUME NEW c \in req[r].old, c.type # "api" PROVE Refused(c)'
  OBVIOUS
<1>1. /\ TypeOK /\ Remembers(req[r]) /\ c \in Credential
  BY InHand
<1>2. c.sub = id /\ NotAhead(c) /\ c.gen \in Nat
  BY <1>1 DEF Remembers, Credential
<1>3. users'[id].gen = users[id].gen + 1
  BY IncrementAdvances
<1>4. users[id].gen \in Nat
  BY <1>1, RowTypes
<1>5. c.sub \in known' /\ c.gen <= users[id].gen
  BY <1>2 DEF NotAhead
<1> QED
  BY <1>2, <1>3, <1>4, <1>5 DEF Refused

LEMMA RotateHolds == ASSUME IInv, NEW r \in Reqs, Rotate(r) PROVE IInv'
<1> DEFINE q == req[r]
           sessions == {c \in q.old : c.type # "api"}
<1>1. /\ q # Idle /\ q.pc = "rotate" /\ IncrementTokenGeneration(q.id)
      /\ UNCHANGED <<setupDone, api, issued, known, started, crashed>>
  BY DEF Rotate, At
<1>2. Advance /\ Tables' /\ users' \in [Ids -> User \cup {NoRow}]
  BY <1>1, IncrementAdvances
<1>3. /\ issued' \subseteq Credential /\ dead \subseteq Credential /\ known' \subseteq Ids
      /\ setupDone' \in BOOLEAN /\ api' \in [ApiIds -> ApiRow] /\ q.old \subseteq Credential
  BY <1>1, InHand
<1>4. Live(q.id) => \A c \in q.old : c.type # "api" => Refused(c)'
  BY <1>1, RotateRefuses
<1>5. /\ {"ldapReply", "revoke"} \subseteq Steps /\ q.pc \notin RegSteps
      /\ {"ldapReply", "revoke"} \cap (RegSteps \cup SnapSteps \cup PairSteps) = {}
  BY <1>1 DEF Steps, RegSteps, SnapSteps, PairSteps
<1>6. CASE Finish(r) /\ UNCHANGED dead
  BY <1>1, <1>2, <1>3, <1>6, WriteEnds
<1>7. CASE Live(q.id) /\ Finish(r) /\ dead' = dead \cup sessions
  <2>1. dead' \subseteq Credential /\ \A c \in dead' \ dead : Refused(c)'
    BY <1>3, <1>4, <1>7
  <2> QED
    BY <1>1, <1>2, <1>3, <1>7, <2>1, WriteEnds
<1>8. CASE Live(q.id) /\ GoTo(r, "ldapReply") /\ dead' = dead \cup sessions
  <2>1. dead' \subseteq Credential /\ \A c \in dead' \ dead : Refused(c)'
    BY <1>3, <1>4, <1>8
  <2> QED
    BY <1>1, <1>2, <1>3, <1>5, <1>8, <2>1, WriteGoes
<1>9. CASE Live(q.id) /\ GoTo(r, "revoke") /\ UNCHANGED dead
  BY <1>1, <1>2, <1>3, <1>4, <1>5, <1>9, WriteGoes
<1> QED
  BY <1>6, <1>7, <1>8, <1>9 DEF Rotate

LEMMA RevokeHolds == ASSUME IInv, NEW r \in Reqs, RevokeApiTokens(r) PROVE IInv'
<1>1. /\ req[r] # Idle /\ req[r].pc = "revoke" /\ RevokeAll({req[r].id})
      /\ dead' = dead \cup req[r].old /\ Finish(r)
      /\ UNCHANGED <<users, setupDone, issued, known, started, crashed>>
  BY DEF RevokeApiTokens, At
<1>2. /\ TypeOK /\ Remembers(req[r]) /\ issued' \subseteq Credential /\ dead' \subseteq Credential
      /\ known' \subseteq Ids /\ setupDone' \in BOOLEAN /\ users' \in [Ids -> User \cup {NoRow}]
      /\ req[r].old \subseteq Credential
  BY <1>1, InHand
<1>3. /\ api' \in [ApiIds -> ApiRow]
      /\ \A k \in ApiIds : /\ api'[k].owner = api[k].owner
                           /\ api'[k].live => api[k].live
                           /\ api[k].owner \in {req[r].id} => ~api'[k].live
  BY <1>1, <1>2, RevokeFacts
<1>4. Advance
  <2>1. \A id \in known : Live(id)' => Live(id) /\ users[id].gen <= users'[id].gen
    BY <1>1, <1>2, RowTypes DEF Live
  <2> QED
    BY <1>1, <1>3, <2>1 DEF Advance
<1>5. Tables'
  BY <1>1, <1>3 DEF IInv, Tables, Rows, Live, InitialPasswordReplaced
<1>6. ASSUME NEW c \in req[r].old PROVE Refused(c)'
  <2>1. CASE c.type = "api"
    <3>1. c.gen \in ApiIds /\ api[c.gen].owner = c.sub /\ c.sub = req[r].id /\ c.sub \in Ids
      BY <1>2, <2>1 DEF Remembers, Credential
    <3>2. api'[c.gen].owner = c.sub /\ ~api'[c.gen].live
      BY <1>3, <3>1
    <3>3. c.sub # NoRow
      BY <3>1, AccountsAssumption
    <3> QED
      BY <2>1, <3>1, <3>2, <3>3 DEF Refused
  <2>2. CASE c.type # "api"
    <3>1. Refused(c)
      BY <1>1, <1>2, <2>2 DEF Remembers
    <3> QED
      BY <1>1, <2>2, <3>1 DEF Refused, Live
  <2> QED
    BY <2>1, <2>2
<1> QED
  BY <1>1, <1>2, <1>3, <1>4, <1>5, <1>6, WriteEnds

LEMMA DeleteUserHolds == ASSUME IInv, NEW r \in Reqs, DeleteUserWrite(r) PROVE IInv'
<1>1. /\ req[r] # Idle /\ req[r].pc = "delWrite" /\ DeleteRows({req[r].id}) /\ Finish(r)
      /\ dead' = IF Live(req[r].id) THEN dead \cup req[r].old ELSE dead
      /\ UNCHANGED <<setupDone, issued, known, started, crashed>>
  BY DEF DeleteUserWrite, At
<1>2. /\ TypeOK /\ Remembers(req[r]) /\ issued' \subseteq Credential /\ dead' \subseteq Credential
      /\ known' \subseteq Ids /\ setupDone' \in BOOLEAN /\ req[r].old \subseteq Credential
  BY <1>1, InHand
<1>3. /\ Advance /\ Tables' /\ users' \in [Ids -> User \cup {NoRow}] /\ api' \in [ApiIds -> ApiRow]
      /\ \A id \in Ids \cap {req[r].id} : ~Live(id)'
      /\ \A k \in ApiIds : api'[k].owner = api[k].owner /\ (api[k].owner \in {req[r].id} => ~api'[k].live)
  BY <1>1, DeleteAdvances
<1>4. ASSUME NEW c \in req[r].old PROVE Refused(c)'
  <2>0. c.sub = req[r].id /\ c.sub \in Ids /\ ~Live(c.sub)'
    BY <1>2, <1>3 DEF Remembers, Credential
  <2>1. CASE c.type = "api"
    <3>1. c.gen \in ApiIds /\ api[c.gen].owner = c.sub
      BY <1>2, <2>1 DEF Remembers
    <3> QED
      BY <1>3, <2>0, <2>1, <3>1, AccountsAssumption DEF Refused
  <2>2. CASE c.type # "api"
    <3>1. c.sub \in known'
      BY <1>1, <1>2, <2>2 DEF Remembers, NotAhead
    <3> QED
      BY <2>0, <2>2, <3>1 DEF Refused
  <2> QED
    BY <2>1, <2>2
<1>5. \A c \in dead' \ dead : Refused(c)'
  BY <1>1, <1>4
<1> QED
  BY <1>1, <1>2, <1>3, <1>5, WriteEnds

-----------------------------------------------------------------------------
(* Statements of their own, and a crash                                    *)

LEMMA LoginHolds == ASSUME IInv, NEW id \in Ids, Login(id) PROVE IInv'
<1>1. /\ Live(id) /\ AtOnce /\ issued' = issued \cup {PrimaryToken(id)}
      /\ UNCHANGED <<users, setupDone, api, known, dead, crashed>>
  BY DEF Login
<1>2. TypeOK /\ issued \subseteq Credential /\ dead' \subseteq Credential /\ setupDone' \in BOOLEAN
  BY <1>1 DEF IInv, TypeOK
<1>3. started' \in 0..MaxRequests /\ UNCHANGED req
  BY <1>1, <1>2, AccountsAssumption DEF AtOnce, TypeOK
<1>4. issued' \subseteq Credential /\ \A c \in issued' \ issued : c.type # "api" /\ ~IsSession(c)
  BY <1>1, <1>2, PrimaryFacts DEF IsSession
<1> QED
  BY <1>1, <1>2, <1>3, <1>4, SameTables, AtOnceHolds

LEMMA AdminCreateHolds ==
    ASSUME IInv, NEW id \in Ids, NEW n \in Names, NEW role \in Role, AdminCreateUser(id, n, role)
    PROVE  IInv'
<1> DEFINE row == NewUser(n, role, "local", "initial", "admin")
<1>1. AtOnce /\ CreateUser(id, row) /\ UNCHANGED <<setupDone, api, issued, dead, crashed>>
  BY DEF AdminCreateUser
<1>2. /\ TypeOK /\ issued' \subseteq Credential /\ dead' \subseteq Credential /\ setupDone' \in BOOLEAN
      /\ api' \in [ApiIds -> ApiRow]
  BY <1>1 DEF IInv, TypeOK
<1>3. started' \in 0..MaxRequests /\ UNCHANGED req
  BY <1>1, <1>2, AccountsAssumption DEF AtOnce, TypeOK
<1>4. row \in User /\ row.totp = "none"
  BY NewUserFacts
<1> HIDE DEF row
<1>5. Advance /\ Tables' /\ users' \in [Ids -> User \cup {NoRow}] /\ known' \subseteq Ids
  BY <1>1, <1>4, CreateAdvances
<1> QED
  BY <1>1, <1>2, <1>3, <1>5, AtOnceHolds

\* An id of an API token is used once: it is free as long as it has no owner.
LEMMA CreateApiHolds ==
    ASSUME IInv, NEW k \in ApiIds, NEW id \in Ids, CreateAPIToken(k, id)
    PROVE  IInv'
<1>1. /\ api[k].owner = NoRow /\ AtOnce /\ api' = [api EXCEPT ![k] = [owner |-> id, live |-> TRUE]]
      /\ UNCHANGED <<users, setupDone, issued, known, dead, crashed>>
  BY DEF CreateAPIToken
<1>2. /\ TypeOK /\ issued' \subseteq Credential /\ dead' \subseteq Credential /\ setupDone' \in BOOLEAN
      /\ users' \in [Ids -> User \cup {NoRow}] /\ known' \subseteq Ids
  BY <1>1 DEF IInv, TypeOK
<1>3. started' \in 0..MaxRequests /\ UNCHANGED req
  BY <1>1, <1>2, AccountsAssumption DEF AtOnce, TypeOK
<1>4. /\ api' \in [ApiIds -> ApiRow] /\ api'[k].owner = id
      /\ \A j \in ApiIds \ {k} : api'[j] = api[j]
  BY <1>1, <1>2 DEF TypeOK, ApiRow
<1>5. Advance
  <2>1. \A u \in known : Live(u)' => Live(u) /\ users[u].gen <= users'[u].gen
    BY <1>1, <1>2, RowTypes DEF Live
  <2> QED
    BY <1>1, <1>4, <2>1 DEF Advance
<1>6. Tables'
  BY <1>1, <1>4 DEF IInv, Tables, Rows, Live, InitialPasswordReplaced
<1> QED
  BY <1>1, <1>2, <1>3, <1>4, <1>5, <1>6, AtOnceHolds

LEMMA RevokeApiHolds ==
    ASSUME IInv, NEW k \in ApiIds, RevokeAPIToken(k)
    PROVE  IInv'
<1> DEFINE t == Jwt("api", api[k].owner, "none", k)
<1>1. /\ api[k].live /\ AtOnce /\ dead' = dead \cup {t}
      /\ api' = [api EXCEPT ![k].live = FALSE]
      /\ UNCHANGED <<users, setupDone, issued, known, crashed>>
  BY DEF RevokeAPIToken
<1>2. /\ TypeOK /\ issued' \subseteq Credential /\ dead \subseteq Credential /\ setupDone' \in BOOLEAN
      /\ users' \in [Ids -> User \cup {NoRow}] /\ known' \subseteq Ids /\ api[k].owner \in Ids
  BY <1>1 DEF IInv, TypeOK, Tables
<1>3. started' \in 0..MaxRequests /\ UNCHANGED req
  BY <1>1, <1>2, AccountsAssumption DEF AtOnce, TypeOK
<1>4. /\ api' \in [ApiIds -> ApiRow] /\ api'[k].owner = api[k].owner /\ ~api'[k].live
      /\ \A j \in ApiIds \ {k} : api'[j] = api[j]
  BY <1>1, <1>2 DEF TypeOK, ApiRow
<1>5. Advance
  <2>1. \A u \in known : Live(u)' => Live(u) /\ users[u].gen <= users'[u].gen
    BY <1>1, <1>2, RowTypes DEF Live
  <2> QED
    BY <1>1, <1>4, <2>1 DEF Advance
<1>6. Tables'
  BY <1>1, <1>4 DEF IInv, Tables, Rows, Live, InitialPasswordReplaced
<1>7. t \in Credential /\ t.type = "api" /\ t.gen = k
  BY <1>2, AccountsAssumption DEF Jwt, Credential
<1> HIDE DEF t
<1>8. dead' \subseteq Credential /\ \A c \in dead' \ dead : Refused(c)'
  BY <1>1, <1>2, <1>4, <1>7, AccountsAssumption DEF Refused
<1> QED
  BY <1>1, <1>2, <1>3, <1>4, <1>5, <1>6, <1>8, AtOnceHolds

LEMMA CrashHolds == ASSUME IInv, Crash PROVE IInv'
<1>1. /\ req' = [r \in Reqs |-> Idle] /\ crashed' = TRUE
      /\ UNCHANGED <<users, setupDone, api, issued, known, started, dead>>
  BY DEF Crash
<1>2. TypeOK'
  <2>1. req' \in [Reqs -> Request \cup {Idle}] /\ crashed' \in BOOLEAN
    BY <1>1
  <2> QED
    BY <1>1, <2>1 DEF IInv, TypeOK
<1>3. Tables'
  BY <1>1, SameTables
<1>4. \A c \in issued' : c.type # "api" /\ (IsSession(c) => NotAhead(c)')
  BY <1>1 DEF IInv, NotAhead, Live
<1>5. \A c \in dead' : Refused(c)'
  BY <1>1 DEF IInv, Refused, Live
<1>6. \A r \in Reqs : req'[r] = Idle
  BY <1>1
<1> QED
  BY <1>2, <1>3, <1>4, <1>5, <1>6 DEF IInv, IsSession

-----------------------------------------------------------------------------
(* The invariant                                                           *)

\* The rows of an installed hub.
LEMMA EnrolledFacts ==
    ASSUME NEW n \in Names, NEW role \in Role, NEW via \in {"register", "admin", "ldap"}
    PROVE  Enrolled(n, role, via) \in User /\ Enrolled(n, role, via).pw # "initial" /\ Enrolled(n, role, via).gen = 0
  BY DEF Enrolled, NewUser, User

LEMMA InstalledFacts ==
    ASSUME NEW second \in User, second.gen = 0, second.totp = "on" => second.pw # "initial",
           users = Installed(second), known = {Founder, Second},
           FirstName \in Names
    PROVE  /\ users \in [Ids -> User \cup {NoRow}] /\ Rows \subseteq known
           /\ InitialPasswordReplaced
           /\ Live(Founder) => users[Founder].gen = 0
           /\ Live(Second) => users[Second].gen = 0
<1> DEFINE first == Enrolled(FirstName, "admin", "register")
<1>1. first \in User /\ first.pw # "initial" /\ first.gen = 0
  BY EnrolledFacts DEF Role
<1> HIDE DEF first
<1>2. users = [id \in Ids |-> IF id = Founder THEN first ELSE IF id = Second THEN second ELSE NoRow]
  BY DEF Installed, first
<1>3. Founder \in Ids /\ Second \in Ids /\ Founder # Second
  BY AccountsAssumption
<1>4. users[Founder] = first /\ users[Second] = second
  BY <1>2, <1>3
<1> QED
  BY <1>1, <1>2, <1>3, <1>4 DEF Rows, Live, InitialPasswordReplaced

LEMMA NamesExist == FirstName \in Names /\ SecondName \in Names
<1>1. Names # {} /\ \A n : Names # {n}
  BY AccountsAssumption
<1>2. FirstName \in Names
  BY <1>1 DEF FirstName
<1>3. \E n \in Names : n # FirstName
  BY <1>1, <1>2
<1> QED
  BY <1>2, <1>3 DEF SecondName

\* A pair of the first generation.
LEMMA FirstPair ==
    ASSUME NEW id \in Ids, NEW role \in Role, id \in known, Live(id) => users[id].gen = 0
    PROVE  /\ Pair(id, role, 0) \subseteq Credential
           /\ \A c \in Pair(id, role, 0) : c.type # "api" /\ NotAhead(c)
<1>1. /\ Pair(id, role, 0) \subseteq Credential
      /\ \A c \in Pair(id, role, 0) : c.sub = id /\ c.gen = 0 /\ c.type # "api"
  BY PairFacts
<1> QED
  BY <1>1 DEF NotAhead

LEMMA InitHolds == Init => IInv
<1> SUFFICES ASSUME Init PROVE IInv
  OBVIOUS
<1>1. /\ api = [k \in ApiIds |-> [owner |-> NoRow, live |-> FALSE]]
      /\ req = [r \in Reqs |-> Idle] /\ started = 0 /\ dead = {} /\ crashed = FALSE
  BY DEF Init
<1>2. /\ api \in [ApiIds -> ApiRow] /\ \A k \in ApiIds : ~api[k].live
      /\ req \in [Reqs -> Request \cup {Idle}] /\ \A r \in Reqs : req[r] = Idle
      /\ started \in 0..MaxRequests /\ dead \subseteq Credential
  BY <1>1, AccountsAssumption DEF ApiRow
<1>3. crashed \in BOOLEAN
  BY <1>1, Zenon
<1>4. SUFFICES /\ users \in [Ids -> User \cup {NoRow}] /\ known \subseteq Ids /\ setupDone \in BOOLEAN
               /\ issued \subseteq Credential /\ Rows \subseteq known /\ InitialPasswordReplaced
               /\ \A c \in issued : c.type # "api" /\ (IsSession(c) => NotAhead(c))
  BY <1>1, <1>2, <1>3 DEF IInv, TypeOK, Tables
<1>5. CASE users = [id \in Ids |-> NoRow] /\ known = {} /\ issued = {} /\ setupDone = FALSE
  BY <1>5 DEF Rows, Live, InitialPasswordReplaced
<1>6. ASSUME NEW second \in User, second.gen = 0, second.totp = "on" => second.pw # "initial",
             users = Installed(second), known = {Founder, Second}, setupDone = TRUE,
             NEW S \in SUBSET Credential, issued = Pair(Founder, "admin", 0) \cup S,
             \A c \in S : c.type # "api" /\ (IsSession(c) => c.sub = Second /\ c.gen = 0)
      PROVE  /\ users \in [Ids -> User \cup {NoRow}] /\ known \subseteq Ids /\ setupDone \in BOOLEAN
             /\ issued \subseteq Credential /\ Rows \subseteq known /\ InitialPasswordReplaced
             /\ \A c \in issued : c.type # "api" /\ (IsSession(c) => NotAhead(c))
  <2>1. /\ users \in [Ids -> User \cup {NoRow}] /\ Rows \subseteq known /\ InitialPasswordReplaced
        /\ Live(Founder) => users[Founder].gen = 0
        /\ Live(Second) => users[Second].gen = 0
    BY <1>6, InstalledFacts, NamesExist
  <2>2. known \subseteq Ids /\ setupDone \in BOOLEAN /\ Founder \in Ids /\ "admin" \in Role
        /\ Founder \in known /\ Second \in known
    BY <1>6, AccountsAssumption DEF Role
  <2>3. /\ Pair(Founder, "admin", 0) \subseteq Credential
        /\ \A c \in Pair(Founder, "admin", 0) : c.type # "api" /\ NotAhead(c)
    BY <2>1, <2>2, FirstPair
  <2>4. \A c \in S : IsSession(c) => NotAhead(c)
    BY <1>6, <2>1, <2>2 DEF NotAhead
  <2> QED
    BY <1>6, <2>1, <2>2, <2>3, <2>4
<1>7. ASSUME NEW role \in Role, known = {Founder, Second}, setupDone = TRUE,
             users = Installed(Enrolled(SecondName, role, "admin")),
             issued = Pair(Founder, "admin", 0) \cup Pair(Second, role, 0)
      PROVE  /\ users \in [Ids -> User \cup {NoRow}] /\ known \subseteq Ids /\ setupDone \in BOOLEAN
             /\ issued \subseteq Credential /\ Rows \subseteq known /\ InitialPasswordReplaced
             /\ \A c \in issued : c.type # "api" /\ (IsSession(c) => NotAhead(c))
  <2>1. /\ Enrolled(SecondName, role, "admin") \in User /\ Enrolled(SecondName, role, "admin").pw # "initial"
        /\ Enrolled(SecondName, role, "admin").gen = 0
    BY NamesExist, EnrolledFacts
  <2>2. /\ Pair(Second, role, 0) \in SUBSET Credential
        /\ \A c \in Pair(Second, role, 0) : c.sub = Second /\ c.gen = 0 /\ c.type # "api"
    BY PairFacts, AccountsAssumption
  <2> QED
    BY <1>6, <1>7, <2>1, <2>2
<1>8. ASSUME known = {Founder, Second}, setupDone = TRUE,
             users = Installed(NewUser(SecondName, "viewer", "local", "initial", "admin")),
             issued = Pair(Founder, "admin", 0) \cup {Jwt("setup", Second, "viewer", 0)}
      PROVE  /\ users \in [Ids -> User \cup {NoRow}] /\ known \subseteq Ids /\ setupDone \in BOOLEAN
             /\ issued \subseteq Credential /\ Rows \subseteq known /\ InitialPasswordReplaced
             /\ \A c \in issued : c.type # "api" /\ (IsSession(c) => NotAhead(c))
  <2> DEFINE row == NewUser(SecondName, "viewer", "local", "initial", "admin")
             S == {Jwt("setup", Second, "viewer", 0)}
  <2>1. row \in User /\ row.gen = 0 /\ row.totp = "none"
    BY NamesExist DEF NewUser, User, Role
  <2>2. S \in SUBSET Credential /\ \A c \in S : c.type # "api" /\ ~IsSession(c)
    BY AccountsAssumption DEF Jwt, Credential, Role, IsSession
  <2> HIDE DEF row, S
  <2>3. users = Installed(row) /\ issued = Pair(Founder, "admin", 0) \cup S
    BY <1>8 DEF row, S
  <2> QED
    BY <1>6, <1>8, <2>1, <2>2, <2>3
<1> QED
  BY <1>5, <1>7, <1>8 DEF Init

LEMMA Inductive == Spec => []IInv
<1>1. IInv /\ [Next]_vars => IInv'
  <2> SUFFICES ASSUME IInv, [Next]_vars PROVE IInv'
    OBVIOUS
  <2>1. CASE UNCHANGED vars
    BY <2>1 DEF vars, IInv, TypeOK, Tables, Rows, Live, InitialPasswordReplaced, NotAhead,
                Refused, Remembers, IsSession
  <2>2. ASSUME NEW r \in Reqs,
               \/ RegisterCheck(r) \/ RegisterClean(r) \/ RegisterCreate(r)
               \/ RegisterRecount(r) \/ RegisterUndo(r)
               \/ \E who \in Authenticate : LdapFind(r, who)
               \/ LdapWrite(r) \/ LdapReply(r) \/ PairReply(r)
        PROVE  IInv'
    BY <2>2, BeginHolds, RegisterCleanHolds, RegisterCreateHolds, RegisterRecountHolds,
       RegisterUndoHolds, LdapFindHolds, LdapWriteHolds, LdapReplyHolds, PairHolds
  <2>3. ASSUME NEW r \in Reqs, NEW t \in issued,
               \/ LoginTotp(r, t) \/ RefreshRead(r, t) \/ TotpSetup(r, t)
               \/ TotpEnable(r, t) \/ ChangePassword(r, t)
               \/ \E id \in Ids : TotpDisable(r, t, id)
        PROVE  IInv'
    BY <2>3, BeginHolds, InvalidateBegins
  <2>4. ASSUME NEW r \in Reqs,
               \/ RefreshBump(r) \/ RefreshReply(r)
               \/ TotpSetupWrite(r) \/ TotpEnablePassword(r) \/ TotpEnableOn(r)
               \/ TotpEnableMark(r) \/ TotpEnableReply(r)
               \/ ChangePasswordWrite(r) \/ TotpDisableWrite(r)
        PROVE  IInv'
    BY <2>4, FieldsHold, RefreshReplyHolds, PairHolds
  <2>5. ASSUME NEW r \in Reqs, NEW c \in issued \cup ApiTokens, NEW id \in Ids,
               (\E role \in Role : UpdateUserRole(r, c, id, role)) \/ DeleteUser(r, c, id)
        PROVE  IInv'
    BY <2>5, InvalidateBegins
  <2>6. ASSUME NEW r \in Reqs,
               \/ UpdateUserRoleWrite(r) \/ DeleteUserWrite(r)
               \/ \E id \in Ids : ResetTotp(r, id)
               \/ ResetTotpStep(r) \/ Rotate(r) \/ RevokeApiTokens(r)
        PROVE  IInv'
    BY <2>6, FieldsHold, DeleteUserHolds, InvalidateBegins, RotateHolds, RevokeHolds
  <2>7. ASSUME NEW id \in Ids,
               \/ Login(id)
               \/ \E n \in Names, role \in Role : AdminCreateUser(id, n, role)
               \/ \E k \in ApiIds : CreateAPIToken(k, id)
        PROVE  IInv'
    BY <2>7, LoginHolds, AdminCreateHolds, CreateApiHolds
  <2>8. ASSUME NEW k \in ApiIds, RevokeAPIToken(k) PROVE IInv'
    BY <2>8, RevokeApiHolds
  <2> QED
    BY <2>1, <2>2, <2>3, <2>4, <2>5, <2>6, <2>7, <2>8, CrashHolds DEF Next
<1> QED
  BY <1>1, InitHolds, PTL DEF Spec

-----------------------------------------------------------------------------
(* First registrations                                                     *)

\* Requests between the insertion of the first administrator and the answer.
Undecided(r) == At(r, "regRecount") \/ At(r, "regUndo")

\* The administrators that first registrations left behind.
Decided ==
    {id \in Rows : /\ users[id].via = "register"
                   /\ \A r \in Reqs : Undecided(r) => req[r].id # id}

\* Only ids in use have rows and there are finitely many; what the directory
\* is about to add is no registration; and no two registrations are decided.
FirstInv ==
    /\ IsFiniteSet(known)
    /\ \A r \in Reqs : At(r, "ldapWrite") /\ req[r].op = "other" => req[r].snap.via = "ldap"
    /\ crashed \/ \A a, b \in Decided : a = b

\* A finite set of at most one element, either way.
LEMMA AtMostOne ==
    ASSUME NEW S, IsFiniteSet(S)
    PROVE  Cardinality(S) <= 1 <=> \A a, b \in S : a = b
<1>1. Cardinality(S) \in Nat
  BY FS_CardinalityType
<1>2. Cardinality(S) = 0 <=> S = {}
  BY FS_EmptySet
<1>3. Cardinality(S) = 1 <=> \E x : S = {x}
  BY FS_Singleton
<1>4. ASSUME Cardinality(S) <= 1 PROVE \A a, b \in S : a = b
  <2>1. Cardinality(S) = 0 \/ Cardinality(S) = 1
    BY <1>1, <1>4
  <2> QED
    BY <2>1, <1>2, <1>3
<1>5. ASSUME \A a, b \in S : a = b PROVE Cardinality(S) <= 1
  <2>1. S = {} \/ \E x : S = {x}
    BY <1>5
  <2> QED
    BY <2>1, <1>2, <1>3
<1> QED
  BY <1>4, <1>5

\* No row comes, and none changes how it came.
KeepRows == \A id \in Rows' : id \in Rows /\ users'[id].via = users[id].via

\* A step of a request that is not between the insertion and the answer, and
\* that adds no row, decides nothing.
LEMMA Quiet ==
    ASSUME FirstInv, NEW r \in Reqs, Others(r), ~Undecided(r),
           req'[r] = Idle \/ req'[r].pc # "ldapWrite",
           KeepRows, UNCHANGED <<known, crashed>>
    PROVE  FirstInv'
<1>1. \A s \in Reqs : Undecided(s) => Undecided(s)' /\ req'[s].id = req[s].id
  BY DEF Others, Undecided, At
<1>2. Decided' \subseteq Decided
  BY <1>1 DEF Decided, KeepRows
<1>3. \A s \in Reqs : At(s, "ldapWrite")' => At(s, "ldapWrite") /\ req'[s] = req[s]
  BY DEF Others, At
<1> QED
  BY <1>2, <1>3 DEF FirstInv

LEMMA UpdateKeeps ==
    ASSUME TypeOK, NEW id, NEW row, UpdateRow(id, row), Live(id) => row.via = users[id].via
    PROVE  KeepRows
<1>1. CASE Live(id)
  <2>1. users' = [users EXCEPT ![id] = row] /\ id \in Ids
    BY <1>1 DEF UpdateRow, Live
  <2>2. \A u \in Ids : users'[u] = IF u = id THEN row ELSE users[u]
    BY <2>1 DEF TypeOK
  <2> QED
    BY <1>1, <2>1, <2>2 DEF KeepRows, Rows, Live
<1>2. CASE ~Live(id)
  BY <1>2 DEF UpdateRow, KeepRows, Rows, Live
<1> QED
  BY <1>1, <1>2

\* The statements that write one field of a row.
LEMMA FieldKeeps ==
    ASSUME TypeOK, NEW id,
           \/ \E v : SetTotp(id, v)
           \/ \E pw : UpdateUserPassword(id, pw)
           \/ IncrementTokenGeneration(id)
           \/ \E role : updateLDAPUser(id, role)
    PROVE  KeepRows
<1>1. Live(id) => users[id] \in User
  BY DEF TypeOK, Live
<1>2. ASSUME NEW v, SetTotp(id, v) PROVE KeepRows
  <2>1. Live(id) => [users[id] EXCEPT !.totp = v].via = users[id].via
    BY <1>1 DEF User
  <2> QED
    BY <1>2, <2>1, UpdateKeeps DEF SetTotp
<1>3. ASSUME NEW pw, UpdateUserPassword(id, pw) PROVE KeepRows
  <2>1. Live(id) => [users[id] EXCEPT !.pw = pw].via = users[id].via
    BY <1>1 DEF User
  <2> QED
    BY <1>3, <2>1, UpdateKeeps DEF UpdateUserPassword
<1>4. ASSUME IncrementTokenGeneration(id) PROVE KeepRows
  <2>1. Live(id) => [users[id] EXCEPT !.gen = @ + 1].via = users[id].via
    BY <1>1 DEF User
  <2> QED
    BY <1>4, <2>1, UpdateKeeps DEF IncrementTokenGeneration
<1>5. ASSUME NEW role, updateLDAPUser(id, role) PROVE KeepRows
  <2>1. Live(id) => [users[id] EXCEPT !.role = role].via = users[id].via
    BY <1>1 DEF User
  <2> QED
    BY <1>5, <2>1, UpdateKeeps DEF updateLDAPUser
<1> QED
  BY <1>2, <1>3, <1>4, <1>5

LEMMA DeleteKeeps ==
    ASSUME NEW S, DeleteRows(S)
    PROVE  KeepRows /\ \A id \in S : id \notin Rows'
  BY DEF DeleteRows, KeepRows, Rows, Live

LEMMA SameKeeps == ASSUME UNCHANGED users PROVE KeepRows
  BY DEF KeepRows, Rows, Live

\* A request that ends or goes on, to anywhere but the directory's insertion.
LEMMA GoesQuietly ==
    ASSUME IInv, FirstInv, NEW r \in Reqs, NEW from \in Steps \ {"regRecount", "regUndo"},
           At(r, from), Finish(r) \/ \E pc \in Steps \ {"ldapWrite"} : GoTo(r, pc),
           KeepRows, UNCHANGED <<known, crashed>>
    PROVE  FirstInv'
<1>1. TypeOK /\ req[r] # Idle /\ ~Undecided(r)
  BY DEF IInv, At, Undecided
<1>2. Others(r) /\ (req'[r] = Idle \/ req'[r].pc # "ldapWrite")
  <2>1. CASE Finish(r)
    BY <1>1, <2>1, Leaves
  <2>2. ASSUME NEW pc \in Steps \ {"ldapWrite"}, GoTo(r, pc)
        PROVE  Others(r) /\ req'[r].pc # "ldapWrite"
    BY <1>1, <2>2, Moves
  <2> QED
    BY <2>1, <2>2
<1> QED
  BY <1>1, <1>2, Quiet

LEMMA BeginsQuietly ==
    ASSUME IInv, FirstInv, NEW r \in Reqs, NEW pc \in Steps \ {"ldapWrite"},
           NEW id, NEW snap, NEW role, NEW op, NEW old,
           Begin(r, pc, id, snap, role, op, old), UNCHANGED <<users, known, crashed>>
    PROVE  FirstInv'
<1>1. req[r] = Idle /\ ~Undecided(r)
  BY DEF Begin, Undecided, At
<1>2. Others(r) /\ req'[r].pc = pc
  BY DEF IInv, TypeOK, Begin, Others
<1> QED
  BY <1>1, <1>2, SameKeeps, Quiet

\* A statement of no request in hand.
LEMMA AtOnceQuietly ==
    ASSUME FirstInv, UNCHANGED <<req, users, known, crashed>>
    PROVE  FirstInv'
  BY DEF FirstInv, Decided, Undecided, At, Rows, Live

\* A row is added that no first registration brings.
LEMMA AddsQuietly ==
    ASSUME IInv, FirstInv, NEW id, NEW row, CreateUser(id, row), row.via # "register",
           \A s \in Reqs : Undecided(s) => Undecided(s)' /\ req'[s].id = req[s].id,
           \A s \in Reqs : At(s, "ldapWrite")' => At(s, "ldapWrite") /\ req'[s] = req[s],
           UNCHANGED crashed
    PROVE  FirstInv'
<1>1. id \in Ids /\ users' = [users EXCEPT ![id] = row] /\ known' = known \cup {id}
  BY DEF CreateUser
<1>2. \A u \in Ids : users'[u] = IF u = id THEN row ELSE users[u]
  BY <1>1 DEF IInv, TypeOK
<1>3. Decided' \subseteq Decided
  BY <1>1, <1>2 DEF Decided, Rows, Live
<1>4. IsFiniteSet(known')
  BY <1>1, FS_AddElement DEF FirstInv
<1> QED
  BY <1>3, <1>4 DEF FirstInv

LEMMA RegisterCreateFirst ==
    ASSUME IInv, FirstInv, NEW r \in Reqs, RegisterCreate(r)
    PROVE  FirstInv'
<1>1. At(r, "regCreate") /\ TypeOK /\ req[r] \in Request /\ UNCHANGED crashed
  BY DEF RegisterCreate, IInv, TypeOK, At
<1>2. CASE Finish(r) /\ UNCHANGED <<users, known>>
  BY <1>1, <1>2, SameKeeps, GoesQuietly DEF Steps
<1>3. ASSUME NEW id \in Ids, NEW n \in Names,
             CreateUser(id, NewUser(n, "admin", "local", "own", "register")),
             req' = [req EXCEPT ![r].pc = "regRecount", ![r].id = id]
      PROVE  FirstInv'
  <2> DEFINE row == NewUser(n, "admin", "local", "own", "register")
             q == [[req[r] EXCEPT !.pc = "regRecount"] EXCEPT !.id = id]
  <2>1. q.pc = "regRecount" /\ q.id = id /\ q \in Request
    BY <1>1 DEF Request, Steps
  <2>2. req' = [req EXCEPT ![r] = q]
    BY <1>1, <1>3 DEF TypeOK
  <2> HIDE DEF q, row
  <2>3. req'[r] = q /\ Others(r)
    BY <1>1, <2>2 DEF TypeOK, Others
  <2>4. q # Idle
    BY <2>1, AccountsAssumption
  <2>5. users' = [users EXCEPT ![id] = row] /\ known' = known \cup {id}
    BY <1>3 DEF CreateUser, row
  <2>6. \A u \in Ids : users'[u] = IF u = id THEN row ELSE users[u]
    BY <1>1, <2>5 DEF TypeOK
  <2>7. Undecided(r)' /\ ~At(r, "ldapWrite")' /\ ~Undecided(r)
    BY <1>1, <2>1, <2>3, <2>4 DEF Undecided, At
  <2>8. \A s \in Reqs : Undecided(s) => Undecided(s)' /\ req'[s].id = req[s].id
    BY <2>3, <2>7 DEF Others, Undecided, At
  <2>9. Decided' \subseteq Decided
    BY <2>1, <2>3, <2>6, <2>7, <2>8 DEF Decided, Rows, Live
  <2>10. \A s \in Reqs : At(s, "ldapWrite")' => At(s, "ldapWrite") /\ req'[s] = req[s]
    BY <2>3, <2>7 DEF Others, At
  <2>11. IsFiniteSet(known')
    BY <2>5, FS_AddElement DEF FirstInv
  <2> QED
    BY <1>1, <2>9, <2>10, <2>11 DEF FirstInv
<1> QED
  BY <1>2, <1>3 DEF RegisterCreate

\* The recheck: a registration that counts no row but its own is the only one.
LEMMA RegisterRecountFirst ==
    ASSUME IInv, FirstInv, NEW r \in Reqs, RegisterRecount(r)
    PROVE  FirstInv'
<1>1. /\ At(r, "regRecount") /\ TypeOK /\ req[r] \in Request /\ req[r] # Idle
      /\ UNCHANGED <<users, known, crashed>>
  BY DEF RegisterRecount, IInv, TypeOK, At
<1>2. Rows' = Rows
  BY <1>1 DEF Rows, Live
<1>3. CASE GoTo(r, "regUndo")
  <2>1. Others(r) /\ req'[r] \in Request /\ req'[r].pc = "regUndo" /\ req'[r].id = req[r].id
    BY <1>1, <1>3, Moves DEF Steps
  <2>2. req'[r] # Idle
    BY <2>1, AccountsAssumption
  <2>3. \A s \in Reqs : Undecided(s) => Undecided(s)' /\ req'[s].id = req[s].id
    BY <2>1, <2>2 DEF Others, Undecided, At
  <2>4. Decided' \subseteq Decided
    BY <1>1, <1>2, <2>3 DEF Decided
  <2>5. \A s \in Reqs : At(s, "ldapWrite")' => At(s, "ldapWrite") /\ req'[s] = req[s]
    BY <2>1 DEF Others, At
  <2> QED
    BY <1>1, <2>4, <2>5 DEF FirstInv
<1>4. CASE Cardinality(Rows) <= 1 /\ Finish(r)
  <2>1. Others(r) /\ req'[r] = Idle
    BY <1>1, <1>4, Leaves
  <2>2. IsFiniteSet(Rows)
    BY FS_Subset DEF FirstInv, IInv, Tables
  <2>3. \A a, b \in Rows : a = b
    BY <1>4, <2>2, AtMostOne
  <2>4. \A a, b \in Decided' : a = b
    BY <1>2, <2>3 DEF Decided
  <2>5. \A s \in Reqs : At(s, "ldapWrite")' => At(s, "ldapWrite") /\ req'[s] = req[s]
    BY <2>1 DEF Others, At
  <2> QED
    BY <1>1, <2>4, <2>5 DEF FirstInv
<1> QED
  BY <1>3, <1>4 DEF RegisterRecount

LEMMA RegisterUndoFirst ==
    ASSUME IInv, FirstInv, NEW r \in Reqs, RegisterUndo(r)
    PROVE  FirstInv'
<1>1. /\ TypeOK /\ DeleteRows({req[r].id}) /\ Finish(r) /\ UNCHANGED <<known, crashed>>
  BY DEF RegisterUndo, IInv
<1>2. Others(r) /\ req'[r] = Idle
  BY <1>1, Leaves
<1>3. KeepRows /\ req[r].id \notin Rows'
  BY <1>1, DeleteKeeps
<1>4. \A s \in Reqs : Undecided(s) => s = r \/ (Undecided(s)' /\ req'[s].id = req[s].id)
  BY <1>2 DEF Others, Undecided, At
<1>5. Decided' \subseteq Decided
  BY <1>3, <1>4 DEF Decided, KeepRows
<1>6. \A s \in Reqs : At(s, "ldapWrite")' => At(s, "ldapWrite") /\ req'[s] = req[s]
  BY <1>2 DEF Others, At
<1> QED
  BY <1>1, <1>5, <1>6 DEF FirstInv

LEMMA LdapFindFirst ==
    ASSUME IInv, FirstInv, NEW r \in Reqs, NEW who \in Authenticate, LdapFind(r, who)
    PROVE  FirstInv'
<1> DEFINE role == mapLDAPRole(who.groups)
<1>1. /\ UNCHANGED <<users, known, crashed>> /\ req[r] = Idle /\ ~Undecided(r)
  BY DEF LdapFind, Begin, Undecided, At
<1>2. PICK id, snap, op, old :
        /\ Begin(r, "ldapWrite", id, snap, role, op, old)
        /\ op = "other" => snap.via = "ldap"
  <2>1. NewUser(who.name, role, "ldap", "own", "ldap").via = "ldap"
    BY DEF NewUser
  <2>2. ASSUME NEW id, Begin(r, "ldapWrite", id, NewUser(who.name, role, "ldap", "own", "ldap"),
                             role, "other", {})
        PROVE  \E i, snap, op, old : /\ Begin(r, "ldapWrite", i, snap, role, op, old)
                                     /\ op = "other" => snap.via = "ldap"
    BY <2>1, <2>2
  <2>3. ASSUME NEW id, Begin(r, "ldapWrite", id, users[id], role, "ldap", CredentialsOf(id))
        PROVE  \E i, snap, op, old : /\ Begin(r, "ldapWrite", i, snap, role, op, old)
                                     /\ op = "other" => snap.via = "ldap"
    BY <2>3
  <2> HIDE DEF role
  <2> QED
    BY <2>2, <2>3 DEF LdapFind, role
<1>3. Others(r) /\ req'[r].op = op /\ req'[r].snap = snap
  BY <1>2 DEF IInv, TypeOK, Begin, Others
<1>4. \A s \in Reqs : Undecided(s) => Undecided(s)' /\ req'[s].id = req[s].id
  BY <1>1, <1>3 DEF Others, Undecided, At
<1>5. Decided' \subseteq Decided
  BY <1>1, <1>4 DEF Decided, Rows, Live
<1>6. \A s \in Reqs \ {r} : At(s, "ldapWrite")' => At(s, "ldapWrite") /\ req'[s] = req[s]
  BY <1>3 DEF Others, At
<1> QED
  BY <1>1, <1>2, <1>3, <1>5, <1>6 DEF FirstInv

LEMMA LdapWriteFirst ==
    ASSUME IInv, FirstInv, NEW r \in Reqs, LdapWrite(r)
    PROVE  FirstInv'
<1>1. /\ At(r, "ldapWrite") /\ TypeOK /\ req[r] \in Request /\ req[r] # Idle /\ UNCHANGED crashed
  BY DEF LdapWrite, IInv, TypeOK, At
<1>2. CASE req[r].op = "other" /\ CreateUser(req[r].id, req[r].snap) /\ GoTo(r, "ldapReply")
  <2>1. Others(r) /\ req'[r].pc = "ldapReply" /\ ~Undecided(r)
    BY <1>1, <1>2, Moves DEF Steps, Undecided, At
  <2>2. req[r].snap.via # "register"
    BY <1>1, <1>2 DEF FirstInv
  <2>3. \A s \in Reqs : Undecided(s) => Undecided(s)' /\ req'[s].id = req[s].id
    BY <2>1 DEF Others, Undecided, At
  <2>4. \A s \in Reqs : At(s, "ldapWrite")' => At(s, "ldapWrite") /\ req'[s] = req[s]
    BY <2>1 DEF Others, At
  <2> QED
    BY <1>1, <1>2, <2>2, <2>3, <2>4, AddsQuietly
<1>3. CASE Finish(r) /\ UNCHANGED <<users, known>>
  BY <1>1, <1>3, SameKeeps, GoesQuietly DEF Steps
<1>4. CASE /\ updateLDAPUser(req[r].id, req[r].role) /\ UNCHANGED known
           /\ GoTo(r, IF req[r].snap.role # req[r].role THEN "rotate" ELSE "ldapReply")
  <2>1. KeepRows
    BY <1>1, <1>4, FieldKeeps
  <2>2. \E pc \in Steps \ {"ldapWrite"} : GoTo(r, pc)
    BY <1>4 DEF Steps
  <2> QED
    BY <1>1, <1>4, <2>1, <2>2, GoesQuietly DEF Steps
<1> QED
  BY <1>2, <1>3, <1>4 DEF LdapWrite

\* The steps of the other requests, which write one field at most.
LEMMA FieldsFirst ==
    ASSUME IInv, FirstInv, NEW r \in Reqs,
           \/ RegisterClean(r) \/ LdapReply(r) \/ PairReply(r) \/ RefreshBump(r) \/ RefreshReply(r)
           \/ TotpSetupWrite(r) \/ TotpEnablePassword(r) \/ TotpEnableOn(r)
           \/ TotpEnableMark(r) \/ TotpEnableReply(r)
           \/ ChangePasswordWrite(r) \/ TotpDisableWrite(r)
           \/ UpdateUserRoleWrite(r) \/ DeleteUserWrite(r)
           \/ ResetTotpStep(r) \/ Rotate(r) \/ RevokeApiTokens(r)
    PROVE  FirstInv'
<1> DEFINE Goes == Finish(r) \/ \E pc \in Steps \ {"ldapWrite"} : GoTo(r, pc)
           Step(from) == At(r, from) /\ Goes /\ KeepRows /\ UNCHANGED <<known, crashed>>
           Froms == Steps \ {"regRecount", "regUndo"}
<1>0. TypeOK
  BY DEF IInv
<1>1. ASSUME RegisterClean(r) PROVE Step("regClean")
  BY <1>1, DeleteKeeps DEF RegisterClean, DeleteIncompleteUsers, Steps
<1>2. ASSUME LdapReply(r) PROVE Step("ldapReply")
  BY <1>2, SameKeeps DEF LdapReply
<1>3. ASSUME PairReply(r) PROVE Step("pairReply")
  BY <1>3, SameKeeps DEF PairReply
<1>4. ASSUME RefreshBump(r) PROVE Step("refBump")
  BY <1>0, <1>4, FieldKeeps DEF RefreshBump, Steps
<1>5. ASSUME RefreshReply(r) PROVE Step("refReply")
  BY <1>5, SameKeeps DEF RefreshReply
<1>6. ASSUME TotpSetupWrite(r) PROVE Step("setupWrite")
  BY <1>0, <1>6, FieldKeeps DEF TotpSetupWrite
<1>7. ASSUME TotpEnablePassword(r) PROVE Step("enPass")
  BY <1>0, <1>7, FieldKeeps, SameKeeps DEF TotpEnablePassword, Steps
<1>8. ASSUME TotpEnableOn(r) PROVE Step("enOn")
  BY <1>0, <1>8, FieldKeeps DEF TotpEnableOn, Steps
<1>9. ASSUME TotpEnableMark(r) PROVE Step("enMark")
  BY <1>9, SameKeeps DEF TotpEnableMark, Steps
<1>10. ASSUME TotpEnableReply(r) PROVE Step("enReply")
  BY <1>10, SameKeeps DEF TotpEnableReply
<1>11. ASSUME ChangePasswordWrite(r) PROVE Step("cpWrite")
  BY <1>0, <1>11, FieldKeeps DEF ChangePasswordWrite, Steps
<1>12. ASSUME TotpDisableWrite(r) PROVE Step("tdWrite")
  BY <1>0, <1>12, FieldKeeps DEF TotpDisableWrite, Steps
<1>13. ASSUME UpdateUserRoleWrite(r) PROVE Step("roleWrite")
  <2>1. At(r, "roleWrite") /\ Goes /\ UNCHANGED <<known, crashed>>
    BY <1>13 DEF UpdateUserRoleWrite, Steps
  <2>2. CASE UNCHANGED users
    BY <2>1, <2>2, SameKeeps
  <2>3. CASE Live(req[r].id) /\ users' = [users EXCEPT ![req[r].id].role = req[r].role]
    <3>1. updateLDAPUser(req[r].id, req[r].role)
      BY <2>3 DEF updateLDAPUser, UpdateRow
    <3> QED
      BY <1>0, <2>1, <3>1, FieldKeeps
  <2> QED
    BY <1>13, <2>2, <2>3 DEF UpdateUserRoleWrite
<1>14. ASSUME DeleteUserWrite(r) PROVE Step("delWrite")
  BY <1>14, DeleteKeeps DEF DeleteUserWrite
<1>15. ASSUME ResetTotpStep(r) PROVE \E from \in Froms : Step(from)
  <2>1. CASE At(r, "rtTotp") /\ SetTotp(req[r].id, "none") /\ GoTo(r, "rtPass")
    <3>1. Step("rtTotp")
      BY <1>0, <1>15, <2>1, FieldKeeps DEF ResetTotpStep, Steps
    <3> QED
      BY <3>1 DEF Steps
  <2>2. CASE At(r, "rtPass") /\ UpdateUserPassword(req[r].id, "reset") /\ GoTo(r, "rtMark")
    <3>1. Step("rtPass")
      BY <1>0, <1>15, <2>2, FieldKeeps DEF ResetTotpStep, Steps
    <3> QED
      BY <3>1 DEF Steps
  <2>3. CASE At(r, "rtMark") /\ GoTo(r, "rotate") /\ UNCHANGED users
    <3>1. Step("rtMark")
      BY <1>15, <2>3, SameKeeps DEF ResetTotpStep, Steps
    <3> QED
      BY <3>1 DEF Steps
  <2> QED
    BY <1>15, <2>1, <2>2, <2>3 DEF ResetTotpStep
<1>16. ASSUME Rotate(r) PROVE Step("rotate")
  <2>1. IncrementTokenGeneration(req[r].id) /\ At(r, "rotate") /\ UNCHANGED <<known, crashed>>
    BY <1>16 DEF Rotate
  <2>2. Goes
    BY <1>16 DEF Rotate, Steps
  <2> QED
    BY <1>0, <2>1, <2>2, FieldKeeps
<1>17. ASSUME RevokeApiTokens(r) PROVE Step("revoke")
  BY <1>17, SameKeeps DEF RevokeApiTokens
<1>18. {"regClean", "ldapReply", "pairReply", "refBump", "refReply", "setupWrite", "enPass", "enOn",
        "enMark", "enReply", "cpWrite", "tdWrite", "roleWrite", "delWrite", "rotate", "revoke"} \subseteq Froms
  BY DEF Steps
<1> HIDE DEF Step, Froms
<1>19. \E from \in Froms : Step(from)
  BY <1>1, <1>2, <1>3, <1>4, <1>5, <1>6, <1>7, <1>8, <1>9, <1>10, <1>11, <1>12, <1>13, <1>14,
     <1>15, <1>16, <1>17, <1>18
<1> QED
  BY <1>19, GoesQuietly DEF Step, Froms

\* The requests that begin, other than a login through the directory.
LEMMA BeginsFirst ==
    ASSUME IInv, FirstInv, NEW r \in Reqs,
           \/ RegisterCheck(r)
           \/ \E t \in issued :
               \/ LoginTotp(r, t) \/ RefreshRead(r, t) \/ TotpSetup(r, t)
               \/ TotpEnable(r, t) \/ ChangePassword(r, t)
               \/ \E id \in Ids : TotpDisable(r, t, id)
           \/ \E c \in issued \cup ApiTokens, id \in Ids :
               \/ \E role \in Role : UpdateUserRole(r, c, id, role)
               \/ DeleteUser(r, c, id)
           \/ \E id \in Ids : ResetTotp(r, id)
    PROVE  FirstInv'
<1>1. ASSUME RegisterCheck(r) PROVE FirstInv'
  BY <1>1, BeginsQuietly DEF RegisterCheck, BeginPlain, Steps
<1>2. ASSUME NEW t \in issued, LoginTotp(r, t) PROVE FirstInv'
  BY <1>2, BeginsQuietly DEF LoginTotp, BeginPlain, Steps
<1>3. ASSUME NEW t \in issued, RefreshRead(r, t) PROVE FirstInv'
  BY <1>3, BeginsQuietly DEF RefreshRead, BeginPlain, Steps
<1>4. ASSUME NEW t \in issued, TotpSetup(r, t) PROVE FirstInv'
  BY <1>4, BeginsQuietly DEF TotpSetup, BeginPlain, Steps
<1>5. ASSUME NEW t \in issued, TotpEnable(r, t) PROVE FirstInv'
  <2>1. PICK pc \in Steps \ {"ldapWrite"} : BeginPlain(r, pc, t.sub, users[t.sub])
    BY <1>5 DEF TotpEnable, Steps
  <2>2. UNCHANGED <<users, known, crashed>>
    BY <1>5 DEF TotpEnable
  <2> QED
    BY <2>1, <2>2, BeginsQuietly DEF BeginPlain
<1>6. ASSUME NEW t \in issued, ChangePassword(r, t) PROVE FirstInv'
  BY <1>6, BeginsQuietly DEF ChangePassword, Steps
<1>7. ASSUME NEW t \in issued, NEW id \in Ids, TotpDisable(r, t, id) PROVE FirstInv'
  BY <1>7, BeginsQuietly DEF TotpDisable, Steps
<1>8. ASSUME NEW c, NEW id \in Ids, NEW role \in Role, UpdateUserRole(r, c, id, role) PROVE FirstInv'
  BY <1>8, BeginsQuietly DEF UpdateUserRole, Steps
<1>9. ASSUME NEW c, NEW id \in Ids, DeleteUser(r, c, id) PROVE FirstInv'
  BY <1>9, BeginsQuietly DEF DeleteUser, Steps
<1>10. ASSUME NEW id \in Ids, ResetTotp(r, id) PROVE FirstInv'
  BY <1>10, BeginsQuietly DEF ResetTotp, Steps
<1> QED
  BY <1>1, <1>2, <1>3, <1>4, <1>5, <1>6, <1>7, <1>8, <1>9, <1>10

LEMMA InitFirst == Init => FirstInv
<1> SUFFICES ASSUME Init PROVE FirstInv
  OBVIOUS
<1>1. IsFiniteSet(known)
  <2>1. IsFiniteSet({}) /\ IsFiniteSet({Founder})
    BY FS_EmptySet, FS_Singleton
  <2>2. IsFiniteSet({Founder} \cup {Second})
    BY <2>1, FS_AddElement
  <2>3. {Founder} \cup {Second} = {Founder, Second}
    OBVIOUS
  <2> QED
    BY <2>1, <2>2, <2>3 DEF Init
<1>2. \A r \in Reqs : req[r] = Idle
  BY DEF Init
<1>3. ASSUME NEW a \in Decided PROVE a = Founder
  <2>1. a \in Ids /\ users[a] # NoRow /\ users[a].via = "register"
    BY DEF Decided, Rows, Live
  <2>2. \A n, role, pw : /\ Enrolled(n, role, "admin").via = "admin"
                         /\ NewUser(n, role, "local", pw, "admin").via = "admin"
    BY DEF Enrolled, NewUser
  <2>3. PICK second : users = Installed(second) /\ second.via = "admin"
    BY <2>1, <2>2 DEF Init
  <2>4. users[a] = IF a = Founder THEN Enrolled(FirstName, "admin", "register")
                   ELSE IF a = Second THEN second ELSE NoRow
    BY <2>1, <2>3 DEF Installed
  <2> QED
    BY <2>1, <2>3, <2>4
<1> QED
  BY <1>1, <1>2, <1>3 DEF FirstInv, At

LEMMA FirstHolds == Spec => []FirstInv
<1>1. IInv /\ FirstInv /\ [Next]_vars => FirstInv'
  <2> SUFFICES ASSUME IInv, FirstInv, [Next]_vars PROVE FirstInv'
    OBVIOUS
  <2>1. ASSUME UNCHANGED vars PROVE FirstInv'
    BY <2>1, AtOnceQuietly DEF vars
  <2>2. ASSUME NEW id \in Ids, Login(id) PROVE FirstInv'
    BY <2>2, AtOnceQuietly DEF Login, AtOnce
  <2>3. ASSUME NEW id \in Ids, NEW n \in Names, NEW role \in Role, AdminCreateUser(id, n, role)
        PROVE  FirstInv'
    <3> DEFINE row == NewUser(n, role, "local", "initial", "admin")
    <3>1. CreateUser(id, row) /\ row.via # "register" /\ UNCHANGED <<req, crashed>>
      BY <2>3 DEF AdminCreateUser, AtOnce, NewUser
    <3> HIDE DEF row
    <3>2. \A s \in Reqs : /\ Undecided(s) => Undecided(s)' /\ req'[s].id = req[s].id
                          /\ At(s, "ldapWrite")' => At(s, "ldapWrite") /\ req'[s] = req[s]
      BY <3>1 DEF Undecided, At
    <3> QED
      BY <3>1, <3>2, AddsQuietly
  <2>4. ASSUME NEW id \in Ids, NEW k \in ApiIds, CreateAPIToken(k, id) PROVE FirstInv'
    BY <2>4, AtOnceQuietly DEF CreateAPIToken, AtOnce
  <2>5. ASSUME NEW k \in ApiIds, RevokeAPIToken(k) PROVE FirstInv'
    BY <2>5, AtOnceQuietly DEF RevokeAPIToken, AtOnce
  <2>6. ASSUME Crash PROVE FirstInv'
    <3>1. crashed' = TRUE /\ known' = known /\ \A r \in Reqs : req'[r] = Idle
      BY <2>6 DEF Crash
    <3> QED
      BY <3>1 DEF FirstInv, At
  <2>7. ASSUME NEW r \in Reqs,
               \/ RegisterCheck(r) \/ RegisterClean(r) \/ RegisterCreate(r)
               \/ RegisterRecount(r) \/ RegisterUndo(r)
               \/ \E who \in Authenticate : LdapFind(r, who)
               \/ LdapWrite(r) \/ LdapReply(r) \/ PairReply(r)
        PROVE  FirstInv'
    BY <2>7, BeginsFirst, FieldsFirst, RegisterCreateFirst, RegisterRecountFirst, RegisterUndoFirst,
       LdapFindFirst, LdapWriteFirst
  <2>8. ASSUME NEW r \in Reqs, NEW t \in issued,
               \/ LoginTotp(r, t) \/ RefreshRead(r, t) \/ TotpSetup(r, t)
               \/ TotpEnable(r, t) \/ ChangePassword(r, t)
               \/ \E id \in Ids : TotpDisable(r, t, id)
        PROVE  FirstInv'
    BY <2>8, BeginsFirst
  <2>9. ASSUME NEW r \in Reqs,
               \/ RefreshBump(r) \/ RefreshReply(r)
               \/ TotpSetupWrite(r) \/ TotpEnablePassword(r) \/ TotpEnableOn(r)
               \/ TotpEnableMark(r) \/ TotpEnableReply(r)
               \/ ChangePasswordWrite(r) \/ TotpDisableWrite(r)
        PROVE  FirstInv'
    BY <2>9, FieldsFirst
  <2>10. ASSUME NEW r \in Reqs, NEW c \in issued \cup ApiTokens, NEW id \in Ids,
                (\E role \in Role : UpdateUserRole(r, c, id, role)) \/ DeleteUser(r, c, id)
         PROVE  FirstInv'
    BY <2>10, BeginsFirst
  <2>11. ASSUME NEW r \in Reqs,
                \/ UpdateUserRoleWrite(r) \/ DeleteUserWrite(r)
                \/ \E id \in Ids : ResetTotp(r, id)
                \/ ResetTotpStep(r) \/ Rotate(r) \/ RevokeApiTokens(r)
         PROVE  FirstInv'
    BY <2>11, FieldsFirst, BeginsFirst
  <2> QED
    BY <2>1, <2>2, <2>3, <2>4, <2>5, <2>6, <2>7, <2>8, <2>9, <2>10, <2>11 DEF Next
<1> QED
  BY <1>1, InitFirst, Inductive, PTL DEF Spec

-----------------------------------------------------------------------------
(* Theorems                                                                *)

\* Users, tokens, API tokens and requests in hand keep their types.
THEOREM AccountsTypeCorrect == Spec => []TypeOK
<1>1. IInv => TypeOK
  BY DEF IInv
<1> QED
  BY <1>1, Inductive, PTL

\* A credential that a completed password change, removal of the second
\* factor, reset, change of role, revocation or deletion was to invalidate is
\* never accepted again, whatever logins and refreshes were in hand
\* (handlers_auth.go:670-678, handlers_users.go:50-58, admin.go:78-87).
THEOREM InvalidatedForGood == Spec => []InvalidatedStaysRefused
<1>1. IInv => InvalidatedStaysRefused
  <2> SUFFICES ASSUME IInv, NEW c \in dead PROVE ~Accepted(c)
    BY DEF InvalidatedStaysRefused
  <2>1. Refused(c) /\ TypeOK /\ c \in Credential
    BY DEF IInv, TypeOK
  <2>2. CASE c.type = "api"
    <3>1. ASSUME NEW k \in ApiIds, api[k].live, c = Jwt("api", api[k].owner, "none", k) PROVE FALSE
      <4>1. c.gen = k
        BY <3>1 DEF Jwt
      <4> QED
        BY <2>1, <2>2, <3>1, <4>1 DEF Refused
    <3> QED
      BY <2>2, <3>1 DEF Accepted, ApiTokens
  <2>3. CASE c.type # "api"
    <3>1. c.gen \in Nat /\ (Live(c.sub) => users[c.sub].gen \in Nat /\ c.gen < users[c.sub].gen)
      BY <2>1, <2>3, RowTypes DEF Refused, Credential
    <3> QED
      BY <2>3, <3>1 DEF Accepted
  <2> QED
    BY <2>2, <2>3
<1> QED
  BY <1>1, Inductive, PTL

\* The password an administrator chose at the creation of a user is gone when
\* the user is enrolled (rotateTemporaryPasswordDuringTOTPEnable); that of
\* reset-totp may stay.
THEOREM InitialPasswordIsReplaced == Spec => []InitialPasswordReplaced
<1>1. IInv => InitialPasswordReplaced
  BY DEF IInv, Tables
<1> QED
  BY <1>1, Inductive, PTL

\* However many first registrations race, at most one of them leaves an
\* administrator behind: each counts the rows after its own insertion, and an
\* id is never inserted again (handlers_auth.go:95-101).
THEOREM OneFounder == Spec => []OneFirstAdministrator
<1>1. IInv /\ FirstInv => OneFirstAdministrator
  <2> SUFFICES ASSUME IInv, FirstInv, ~crashed PROVE OneFirstAdministrator
    BY DEF OneFirstAdministrator
  <2> DEFINE undecided == {req[r].id : r \in {x \in Reqs : At(x, "regRecount") \/ At(x, "regUndo")}}
             founders == {id \in Rows \ undecided : users[id].via = "register"}
  <2>1. founders \subseteq Decided
    BY DEF Decided, Undecided
  <2>2. founders \subseteq known
    BY DEF IInv, Tables
  <2>3. IsFiniteSet(founders) /\ \A a, b \in founders : a = b
    BY <2>1, <2>2, FS_Subset DEF FirstInv
  <2> HIDE DEF founders
  <2>4. Cardinality(founders) <= 1
    BY <2>3, AtMostOne
  <2> QED
    BY <2>4 DEF founders, OneFirstAdministrator
<1> QED
  BY <1>1, Inductive, FirstHolds, PTL
=============================================================================
