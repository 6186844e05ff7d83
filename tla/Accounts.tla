------------------------------ MODULE Accounts ------------------------------
(***************************************************************************)
(* Accounts and the credentials issued to them: first registration, local  *)
(* and LDAP login, second factor, token pairs and their generation,        *)
(* password change, the administrators' operations and the command line.   *)
(* Sources: hub/internal/server/handlers_auth.go, handlers_users.go,       *)
(* ldap_auth.go, middleware.go, hub/internal/store/users.go,               *)
(* api_tokens.go, hub/internal/auth/jwt.go, hub/cmd/veyport/admin.go.      *)
(*                                                                         *)
(* The statements of the store are atomic; between two of them the         *)
(* statements of other requests, and of the command line's own process,    *)
(* may run.  A request in hand is a slot with its place in the handler.    *)
(* Requests refused before they write are left out: they change nothing.   *)
(* A password, a second-factor code and a password history are abstracted  *)
(* to the answer of the check; expiry to a credential no longer presented. *)
(* Codes, the blacklist and the rate limits are in LoginGuards.            *)
(***************************************************************************)
EXTENDS Naturals, FiniteSets

CONSTANTS
    Ids,          \* user ids (UUIDs: never used twice)
    Names,        \* user names
    Reqs,         \* slots: requests in hand at the same time
    ApiIds,       \* API token ids, natural numbers
    Founder,      \* the administrator of an installed hub
    Second,       \* a second user of an installed hub
    NoRow, Idle,  \* no such row; a free slot
    MaxRequests   \* bound: requests that start

VARIABLES
    users,      \* the users table
    setupDone,  \* _config: initial_setup_completed
    api,        \* the api_tokens table
    issued,     \* the JWTs handed out
    req,        \* the requests in hand
    known,      \* the ids used so far
    started,    \* how many requests started
    dead,       \* history: credentials a completed operation invalidated
    crashed     \* history: the hub died with requests in hand

vars == <<users, setupDone, api, issued, req, known, started, dead, crashed>>

Role == {"admin", "viewer"}

\* One row of users: totp is "none" (no secret), "pending" (a secret, not
\* enabled) or "on"; pw says who chose the password: the user (or the
\* directory), the administrator who created the row, or reset-totp; role
\* stands for role and terminal access; via is how the row came to be.
User == [name: Names, role: Role, provider: {"local", "ldap"},
         totp: {"none", "pending", "on"}, pw: {"own", "initial", "reset"},
         gen: Nat, via: {"register", "admin", "ldap"}]

\* A row of api_tokens: live until it is revoked or goes with its owner.
ApiRow == [owner: Ids \cup {NoRow}, live: BOOLEAN]

\* A JWT by its claims, and an API token (gen is its id).
Credential == [type: {"access", "refresh", "setup", "totp", "api"},
               sub: Ids, role: Role \cup {"none"}, gen: Nat]

Steps == {"regClean", "regCreate", "regRecount", "regUndo", "ldapWrite",
          "ldapReply", "pairReply", "refBump", "refReply", "setupWrite",
          "enPass", "enOn", "enMark", "enReply", "cpWrite", "tdWrite",
          "roleWrite", "delWrite", "rtTotp", "rtPass", "rtMark",
          "rotate", "revoke"}

Request == [pc: Steps, id: Ids \cup {NoRow}, snap: User \cup {NoRow},
            role: Role, op: {"other", "role", "ldap"}, old: SUBSET Credential]

ASSUME AccountsAssumption ==
    /\ ApiIds \subseteq Nat
    /\ MaxRequests \in Nat
    /\ Founder \in Ids /\ Second \in Ids /\ Founder # Second
    /\ \E m, n \in Names : m # n
    /\ NoRow \notin Ids \cup User /\ Idle \notin Request

Live(id) == id \in Ids /\ users[id] # NoRow
Rows == {id \in Ids : Live(id)}
NameTaken(n) == \E id \in Rows : users[id].name = n

Jwt(type, id, role, gen) == [type |-> type, sub |-> id, role |-> role, gen |-> gen]

\* GenerateTokenPair: both tokens carry the generation.
Pair(id, role, gen) == {Jwt("access", id, role, gen), Jwt("refresh", id, role, gen)}

ApiTokens == {Jwt("api", api[k].owner, "none", k) : k \in {j \in ApiIds : api[j].live}}

\* authenticateRequestToken and the check of handleRefresh: the row exists and
\* its generation is the token's; an API token must not be revoked.
Accepted(c) ==
    IF c.type = "api" THEN c \in ApiTokens /\ Live(c.sub)
                      ELSE Live(c.sub) /\ users[c.sub].gen = c.gen

\* The tokens of a user that carry a generation, and the API tokens.  Setup
\* and totp tokens carry none: nothing but their expiry ends them.
CredentialsOf(id) ==
    {c \in issued : c.sub = id /\ c.type \in {"access", "refresh"}}
        \cup {c \in ApiTokens : c.sub = id}

\* adminOnly: the role of the claims, for an API token that of the row.
IsAdmin(c) == IF c.type = "api" THEN users[c.sub].role = "admin" ELSE c.role = "admin"
Presented(types) == {c \in issued \cup ApiTokens : c.type \in types /\ Accepted(c)}

TypeOK ==
    /\ users \in [Ids -> User \cup {NoRow}]
    /\ setupDone \in BOOLEAN
    /\ api \in [ApiIds -> ApiRow]
    /\ issued \subseteq Credential
    /\ req \in [Reqs -> Request \cup {Idle}]
    /\ known \subseteq Ids
    /\ started \in 0..MaxRequests
    /\ dead \subseteq Credential
    /\ crashed \in BOOLEAN

\* MustChangePassword: set with the initial password, cleared by every other.
must(row) == row.pw = "initial"

NewUser(n, role, provider, pw, via) ==
    [name |-> n, role |-> role, provider |-> provider, totp |-> "none",
     pw |-> pw, gen |-> 0, via |-> via]

FirstName == CHOOSE n \in Names : TRUE
SecondName == CHOOSE n \in Names : n # FirstName

Enrolled(n, role, via) == [NewUser(n, role, "local", "own", via) EXCEPT !.totp = "on"]

\* The users of an installed hub: its administrator and one more.
Installed(second) ==
    [id \in Ids |-> IF id = Founder THEN Enrolled(FirstName, "admin", "register")
                    ELSE IF id = Second THEN second ELSE NoRow]

\* A hub just installed; or one with two enrolled users, both logged in; or
\* one whose second user logged in with the temporary password.
Init ==
    /\ \/ /\ users = [id \in Ids |-> NoRow]
          /\ known = {} /\ issued = {} /\ setupDone = FALSE
       \/ /\ known = {Founder, Second} /\ setupDone = TRUE
          /\ \/ \E role \in Role :
                  /\ users = Installed(Enrolled(SecondName, role, "admin"))
                  /\ issued = Pair(Founder, "admin", 0) \cup Pair(Second, role, 0)
             \/ /\ users = Installed(NewUser(SecondName, "viewer", "local", "initial", "admin"))
                /\ issued = Pair(Founder, "admin", 0) \cup {Jwt("setup", Second, "viewer", 0)}
    /\ api = [k \in ApiIds |-> [owner |-> NoRow, live |-> FALSE]]
    /\ req = [r \in Reqs |-> Idle]
    /\ started = 0
    /\ dead = {}
    /\ crashed = FALSE

-----------------------------------------------------------------------------
(* Slots                                                                   *)

At(r, pc) == req[r] # Idle /\ req[r].pc = pc

Begin(r, pc, id, snap, role, op, old) ==
    /\ req[r] = Idle /\ started < MaxRequests
    /\ req' = [req EXCEPT ![r] = [pc |-> pc, id |-> id, snap |-> snap,
                                  role |-> role, op |-> op, old |-> old]]
    /\ started' = started + 1

BeginPlain(r, pc, id, snap) == Begin(r, pc, id, snap, "viewer", "other", {})
GoTo(r, pc) == req' = [req EXCEPT ![r].pc = pc]
Finish(r) == req' = [req EXCEPT ![r] = Idle]
AtOnce == started < MaxRequests /\ started' = started + 1 /\ UNCHANGED req

\* UPDATE users ... WHERE id: no row, no effect and no error.
UpdateRow(id, row) == users' = IF Live(id) THEN [users EXCEPT ![id] = row] ELSE users
SetTotp(id, v) == UpdateRow(id, [users[id] EXCEPT !.totp = v])
UpdateUserPassword(id, pw) == UpdateRow(id, [users[id] EXCEPT !.pw = pw])
IncrementTokenGeneration_Lost(id) == UNCHANGED users
IncrementTokenGeneration(id) == UpdateRow(id, [users[id] EXCEPT !.gen = @ + 1])

RevokeAll(S) ==
    api' = [k \in ApiIds |-> IF api[k].owner \in S THEN [api[k] EXCEPT !.live = FALSE] ELSE api[k]]

\* DeleteUser: the row and what refers to it, in one transaction.
DeleteRows(S) ==
    /\ users' = [id \in Ids |-> IF id \in S THEN NoRow ELSE users[id]]
    /\ RevokeAll(S)

DeleteIncompleteUsers == DeleteRows({id \in Rows : users[id].totp # "on"})

CreateUser(id, row) ==
    /\ id \in Ids \ known /\ ~NameTaken(row.name)
    /\ users' = [users EXCEPT ![id] = row]
    /\ known' = known \cup {id}

\* respondAfterPrimaryLogin
PrimaryToken(id) ==
    Jwt(IF users[id].totp = "on" THEN "totp" ELSE "setup", id, users[id].role, 0)

-----------------------------------------------------------------------------
(* First registration                                                      *)

InitialSetupComplete == setupDone \/ \E id \in Rows : users[id].totp = "on"

RegisterCheck(r) ==
    /\ ~InitialSetupComplete
    /\ BeginPlain(r, "regClean", NoRow, NoRow)
    /\ UNCHANGED <<users, setupDone, api, issued, known, dead, crashed>>

\* DeleteIncompleteUsers comes before the body is validated: a request that is
\* then refused has deleted them too.
RegisterClean(r) ==
    /\ At(r, "regClean")
    /\ DeleteIncompleteUsers
    /\ Finish(r) \/ GoTo(r, "regCreate")
    /\ UNCHANGED <<setupDone, issued, known, started, dead, crashed>>

RegisterCreate(r) ==
    /\ At(r, "regCreate")
    /\ \/ \E id \in Ids, n \in Names :
            /\ CreateUser(id, NewUser(n, "admin", "local", "own", "register"))
            /\ req' = [req EXCEPT ![r].pc = "regRecount", ![r].id = id]
       \/ /\ Rows # {} \/ Ids = known  \* the name is taken (or no id is left)
          /\ Finish(r) /\ UNCHANGED <<users, known>>
    /\ UNCHANGED <<setupDone, api, issued, started, dead, crashed>>

RegisterRecount_Dropped(r) ==
    /\ At(r, "regRecount") /\ Finish(r)
    /\ issued' = issued \cup {Jwt("setup", req[r].id, "admin", 0)}
    /\ UNCHANGED <<users, setupDone, api, known, started, dead, crashed>>

RegisterRecount(r) ==
    /\ At(r, "regRecount")
    /\ \/ Cardinality(Rows) > 1 /\ GoTo(r, "regUndo") /\ UNCHANGED issued
       \/ /\ Cardinality(Rows) <= 1 /\ Finish(r)
          /\ issued' = issued \cup {Jwt("setup", req[r].id, "admin", 0)}
    /\ UNCHANGED <<users, setupDone, api, known, started, dead, crashed>>

RegisterUndo(r) ==
    /\ At(r, "regUndo")
    /\ DeleteRows({req[r].id})
    /\ Finish(r)
    /\ UNCHANGED <<setupDone, issued, known, started, dead, crashed>>

-----------------------------------------------------------------------------
(* Login                                                                   *)

\* handleLogin for a local user.  The claims of the token it hands out are
\* never compared with the row, so a token that is handed out later than the
\* row was read is a token used later.
Login(id) ==
    /\ Live(id) /\ users[id].provider = "local"
    /\ AtOnce
    /\ issued' = issued \cup {PrimaryToken(id)}
    /\ UNCHANGED <<users, setupDone, api, known, dead, crashed>>

\* findGroups: what the directory answers; a failed search gives no group.
findGroups == SUBSET {"veyport-admins", "veyport-viewers"}

\* Authenticate: the identities the directory may vouch for.
Authenticate == [name: Names, groups: findGroups]

\* mapLDAPRole: the strongest role of the groups, or none.
mapLDAPRole(groups) ==
    IF "veyport-admins" \in groups THEN "admin"
    ELSE IF "veyport-viewers" \in groups THEN "viewer" ELSE "none"

findExistingLDAPUser(n) == {id \in Rows : users[id].name = n}

\* prepareLDAPUserUpdate: a local user's name is reserved.
prepareLDAPUserUpdate(id) == users[id].provider = "ldap"

updateLDAPUser(id, role) == UpdateRow(id, [users[id] EXCEPT !.role = role])

\* authenticateLDAPLogin, up to the row found.
LdapFind(r, who) ==
    LET role == mapLDAPRole(who.groups)
        found == findExistingLDAPUser(who.name)
    IN /\ role # "none"
       /\ \/ found = {} /\ \E id \in Ids \ known :
                Begin(r, "ldapWrite", id, NewUser(who.name, role, "ldap", "own", "ldap"), role, "other", {})
          \/ \E id \in found :
                /\ prepareLDAPUserUpdate(id)
                /\ Begin(r, "ldapWrite", id, users[id], role, "ldap", CredentialsOf(id))
       /\ UNCHANGED <<users, setupDone, api, issued, known, dead, crashed>>

\* UpsertLDAPUser: CreateUser, or the update and the decision to rotate the
\* sessions, which compares with the row read before.
LdapWrite(r) ==
    /\ At(r, "ldapWrite")
    /\ LET q == req[r] IN
       \/ q.op = "other" /\ CreateUser(q.id, q.snap) /\ GoTo(r, "ldapReply")
       \/ /\ q.op = "other" /\ (q.id \in known \/ NameTaken(q.snap.name))
          /\ Finish(r) /\ UNCHANGED <<users, known>>
       \/ /\ q.op = "ldap"
          /\ updateLDAPUser(q.id, q.role)
          /\ GoTo(r, IF q.snap.role # q.role THEN "rotate" ELSE "ldapReply")
          /\ UNCHANGED known
    /\ UNCHANGED <<setupDone, api, issued, started, dead, crashed>>

LdapReply(r) ==
    /\ At(r, "ldapReply")
    /\ issued' = IF Live(req[r].id) THEN issued \cup {PrimaryToken(req[r].id)} ELSE issued
    /\ Finish(r)
    /\ UNCHANGED <<users, setupDone, api, known, started, dead, crashed>>

\* handleLoginTOTP: the row is read, the code checked, the pair made of what
\* was read.
LoginTotp(r, t) ==
    /\ t \in issued /\ t.type = "totp" /\ Live(t.sub) /\ users[t.sub].totp # "none"
    /\ BeginPlain(r, "pairReply", t.sub, users[t.sub])
    /\ UNCHANGED <<users, setupDone, api, issued, known, dead, crashed>>

PairReply(r) ==
    /\ At(r, "pairReply")
    /\ issued' = issued \cup Pair(req[r].id, req[r].snap.role, req[r].snap.gen)
    /\ Finish(r)
    /\ UNCHANGED <<users, setupDone, api, known, started, dead, crashed>>

-----------------------------------------------------------------------------
(* Refresh: compare the generation, increment it, read it back             *)

RefreshRead(r, t) ==
    /\ t \in Presented({"refresh"})
    /\ BeginPlain(r, "refBump", t.sub, users[t.sub])
    /\ UNCHANGED <<users, setupDone, api, issued, known, dead, crashed>>

RefreshBump(r) ==
    /\ At(r, "refBump")
    /\ IncrementTokenGeneration(req[r].id)
    /\ GoTo(r, "refReply")
    /\ UNCHANGED <<setupDone, api, issued, known, started, dead, crashed>>

RefreshReply(r) ==
    /\ At(r, "refReply")
    /\ LET id == req[r].id IN
       issued' = IF Live(id) THEN issued \cup Pair(id, req[r].snap.role, users[id].gen) ELSE issued
    /\ Finish(r)
    /\ UNCHANGED <<users, setupDone, api, known, started, dead, crashed>>

-----------------------------------------------------------------------------
(* Second factor                                                           *)

TotpSetup(r, t) ==
    /\ t \in issued /\ t.type = "setup" /\ Live(t.sub) /\ users[t.sub].totp # "on"
    /\ BeginPlain(r, "setupWrite", t.sub, users[t.sub])
    /\ UNCHANGED <<users, setupDone, api, issued, known, dead, crashed>>

TotpSetupWrite(r) ==
    /\ At(r, "setupWrite")
    /\ SetTotp(req[r].id, "pending")
    /\ Finish(r)
    /\ UNCHANGED <<setupDone, api, issued, known, started, dead, crashed>>

\* handleTOTPEnable up to the code: it does not ask whether TOTP is on already.
TotpEnable(r, t) ==
    /\ t \in issued /\ t.type = "setup" /\ Live(t.sub) /\ users[t.sub].totp # "none"
    /\ BeginPlain(r, IF must(users[t.sub]) THEN "enPass" ELSE "enOn", t.sub, users[t.sub])
    /\ UNCHANGED <<users, setupDone, api, issued, known, dead, crashed>>

\* rotateTemporaryPasswordDuringTOTPEnable: refused, or the password is set.
TotpEnablePassword_NotEnforced(r) ==
    /\ At(r, "enPass")
    /\ UpdateUserPassword(req[r].id, "own") \/ UNCHANGED users
    /\ GoTo(r, "enOn")
    /\ UNCHANGED <<setupDone, api, issued, known, started, dead, crashed>>

TotpEnablePassword(r) ==
    /\ At(r, "enPass")
    /\ \/ Finish(r) /\ UNCHANGED users
       \/ UpdateUserPassword(req[r].id, "own") /\ GoTo(r, "enOn")
    /\ UNCHANGED <<setupDone, api, issued, known, started, dead, crashed>>

TotpEnableOn(r) ==
    /\ At(r, "enOn")
    /\ SetTotp(req[r].id, "on")
    /\ GoTo(r, "enMark")
    /\ UNCHANGED <<setupDone, api, issued, known, started, dead, crashed>>

TotpEnableMark(r) ==
    /\ At(r, "enMark")
    /\ setupDone' = TRUE
    /\ GoTo(r, "enReply")
    /\ UNCHANGED <<users, api, issued, known, started, dead, crashed>>

\* The row is read again for the answer; when it is gone the handler panics
\* before anything is sent.
TotpEnableReply(r) ==
    /\ At(r, "enReply")
    /\ LET q == req[r] IN
       issued' = IF Live(q.id) THEN issued \cup Pair(q.id, q.snap.role, q.snap.gen) ELSE issued
    /\ Finish(r)
    /\ UNCHANGED <<users, setupDone, api, known, started, dead, crashed>>

-----------------------------------------------------------------------------
(* What invalidates credentials                                            *)

ChangePassword(r, t) ==
    /\ t \in Presented({"access"}) /\ users[t.sub].provider = "local"
    /\ Begin(r, "cpWrite", t.sub, NoRow, "viewer", "other", CredentialsOf(t.sub))
    /\ UNCHANGED <<users, setupDone, api, issued, known, dead, crashed>>

ChangePasswordWrite(r) ==
    /\ At(r, "cpWrite")
    /\ UpdateUserPassword(req[r].id, "own")
    /\ GoTo(r, "rotate")
    /\ UNCHANGED <<setupDone, api, issued, known, started, dead, crashed>>

TotpDisable(r, t, target) ==
    /\ t \in Presented({"access"}) /\ IsAdmin(t) /\ users[t.sub].totp # "none"
    /\ target \in Rows \ {t.sub}
    /\ Begin(r, "tdWrite", target, NoRow, "viewer", "other", CredentialsOf(target))
    /\ UNCHANGED <<users, setupDone, api, issued, known, dead, crashed>>

TotpDisableWrite(r) ==
    /\ At(r, "tdWrite")
    /\ SetTotp(req[r].id, "none")
    /\ GoTo(r, "rotate")
    /\ UNCHANGED <<setupDone, api, issued, known, started, dead, crashed>>

UpdateUserRole(r, c, target, role) ==
    /\ c \in Presented({"access", "api"}) /\ IsAdmin(c) /\ target \in Rows \ {c.sub}
    /\ Begin(r, "roleWrite", target, NoRow, role, "role",
             {d \in CredentialsOf(target) : d.type # "api"})
    /\ UNCHANGED <<users, setupDone, api, issued, known, dead, crashed>>

\* UpdateUserRole of the store: no row is an error here.
UpdateUserRoleWrite(r) ==
    /\ At(r, "roleWrite")
    /\ LET id == req[r].id IN
       \/ /\ Live(id) /\ users' = [users EXCEPT ![id].role = req[r].role]
          /\ GoTo(r, "rotate")
       \/ ~Live(id) /\ Finish(r) /\ UNCHANGED users
    /\ UNCHANGED <<setupDone, api, issued, known, started, dead, crashed>>

\* runResetTOTP, in a process of its own.
ResetTotp(r, id) ==
    /\ Live(id)
    /\ Begin(r, "rtTotp", id, NoRow, "viewer", "other", CredentialsOf(id))
    /\ UNCHANGED <<users, setupDone, api, issued, known, dead, crashed>>

ResetTotpStep(r) ==
    /\ \/ At(r, "rtTotp") /\ SetTotp(req[r].id, "none") /\ GoTo(r, "rtPass") /\ UNCHANGED setupDone
       \/ At(r, "rtPass") /\ UpdateUserPassword(req[r].id, "reset") /\ GoTo(r, "rtMark") /\ UNCHANGED setupDone
       \/ At(r, "rtMark") /\ setupDone' = TRUE /\ GoTo(r, "rotate") /\ UNCHANGED users
    /\ UNCHANGED <<api, issued, known, started, dead, crashed>>

\* The read that follows the increment fails when the row is gone: the
\* operation ends there.
Rotate(r) ==
    /\ At(r, "rotate")
    /\ LET q == req[r]
           sessions == {c \in q.old : c.type # "api"} IN
       /\ IncrementTokenGeneration(q.id)
       /\ \/ ~Live(q.id) /\ Finish(r) /\ UNCHANGED dead
          \/ Live(q.id) /\ q.op = "role" /\ Finish(r) /\ dead' = dead \cup sessions
          \/ Live(q.id) /\ q.op = "ldap" /\ GoTo(r, "ldapReply") /\ dead' = dead \cup sessions
          \/ Live(q.id) /\ q.op = "other" /\ GoTo(r, "revoke") /\ UNCHANGED dead
    /\ UNCHANGED <<setupDone, api, issued, known, started, crashed>>

\* RevokeAllAPITokensByUserID; the operation is complete.
RevokeApiTokens(r) ==
    /\ At(r, "revoke")
    /\ RevokeAll({req[r].id})
    /\ dead' = dead \cup req[r].old
    /\ Finish(r)
    /\ UNCHANGED <<users, setupDone, issued, known, started, crashed>>

DeleteUser(r, c, target) ==
    /\ c \in Presented({"access", "api"}) /\ IsAdmin(c) /\ target \in Rows \ {c.sub}
    /\ Begin(r, "delWrite", target, NoRow, "viewer", "other", CredentialsOf(target))
    /\ UNCHANGED <<users, setupDone, api, issued, known, dead, crashed>>

DeleteUserWrite(r) ==
    /\ At(r, "delWrite")
    /\ dead' = IF Live(req[r].id) THEN dead \cup req[r].old ELSE dead
    /\ DeleteRows({req[r].id})
    /\ Finish(r)
    /\ UNCHANGED <<setupDone, issued, known, started, crashed>>

-----------------------------------------------------------------------------
(* The other administrators' operations: one statement each                *)

AdminCreateUser(id, n, role) ==
    /\ \E c \in Presented({"access", "api"}) : IsAdmin(c)
    /\ AtOnce
    /\ CreateUser(id, NewUser(n, role, "local", "initial", "admin"))
    /\ UNCHANGED <<setupDone, api, issued, dead, crashed>>

CreateAPIToken(k, id) ==
    /\ api[k].owner = NoRow /\ Live(id)
    /\ AtOnce
    /\ api' = [api EXCEPT ![k] = [owner |-> id, live |-> TRUE]]
    /\ UNCHANGED <<users, setupDone, issued, known, dead, crashed>>

RevokeAPIToken(k) ==
    /\ api[k].live
    /\ AtOnce
    /\ dead' = dead \cup {Jwt("api", api[k].owner, "none", k)}
    /\ api' = [api EXCEPT ![k].live = FALSE]
    /\ UNCHANGED <<users, setupDone, issued, known, crashed>>

\* The hub dies: requests end where they are, the database stays.
Crash ==
    /\ \E r \in Reqs : req[r] # Idle
    /\ req' = [r \in Reqs |-> Idle]
    /\ crashed' = TRUE
    /\ UNCHANGED <<users, setupDone, api, issued, known, started, dead>>

Next ==
    \/ \E r \in Reqs :
        \/ RegisterCheck(r) \/ RegisterClean(r) \/ RegisterCreate(r)
        \/ RegisterRecount(r) \/ RegisterUndo(r)
        \/ \E who \in Authenticate : LdapFind(r, who)
        \/ LdapWrite(r) \/ LdapReply(r) \/ PairReply(r)
        \/ \E t \in issued :
            \/ LoginTotp(r, t) \/ RefreshRead(r, t) \/ TotpSetup(r, t)
            \/ TotpEnable(r, t) \/ ChangePassword(r, t)
            \/ \E id \in Ids : TotpDisable(r, t, id)
        \/ RefreshBump(r) \/ RefreshReply(r)
        \/ TotpSetupWrite(r) \/ TotpEnablePassword(r) \/ TotpEnableOn(r)
        \/ TotpEnableMark(r) \/ TotpEnableReply(r)
        \/ ChangePasswordWrite(r) \/ TotpDisableWrite(r)
        \/ \E c \in issued \cup ApiTokens, id \in Ids :
            \/ \E role \in Role : UpdateUserRole(r, c, id, role)
            \/ DeleteUser(r, c, id)
        \/ UpdateUserRoleWrite(r) \/ DeleteUserWrite(r)
        \/ \E id \in Ids : ResetTotp(r, id)
        \/ ResetTotpStep(r) \/ Rotate(r) \/ RevokeApiTokens(r)
    \/ \E id \in Ids :
        \/ Login(id)
        \/ \E n \in Names, role \in Role : AdminCreateUser(id, n, role)
        \/ \E k \in ApiIds : CreateAPIToken(k, id)
    \/ \E k \in ApiIds : RevokeAPIToken(k)
    \/ Crash

Spec == Init /\ [][Next]_vars

-----------------------------------------------------------------------------
(* Properties                                                              *)

\* When a password change, a removal of the second factor, a reset, a change
\* of role or a deletion has been completed, no access, refresh or API token of
\* that user that was there when it began is ever accepted again, whatever
\* refreshes and logins ran at the same time (handlers_auth.go:670-678,
\* handlers_users.go:50-58, admin.go:78-87; a change of role spares the API
\* tokens, which take the role of the row).  The session that asked for the
\* password change is among them: it is refused like the others, although
\* Settings.md:33 and API-Reference.md:520 say that it survives.  Setup and
\* totp tokens carry no generation; they stay usable until they expire and
\* are not part of the promise (jwt.go:48-54, middleware.go:80).
InvalidatedStaysRefused == \A c \in dead : ~Accepted(c)

\* The password an administrator chose when the user was created does not
\* survive the enrolment: whoever has TOTP on has had that password replaced,
\* also when an enrolment overlaps a password change, a reset or another
\* enrolment (rotateTemporaryPasswordDuringTOTPEnable).  It says nothing of the
\* temporary password of reset-totp, which is stored without the mark
\* (admin.go:66-71) and so may stay.
InitialPasswordReplaced ==
    \A id \in Rows : users[id].totp = "on" => users[id].pw # "initial"

\* However first registrations race, at most one of them leaves an
\* administrator behind (the recheck of handlers_auth.go:95-101).  A hub that
\* died with requests in hand is excepted from then on: it may have died
\* between an insertion and its recheck, and nothing repeats the recheck.
OneFirstAdministrator ==
    LET undecided == {req[r].id : r \in {x \in Reqs : At(x, "regRecount") \/ At(x, "regUndo")}}
    IN crashed \/ Cardinality({id \in Rows \ undecided : users[id].via = "register"}) <= 1

\* "Force re-authentication so the new role takes effect immediately": an
\* access token that is accepted carries the role of the row, unless a change
\* of role is still on its way to the sessions, or the hub died on that way
\* (handlers_users.go:50-54).
AcceptedRoleIsCurrent ==
    \A c \in issued :
        c.type = "access" /\ Accepted(c) =>
            \/ crashed \/ c.role = users[c.sub].role
            \/ \E r \in Reqs : At(r, "rotate") /\ req[r].id = c.sub
=============================================================================
