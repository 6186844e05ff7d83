# Veyport: a TLA+ model of the hub and its agents

Veyport is a hub (Go, SQLite) with a web interface and an agent (Go) on every
managed server.  Agents dial out to the hub and keep one gRPC stream open; the
hub serves browsers over HTTP and forwards file, log, upload and terminal
requests over the agents' streams.  This directory models the parts of hub and
agent whose correctness depends on the order in which goroutines, timers,
processes and browsers act, or on what is left behind when one of them stops.
Paths below are relative to the repository.

Contents: [parts of the system](#parts-of-the-system), [what is
modelled](#what-is-modelled), [runs](#runs), [proofs](#proofs), [where code and
text disagree](#where-code-and-text-disagree), [what is left
out](#what-is-left-out), [plan](#plan).

## Parts of the system

| Part | State it keeps | Operations | Talks to |
|---|---|---|---|
| Agent connections (`hub/internal/grpcserver/handler.go`, `server.go`, `hub/internal/connmgr`) | map from server id to stream and last heartbeat; row of the server (status, token) | `Connect` with its two handshakes, in-stream heartbeat, `onAgentDisconnected`, stale and orphan sweep | store, notifier, terminal sessions, CA |
| Server administration (`handlers_servers.go`, `handlers_unregister.go`, `store/servers.go`) | server rows | create, delete, batch delete, unregister from hub or agent | registry, pending requests |
| Terminal sessions, hub (`terminalsessions.go`, `handlers_terminal.go`) | table of sessions, an event channel each | create, attach stream, input, resize, close, expire; deliver data, `End`, `EndAll` | registry, pending requests, audit |
| Terminal manager, agent (`agent/internal/terminal`) | shells and their PTYs | open, write, resize, close, `CloseAll`, read and wait loops | agent client |
| Notifications (`hub/internal/notify`) | debounce map of timers, two queues, SMTP cache | `Notify`, timer callbacks, worker, `Close` | store, mail server |
| Pending requests (`pending.go`, `agent_request.go`) | one-slot channel per request | register, deliver, remove, time out | registry |
| Log streaming (`logsessions.go`, `handlers_logs.go`, `agent/internal/logtailer`) | channel and overflow count per stream, slots per user and server, tailers | start, deliver, overflow, stop | registry |
| Upload (`handlers_upload.go`, `agent/internal/dropzone`) | open uploads and temporary files | chunk, final chunk, acknowledgement, clean-up | registry, pending requests |
| Login and tokens (`handlers_auth.go`, `hub/internal/auth`, `store/users.go`) | token generation, blacklist, used one-time codes | setup, login, second factor, refresh, logout, password change | store, audit |
| Audit log (`store/audit*.go`) | hash chain, health flags, retention | append, prune, review | store, notifier |
| HTTP middleware (`middleware.go`) | attempts per address | authenticate, limit | tokens |
| Users, LDAP, path permissions | rows | upsert, grant, check | store |
| Agent client and identity (`agent/internal/client`, `certs`) | server id, key, certificate, back-off | dial, register, hand shake, renew, reconnect | hub |
| Heartbeat coalescer | last write per server | record, force, flush | store |
| CA, store, migrations, configuration, administration commands, protocol, web frontend | | | |

`PROJECT.json` lists every part with its files and its status.

What is hard in this system, and hard to test:

* several streams of one server exist at once (the old one has not noticed that
  its transport is gone), and handlers, monitor and HTTP handlers all change
  the same registry entry and the same row;
* handlers release their locks between steps that belong together: read a
  token and use it, look at a channel's length and receive from it, stop a
  timer and delete its entry;
* clean-up after a lost agent works by server id and may come after the agent
  is back;
* a session, a queue or a stream has several possible closers, and closing a Go
  channel twice, or sending on a closed one, ends the whole hub;
* the hub restarts with rows that describe streams which no longer exist.

The properties that make the modelled parts correct:

* registry: at most one stream per server, live and authenticated; no handler
  removes another's entry; row and registry follow the loss of an agent;
* terminal sessions: closed once, the exit event last, nobody blocked on it,
  every end audited;
* notifications: an accepted notice is processed before the hub ends, and `Close`
  ends;
* requests and uploads: an answer goes to its own request, a file under its
  final name is whole, success means it was stored;
* log streaming: slots are given back, losses are reported, no tail runs for
  nobody, no part of the file is sent twice, and a path is readable exactly when
  it is well formed and inside a granted one;
* accounts: an access, refresh or API token that an operation invalidated is never
  accepted again, the password set when a user was created does not survive
  enrolment, first registrations leave one administrator;
* login guards: the limit holds in every window, a code counts once, a token
  that was logged out stays out;
* audit log: one chain, every outage and its end announced once, every loss
  announced and, if the database still takes the count, counted, recent entries
  survive retention;
* agent identity: certificate, key and CA belong together in memory and on disk,
  `agent.conf` comes last, the hub keeps the CA that signed, and a running agent
  is served or has a reason not to be.

## What is modelled

One module per component; a goroutine is cut into one action per critical
section, SQL statement or message, because that is where others interleave.
Definitions keep the names of the Go code, and `map` in `PROJECT.json` gives the
lines of each.  Operators whose names end in a suffix (`Unregister_KeepsEntry`)
are deliberate mistakes, each used to see that a property notices it; no
specification refers to them.

### ConnSlot and AgentRegistry

`AgentRegistry` is the hub's side of the connections.  `conns` and `fresh` are
`ConnManager.streams` (an entry and whether its last heartbeat is recent); `row`
and `token` the servers table; `pc[st]` the place of the handler goroutine of a
stream.  The bootstrap path (`handleRegister`, `ActivateServer`,
`sendRegisterAck`) gives an agent its certificate and ends; the heartbeat path
(`performHeartbeatHandshake`, `GetServerByID`, `handleHeartbeat`,
`sendHeartbeatAck`, `connMgrRegister`, `onAgentConnected`) leads to the receive
loop.  The end of a stream is four steps, `UnregisterIfCurrent`,
`disconnectSetOffline`, `disconnectNotify` and `disconnectEndAll`, and the
monitor's sweep five, since each takes the registry's lock or runs a statement
of its own.  Administrators create, delete, batch-delete and unregister
servers.  What the announcements of a stream's start and end do is in `Notifier`,
what `EndAll` does in `TerminalBroker`; here they are steps of the handler.
Transports break (`linkBreaks`), entries age (`entryAges`), tokens
expire and the hub restarts.

Time is a choice: an entry may get old at any moment, so every relation between
heartbeats and the 30 s threshold is covered.  A certificate is the server id it
names.

`ConnSlot` is the promise in its own terms: one current stream per server, a
stream is current once, it leaves with its own entry only.  `KeepsOneSlot` says
that `AgentRegistry` implements it; the mapping takes `conns` for the current
streams and reads the sets of admitted and departed streams off `pc`.

### TerminalBroker

The terminal sessions of one server.  `entry`, `closed`, `ch` and `chClosed` are
the session table and its channels; `exit` is the `End` or `EndAll` that holds
the lock, broken into the steps of `deliverExit` (`exitCheck`, `exitEvict`,
`exitPut`, `exitClose`) because the client's receive takes no lock and may come
between any two of them.  Three closers compete: the end of the client's stream,
`DELETE`, and the deadline for attaching.  The connection is abstracted from
`AgentRegistry`: registered or not, transport up or cut, and `endAlls` handlers
of old streams that have yet to call `EndAll`.  `orphaned` records the sessions of
a stream that left the registry before its handler returned.  `shell` is the shell at the
agent.  Input and resize look a session up and forward a message; they change
no state here and are left out, as is the content of the output.

### Notifier

The debounce map, both job queues, the worker, `Close` and the shutdown in
`main.go` that leads to it.  A timer that has fired runs its callback in a
goroutine of its own, which `Stop` no longer reaches: `timerFires`,
`debounceExpired` (the callback's critical section) and `notifyOffline` are
three steps.  A send on a closed queue sets `panicked` and nothing runs after
it.  A job is its event type and one recipient stands for all; the loss of an
agent and the sweep are one action, `scheduleDebounced`.  `Notifier` and
`AgentRegistry` take the servers from `Fleet` and have no other name in common,
so that one module can extend both.

One branch of the code is never taken: the worker that finds `queue` closed
while it waits on both queues never finds a job in `priorityQueue`, because a
job only gets there while `queue` is full and the worker looks at
`priorityQueue` after every job.

### Accounts

Users, their credentials and every handler that issues or invalidates one.
`users`, `setupDone` and `api` are tables, `issued` the signed tokens that exist,
and `req` the requests in hand, each with its place in its handler: the
statements of a handler are separate steps, and what it read before (`snap`,
`old`) is kept with it.  `RegisterCheck` to `RegisterUndo` are the first
registration, `LdapFind` to `LdapReply` a directory login, `RefreshRead` to
`RefreshReply` the exchange of a refresh token, `TotpEnable...` the enrolment that
ends in three writes, `ResetTotpStep` the command line's `reset-totp`, which runs
in another process.  `Crash` ends the hub with requests in hand.  A credential is
its claims: type, subject, role and generation; a code is the answer of its check,
and of a password the row says who chose it: the user, the administrator who
created the row, or `reset-totp` (`pw`).  A directory user is found by name; the
lookup by external id, which lets a renamed directory user keep the row, is left
out.  Three initial states are used: a fresh hub, an installed one, and one whose
second user has the initial password.

### LoginGuards

The three tables that outlast a request: the attempts per address
(`middleware.go`), the used second-factor codes (`totp_cache.go`) and the revoked
access tokens (`blacklist.go`, in memory and as a table).  Time is a number;
`Allow` is one call of the limiter with its eviction, `UseCode` one validation
with the three periods a code is good for, `Logout` and `AddRow` the two writes
of a revocation, `Cleanup` the sweeps, `Restart` a new process that reads the
table, or fails to.

### AuditLog

A request makes its change, then logs it.  `Begin` takes SQLite's write lock
(`BEGIN IMMEDIATE`), `ReadPrev` reads the last hash, `Insert` writes and commits;
each may fail.  What follows is the health of the pipeline: the flag in memory
(`NoteMemory`), the count and the flag in `_config` (`FailureCount`,
`FailureFlag`, `RecoverFlag`), each a statement of its own, so that concurrent
failures and successes interleave.  `RunRetention` deletes the start of the
chain, or fails to; `DeleteUser` and `DeleteIncomplete` change or delete rows by
foreign key.  `Restart` starts the hub anew at any moment, with nothing or anything
in hand, and loads the flag from `_config`, or finds it unreadable.  The setting
`retention_days` is a constant, since no property relates two of its values.  A
hash is the record of what it was computed from, and the entries are a set whose
ids have the order of `rowid`.

### FileUpload

Request and answer between hub and agent, and the upload built on them.  `pend`
is the table of one-place channels, `down` and `up` the messages of each
connection, `hand` the chunk the agent's receive goroutine is handling, `gor` its
handler goroutines.  `dz` is the dropzone: the uploads in its table (`open`) with
what was written of each (`data`), the temporary files on disk (`temps`), those of
them that nobody will remove (`leaked`), and the files under their final names
(`final`).
A handler finds the connection again for every chunk, and a receive goroutine
outlives its connection, so chunks of one upload may come over two connections
or after the clean-up.  A file is the sequence of its chunk numbers.  File
operations fail and the agent crashes within a bound.

### LogStream

A log followed in the browser.  The hub: `perms` and the check of a path, `slots`
per user and server, `chan` and `overflow` of a stream, the SSE loop.  The agent:
a start and a stop are handled by goroutines of their own (`gor`), so they may
change places; `sessions` and `tails` are the tail sessions with file handle and
offset.  A poll is two steps, `statLog` and `readNewData`, between which the file
may grow, be rotated or truncated: the read goes to the end of the file as it is,
and the offset kept is the size of the `Stat`.  Paths are texts, sequences of
characters, and `validateRequestPath`, `pathWithinRoot` and `validateLogPath` work
on them as the code does, with its prefixes, separators and `..`; `Resolve` is what
the agent's link resolution answers.  `AccessIsContainment` compares the hub's
check with a definition by names.  A block stands for what one poll reads.

### AgentIdentity

One host and its hub from installation to removal.  `db` has the two rows of the
CA and the server rows, `agent` the process with its certificate store in
memory, `disk` the three certificate files, `conf` the file `agent.conf`, `setup`
the flags of the service.  `StoreCert` is cut at its locks and at every file
(`Storing`, `StoreSet`, `StoreWrite`, `StoreError`), for any number of concurrent
calls (`Writers`).  `Run`'s loop is `dialHub`, `sendRegister`, `registered`,
`OnRegistered`, `sendHeartbeatHandshake`, `Lose`, `WaitOver`, with `Failed` for its
treatment of errors.  A certificate is its key, CA, server id and age, which grows by
six hours, half the validity, at a time (`SixHours`).  A number for a key or a CA is used again
when nothing refers to it any more.  The ghosts `torn` and `ioError` record
interrupted or overlapping and failed writes.

## Runs

| Run | Instance | Checks | Shows |
|---|---|---|---|
| `registry_safe` | 2 servers, one enrolled; 2 streams; 1 restart | `RegisteredIsLive`, `RegisteredIsAuthenticated`, `KeepsOneSlot` | no entry outlives its handler, each entry's stream carries the certificate of its server, and the registry implements `ConnSlot` |
| `registry_live` | 1 server, 2 streams, 1 restart | `GoneIsNotOnline`, `BrokenLeavesRegistry` | the loss of an agent reaches row and registry, also across a restart |
| `registry_token` | 1 server, 2 streams | `TokenIsSingleUse` (violated) | two overlapping registrations both succeed |
| `terminal` | 1 session, channel of 2, 2 breaks | `NoPanic`, `ExitSendNeverBlocks`, `ExitIsLast`, `OneCloser`, `UnattachedExpires`, `ClosingIsAudited`, `DisconnectEndsStreams` | the life of a session from creation to its audit entry, with everyone else interfering |
| `notifier` | 2 servers, 2 outages, 2 connections, 3 HTTP events, queues of 2 | `DrainedAtClose`, `EntryIsPending`, `CloseReturns` | `Close` processes everything accepted and returns |
| `accounts` | 3 user ids, 2 names, 3 requests of which 2 at a time, 1 API token | `InvalidatedStaysRefused`, `InitialPasswordReplaced`, `OneFirstAdministrator` | no race brings an invalidated token back, keeps an initial password or makes two first administrators |
| `accounts_role` | as `accounts` | `AcceptedRoleIsCurrent` (violated) | a refresh around a change of role hands the old role on |
| `guards` | 3 addresses for a table of 2, codes over 7 periods, 1 token, 5 calls | `LimitHolds`, `CodeAcceptedOnce`, `LoggedOutStaysRefused` | eviction, clean-up, restart and a failed load undo no guard |
| `audit` | 3 requests of which 2 at a time, 1 user, days of 2 hours, 2 days kept, 4 hours | `ChainIsLinear`, `ObserversKnow`, `NoSilentLoss`, `RetentionKeepsRecent` | the chain does not fork, and failures are announced and counted as far as the exceptions below allow |
| `upload` | 2 uploads of one name and 1 other request, 1 slot, 2 connections, 1 fault | `TypeOK`, `FinalIsWhole`, `SuccessMeansStored`, `TempHasOwner` | what is published is whole and what is confirmed is stored |
| `logs` | 2 streams, a viewer and an administrator, channels of 1, 2 connections, 2 generations of the file with 3 blocks between them, 12 texts of paths | `TypeOK`, `SlotsMatchStreams`, `LossIsReported`, `TailIsWanted`, `AccessIsContainment`, `NothingTwice` | slots, losses, tails and paths through every interleaving |
| `agent` | 2 installations, 1 fault, 3 keys, 2 CAs, 1 `StoreCert` at a time | `IdentityIsWhole`, `ConfigHasIdentity`, `DiskFollowsMemory`, `CAIsStable`, `ServedOrStranded` | the identity survives any one fault, and the loop gets somewhere |

Run one with `tlc -config registry_safe.cfg MCAgentRegistry`; the module of each
run is in `PROJECT.json`.  The longest, `logs`, takes about
two and a half minutes with two workers.

Every property of a passing run has a mutant in `PROJECT.json`: a changed
definition, such as a dropped guard, under which the same run finds it violated.

**Exceptions in properties.**  Some properties name the cases in which the code
promises nothing: `FinalIsWhole` an upload with a chunk handled after its
connection's clean-up (`late`), `TempHasOwner` a failed write or a crash,
`TailIsWanted` a stop that overtook its start (`stray`), `NothingTwice` a tail that
began a file again which changed between the `Stat` and the read of that poll
(`torn`), `DisconnectEndsStreams` the sessions of a stream that was swept, deleted
or superseded before its handler returned (`orphaned`), `ObserversKnow` a start that
cut off a request on its way to an observer or loaded another flag than the hub
had (`misled`), `NoSilentLoss` a hub that ended while a failure was being noted
(`cut`) and, for the count, a failed write of it (`unsaved`), `OneFirstAdministrator`
a hub that died with requests in hand (`crashed`), `DiskFollowsMemory` interrupted
or overlapping calls (`torn`), `ConfigHasIdentity` a failed write (`ioError`),
`CloseReturns` a panic.  Each exception is a history variable set where the case arises, so the
property still says that nothing else leads there.

**Bounds.**  The hazards of the registry are between two streams of one server
(old and new) or between two servers that present each other's certificates, so
two of each meet them all; one server starts enrolled and the other has to be
created and registered, so that both handshakes occur.  One restart separates
"before" and "after".  For terminals two breaks allow a lost connection, a new
one and its loss while clean-up of the first is still due; a channel of two is
the smallest that can hold output before the exit event.  For notifications two
timers are an outage and the next one, and queues of two with three HTTP events
and two connections fill `queue`, the worker's hand and `priorityQueue`.  For
accounts and audit two requests at once make every race of two handlers, and the
third comes after it, to use what the race left.  The guards' clock runs past
every window and lifetime.  For uploads and logs one slot with two claimants,
channels of one place and two connections put every queue at its limit; one
fault can fall on every step.  Two blocks before a rotation and one after it are
the least that leaves an offset beyond a file that has content.  The texts of the
logs' instance are one root with a trailing slash and, around it, the root itself,
what is below it, a sibling whose name goes on where the root's ends, doubled
slashes, dots, a name with two dots in it, a relative path and a link that leads
out.  With two days kept and days of two hours, four hours are enough for an entry
to be kept by one retention and deleted by a later one.  For the agent
two installations are a server and its successor on the same host, two CAs a
lost one and its replacement, three keys one in memory, one on disk and one on
its way. `MaxRestarts`, `MaxBreaks`, `MaxConnects`, `MaxHttp`, `MaxRequests`,
`MaxCalls`, `MaxTime`, `MaxConn`, `MaxGen`, `MaxSize`, `MaxPair`, `MaxRows`,
`MaxFaults`, `MaxServers`, `MaxKeys` and `MaxCAs` are the only bounds that the
code does not have.

**Symmetry** is used where members of a set are interchangeable and no liveness
property is checked: streams in `registry_safe` and `logs`, requests in
`accounts` and `audit`, addresses in `guards`.

**Deadlock** is checked for the registry, where the monitor always runs.  In the
other modules requests, sessions or faults are used up, or the system stops for
good, so it is not.

**Fairness.**  Goroutines that wait for nobody are scheduled (weak fairness of
each handler's steps).  A lock that is free again and again is obtained in the
end: Go's mutex hands over to a starved waiter after a millisecond, which is the
strong fairness of the steps of `TerminalBroker` that take the table's lock.  A
cut transport is reported to `Recv` by the gRPC keepalive.  The monitor's ticker
fires, agents heartbeat every 10 s, an entry nobody refreshes gets old, timers
fire, and a mail is sent or fails; the last is an assumption about the mail
server, since `SendEmail` sets no deadline.  In `AgentIdentity` the agent's loop,
its goroutines and the hub's handlers go on; no hub that is down and no agent
that has stopped is owed a start.  Nothing is assumed of when agents connect,
transports break, shells exit, browsers act or signals arrive.

## Proofs

TLAPS proves the following for every value of the constants, that is for any
number of servers, streams, sessions, timers, users, requests and `StoreCert`
calls, any capacity and any bound.  The only assumptions are those the modules
declare: capacities and lengths of time are positive, bounds are naturals, what
is counted by cardinality (streams, users that follow logs, addresses, requests
in hand that log) is finite, a user's limit of log streams is at most the
agent's, an installed hub has two users of different names, the paths named by the
constants are among the texts, uploads and other requests have ids of their own,
and the null values are different from each other and not members of the sets they
extend.

**HubProofs, connections.**  `TypeCorrect`, `LiveEntries` (`RegisteredIsLive`),
`AuthenticatedEntries` (`RegisteredIsAuthenticated`) and `RegistryRefinesSlot`
(`KeepsOneSlot`).  `RegisteredIsAuthenticated` is not inductive: an entry is made
several steps after the certificate was checked.  The inductive invariant
`IInv` therefore speaks of the handler: from `verifyCertCN` to the end of its
service (`Attached`) the certificate of its stream is its server id and was
issued.  `RegisteredIsOwn` adds that an entry's stream works for that entry's
server, which is why `UnregisterIfCurrent` removes nothing else.  The
refinement uses `IInv`: every step maps to `Admit`, `Leave`, `Evict` or `DropAll`
or changes none of the mapped variables.

Two action properties are about what is over for good, and no run has them.
`TokenSpentForGood` (`TokenStaysSpent`): a token that was used or has expired is
never good again, and a registration that has not read it yet does not get past
it.  It is the other side of the violated `TokenIsSingleUse`: only registrations
that overlap can share a token.  `DeletedForGood` (`DeletedStaysDeleted`): the row
of a deleted server does not come back, although handlers and the sweep write to
it by an id they read before, and no handshake that has not seen the row already
gets further.

**TerminalBrokerProofs.**  `BrokerTypeCorrect`, `ChannelsNeverPanic` (`NoPanic`),
`ExitNeverBlocks` (`ExitSendNeverBlocks`), `ExitComesLast` (`ExitIsLast`) and
`ClosedByOne` (`OneCloser`).  The invariant has three parts: `TableInv` ties a
closed channel to the closed flag or the removed entry and says that whoever
holds the lock has only live, open sessions in hand, so that no second close can
happen; `ExitInv` says that an exit event exists only for a session that was
ended; `CloseInv` that a closer at work has removed the entry, so that a second
one finds none.

**HubProofs, notifications.**  `NotifierTypeCorrect`, `CloseDrains` (`DrainedAtClose`) and
`EntriesArePending` (`EntryIsPending`).  That nothing is left when `Close` returns
follows from what the worker's place says of the queues (`WorkerKnows`): it
drains one because the other was closed and empty, and a closed queue gets no
job.

**FileUploadProofs.**  `UploadTypeCorrect` (`TypeOK`), `TempsHaveOwners`
(`TempHasOwner`), `SuccessIsStored` (`SuccessMeansStored`), `PublishedIsWhole`
(`FinalIsWhole`) and `OneAnswer`, for any number of requests, connections and
faults and any size of a file.  `FinalIsWhole` is far from inductive: what is in
the dropzone says nothing of the chunks to come, and they come over connections
that are lost and made again in the middle of an upload.  `UploadInv` has these
parts:

* `DropzoneInv`: a temporary file is open or left over, not both, and the table
  is within its limit;
* `AnswersAreTrue`: an acknowledgement of success, on its way or in its channel,
  is about a stored upload, and a channel holds answers to its own request;
* `OneConnection`: while the agent has a connection the hub sends over that one
  or over none, and messages wait on that one only;
* `PlacesInv`: the chunks of an upload on that connection, the one in the hand of
  the receive goroutine included, are in order, were sent, and end with the
  marker;
* `NothingMissing`: what an upload has open and what is on its way to it are
  together all that was sent, without a gap; an upload that is not open and whose
  first chunk is on its way lacks nothing.

`late` uploads are excepted from the last part, as they are from the property.
What `HandleChunk` may do to the dropzone is three outcomes, `GivenUp`, `Kept` and
`Published`, and each is shown once to preserve the parts.  `OneAnswer` is the
action property `AnsweredOnce`: a client is told once, the first answer in a
channel stays, and one that comes after the timer, after a failed send or a
second time finds no channel.  Its invariant `CallInv` ties the channel and the
answer to the phase of the handler.

**AgentIdentityProofs.**  `IdentityTypeCorrect`, `PresentedIsWhole`
(`IdentityIsWhole`), `ConfigComesLast` (`ConfigHasIdentity`), `FilesFollow`
(`DiskFollowsMemory`) and `CAStays` (`CAIsStable`), for any number of concurrent
`StoreCert` calls, where the run has one.  The invariant says what is true
between the steps: `StoredIsWhole` that a call in progress keeps the key it was
checked against; `Files` that no call forgets a file and that a process which
may write `agent.conf` has waited for its call; `Following` that a call which
writes alone is the last that set the memory; `HubCA` that a key is stored only
beside its own certificate; `Signed` that no certificate exists before both are,
so that a hub which makes a new CA has signed nothing.  `Process` ties the id, the
flags and the messages to the agent's place in its loop.

**AccountsProofs.**  `AccountsTypeCorrect`, `InvalidatedForGood`
(`InvalidatedStaysRefused`), `InitialPasswordIsReplaced` (`InitialPasswordReplaced`) and
`OneFounder` (`OneFirstAdministrator`), for any number of users and requests.  An operation collects what it invalidates,
increments the generation and revokes the API tokens in three steps, and a login
in hand may issue a pair of a generation read before all of them.  `Advance` says
how the tables may change in one step, whoever takes it: generations grow, ids
are not used twice, an API token does not come back to life, nobody gets an
initial password again.  `Remembers` says what a request in hand knows, in a
form that `Advance` preserves: what it read is not from the future, what it will
invalidate is its user's.  `Refused` is the reason why a dead credential is
refused, which unlike the refusal itself is stable.  `OneFounder` has an invariant
of its own, `FirstInv`: the set of registered rows that no request is still
deciding about (`Decided`) shrinks in every step but two.  The recount leaves at
most one row in the whole table, because it follows the insertion and an id is
inserted once; and a crash, which the property excepts.  That the directory's
insertions are no registrations is part of it, since they carry a row made
earlier.

**LoginGuardsProofs.**  `GuardsTypeCorrect`, `CodesAreUsedUp` (`CodeAcceptedOnce`),
`LogoutIsFinal` (`LoggedOutStaysRefused`) and `LimitIsKept` (`LimitHolds`), for any
period, life of a token, limit, window and size of the table.  `CodeRemembered`
ties the time of a code's use to its period, so that a code forgotten after three
periods can no longer be valid; `RowsAreTrue` says that a row has its token's own
expiry, so that a deleted row belongs to an expired token.  `LimiterInv` says that
an entry holds at most the limit and, among it, whatever was let through in the
window, though it is pruned at every call; and that a full table has somebody to
evict, for which the last attempts of the other addresses need a least one
(`SomeoneIsEvicted`).

**AuditLogProofs.**  `AuditTypeCorrect`, `ChainNeverForks` (`ChainIsLinear`),
`OutagesAreAnnounced` (`ObserversKnow`), `LossIsCounted` (`NoSilentLoss`) and
`RecentEntriesStay` (`RetentionKeepsRecent`).  `Holder` and `Chain` say that what
the holder of the lock has read is still the newest entry and that ids grow along
the chain; `Told` that the observers' count, the requests that are about to tell
them and the flag in memory agree, by the cardinality of the two sets of
requests; `Alarm` that a flag which is set, wherever a request saw it, was announced
by somebody or is about to be; `Marked` that a lost entry is counted, about to be,
or its count could not be written.

**LogStreamProofs.**  `Types` (`TypeOK`), `SlotsAreStreams` (`SlotsMatchStreams`),
`LossReported` (`LossIsReported`), `TailsAreWanted` (`TailIsWanted`) and
`NothingSentTwice` (`NothingTwice`), for any number of streams, users and
connections.  `LogInv` joins the properties with what they need of each
other: `StartsAreSent` that a start on its way or in a goroutine belongs to a
stream that has sent one, so that none is unknown to its stream's handler;
`NoConnNoTail` that an agent without a connection has stray tails only; `HolderIsKnown`
that the stream which holds a slot has a user, whose count is therefore right to
decrement; `LossIsCounted` that lost chunks are those reported and those in the
counter, and that a counter is not zero only while the channel is full or being
emptied; `SentIsRead` that what a tail has sent lies before its offset, also between the
`Stat` and the read of a poll.  That
the slots of all users stay within the agent's limit is part of `TypeOK`; the sum
is the cardinality of the set of slots taken (`Taken`), which finite-set theorems
reason about and a fold would not.

The type invariants of all modules are proved.  Those of `FileUpload` and
`LogStream` are also part of the runs, because they bound resources too (uploads,
tails, slots).

Every other invariant that a run checks, and the refinement, is a theorem.  Only
model-checked are `AccessIsContainment`, because what the functions on texts compute
for every text needs an induction over data that the prover cannot do; the liveness
properties, which depend on fairness and on
`ENABLED`: `GoneIsNotOnline`, `BrokenLeavesRegistry`, `UnattachedExpires`,
`ClosingIsAudited`, `DisconnectEndsStreams`, `CloseReturns` and `ServedOrStranded`;
and the two violations, which are counterexamples.

## Where code and text disagree

Two disagreements have a run that ends in a violation.

1. `TokenIsSingleUse`: the token is read, and the row activated later by id
   alone; both of two overlapping registrations get a certificate
   (`store/servers.go:202`; `Fleet-Dashboard.md:76`: "single-use").
2. `AcceptedRoleIsCurrent`: a refresh takes the role from the row it read before
   the increment and the generation from the row after it.  With a change of role
   in between, a current token carries the old role until it expires
   (`handlers_auth.go:338`; `handlers_users.go:50`: "takes effect immediately").

The following were met while modelling; the models contain the behaviour.

*Connections.*  The sweep unregisters a stream that missed heartbeats without
ending it; if the agent goes on, nothing writes `online` again
(`grpcserver/server.go:170`, `Fleet-Dashboard.md:43`).  Deleting a server removes
its registry entry and not its stream (`handlers_servers.go:327`).  A superseded
handler sends under the mutex of the new connection (`handler.go:392`).

*Terminals.*  A handler that finds its stream swept (`grpcserver/server.go:170`),
its server deleted or a new stream registered returns from `onAgentDisconnected`
before `EndAll` (`handler.go:155`): the clients of its terminals hang, on shells
that are gone, until they leave or a later stream of the server ends (`orphaned`).
`deliverExit` sees a full channel, the client drains it, and the
eviction finds nothing and returns without sending the exit event
(`terminalsessions.go:173`).  `EndAll` for an old stream may mark a session of
the new connection as ended; its close is not sent and the shell stays
(`handlers_terminal.go:389`).  An answer to `TerminalOpen` after the timeout
leaves a shell until the connection ends.

*Notifications.*  `cancelDebounce` ignores the result of `Stop`, so a notice taken
for cancelled is sent (`notifier.go:176`).  A callback that fired before `Close`,
or an HTTP handler still at work, sends on a closed queue (`panicked`).
`GracefulStop` waits for the agents' streams, which have no reason to end
(`main.go:147`).

*Audit.*  The hash covers `%v` of pointers, that is addresses, so it cannot be
computed again from the row (`audit.go:54`; `Audit-Logs.md:7`).  The cutoff of
retention and of the hourly detections is compared as text in another format:
the day decides, and failures of the same day are not counted.  Of two failures
at once one may not be counted, and the errors of the writes of `_config` are
ignored (`audit_controls.go:82`), so in an outage of the database the count is
likely to be lost with the entry.  A late failure may leave the flag in the database
set after a success cleared the one in memory; an ordinary restart loads it
(`store.go:75`), and the next success announces the end of the outage a second time.

*Accounts.*  A change of password invalidates the session that asked for it as well:
its next request is answered 401 (`handlers_auth.go:670`), although `Settings.md:33`
says "You will remain logged in on the current device" and `API-Reference.md:520`
that sessions are invalidated "except the one used to make the request".  Setup and
totp tokens carry no generation and survive every invalidation until they expire: a
login half done before a change of password is completed after it
(`middleware.go:80`).  Of two refreshes with one token both may get a valid pair
(`handlers_auth.go:325-338`).  Two administrators may demote or delete each other at
the same time (`Troubleshooting.md:223`).  `reset-totp` stores its temporary password
without the mark that it must be changed (`admin.go:66-71`), so an enrolment that
follows keeps it.  A logout revokes the access token only.  A restart
forgets the used codes.  `AddPasswordHistory` keeps 5 entries although the
setting allows 24.  A setup of the second factor that overlaps an enabling may
replace the secret that was confirmed (`handlers_auth.go:444`).

*Files and logs.*  An upload given up by the hub keeps its slot at the agent
until the connection ends (`handlers_upload.go:198`); a failed write leaves its
temporary file.  An empty file cannot be uploaded.  The server's `WriteTimeout`
equals the upload's timeout, so the 504 of `API-Reference.md:1479` is seldom seen.
The tailer misses a rotation when the new file has outgrown the old offset, and
when it finds one it keeps the size of the `Stat` as its offset although it has read
to the end: what is written in between is sent twice (`tailer.go:144-166`).
Nothing ends a stream at the hub when its agent disconnects or its path is
revoked.

*Agents.*  A heartbeat refused because the server was deleted is retried for
ever, although `Run` means to exit.  Neither a restart (`Proxy-Configuration.md:520`)
nor a reconnection (`Deployment.md:269`) registers again: `agent.conf` comes
first, and an expired certificate is presented for ever.  `install.sh` leaves the
certificates, so a reinstallation with an expired one cannot register.  A lost
acknowledgement, or a crash before `agent.conf`, wastes the token.  An answer to a
renewal that takes longer than the ticker's 10 s never matches the key.  The
error of `StoreCert` is logged and `agent.conf` is written anyway.  The goroutine
of `sendCh` may be left behind (`client.go:546`).

## What is left out

* Certificates, tokens, passwords and files as byte strings: they are model
  values, records of what matters, or sequences of blocks.
* `last_seen_at` and the coalescer that writes it: no code reads it back to
  decide anything.
* The mutex for sends on one stream: a send is one step.
* SQL failures outside the audit log and the load of the revoked tokens.  Most
  handlers log and go on or answer 500.  Two fail in the other direction: `InitCA`
  takes any error of reading its rows for a first start and stores a new CA over the
  old one (`ca.go:101-108`), whose agents are then refused; and `IsBlacklisted`
  answers no when the lookup of a token that is not in memory fails
  (`blacklist.go:138`), so a revoked token is let in.  `CAIsStable` and
  `LoggedOutStaysRefused` hold as long as these reads succeed.
* The deferred clean-up of an agent's connection comes before the close of the
  transport (`client.go:780-810`), so that the receive goroutine may take more than
  the chunk in its hand; in `FileUpload` these chunks are part of `late`.
* The agent's terminal manager: its own table, limit and signals; the hub's view
  of a shell is in `TerminalBroker`.
* The agent's `--insecure` mode, and a failed write of `agent.conf`.
* Mail formatting and SMTP, the file browser, system information, cookies,
  migrations, configuration, the generated protocol code and the web frontend:
  formatting, input and output, single statements, or no state at all.

## Plan

Done: the nine modules above with the abstract `ConnSlot`, their runs, and the
proofs of all of them.  Next:

1. the agent's terminal manager, composed with `TerminalBroker`;
2. an abstract one-shot call that `FileUpload`'s table of channels implements; what
   it would promise is stated as `AnsweredOnce` so far.
