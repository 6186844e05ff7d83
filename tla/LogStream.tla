----------------------------- MODULE LogStream ------------------------------
(***************************************************************************)
(* A log file followed in the browser:                                     *)
(*   handlers_paths.go, permissions.go   which paths a viewer may read     *)
(*   handlers_files.go   the check of a path                               *)
(*   handlers_logs.go    slots per user and server, the SSE loop           *)
(*   logsessions.go      the bounded channel of a stream, its loss count   *)
(*   client.go           the agent's tail sessions; a start and a stop are *)
(*                       handled by goroutines of their own                *)
(*   tailer.go           polling the file, which grows and is rotated      *)
(* There is one server, with one agent that may reconnect.                 *)
(***************************************************************************)
EXTENDS Naturals, FiniteSets, FiniteSetsExt, Sequences, SequencesExt

CONSTANTS Streams,               \* requests to follow the log
          Viewers, Admins,       \* users
          Texts,                 \* paths, as sequences of characters
          Roots,                 \* the ones an administrator may grant
          Paths, LogPath,        \* the ones a stream is asked for, and the log's
          Resolve,               \* what each path is once links are followed, or None
          AllowedPaths,          \* the agent's option; the empty set allows all
          BlockedPaths, BlockedPrefixes, \* what the tailer never reads
          MaxViewerStreams, MaxAdminStreams, MaxAgentStreams,
          MaxTailSessions,       \* the agent's limit
          ChanCap,               \* places of a stream's channel
          SendCap,               \* places of the agent's send channel
          ReadCap,               \* blocks the tailer reads in a poll
          MaxConn, MaxGen, MaxSize, \* bounds: connections, rotations, blocks of a file,
          MaxPair, MaxRows,      \* ... blocks of two files together, permissions
          None

Users == Viewers \cup Admins
Conns == 1 .. MaxConn
NoConn == 0

Phases == {"idle", "acquired", "loop", "drain", "ending", "done"}
Starts == [op : {"start"}, id : Streams, path : Paths]
Stops == [op : {"stop"}, id : Streams]
Messages == Starts \cup Stops
Stats == [gen : Nat, size : 0 .. MaxSize]
Tails == [path : Paths, gen : Nat, off : 0 .. MaxSize, c : Conns,
          stat : {None} \cup Stats, torn : BOOLEAN, sent : [gen : Nat, to : Nat]]

(* The limits of a user are below the limit of a server: 5 and 10, and 50. *)
ASSUME LogAssumption ==
  /\ IsFiniteSet(Streams) /\ IsFiniteSet(Users)
  /\ Viewers \cap Admins = {} /\ LogPath \in Paths
  /\ Roots \cup Paths \cup AllowedPaths \subseteq Texts /\ Texts \subseteq Seq(STRING)
  /\ Resolve \in [Texts -> Texts \cup {None}] /\ None \notin Texts
  /\ {MaxViewerStreams, MaxAdminStreams, MaxAgentStreams, MaxTailSessions} \subseteq Nat
  /\ MaxViewerStreams <= MaxAgentStreams /\ MaxAdminStreams <= MaxAgentStreams
  /\ {ChanCap, SendCap, ReadCap} \subseteq Nat \ {0}
  /\ {MaxConn, MaxGen, MaxSize, MaxPair, MaxRows} \subseteq Nat
  /\ None \notin Nat /\ None \notin Tails /\ None \notin Users \X Paths

VARIABLES
  perms,     \* the permissions table: <<user, path>>
  phase,     \* where the handler of each stream is
  who,       \* its user and path
  slots,     \* Server.logTailSessions
  chan,      \* LogSessions.channels: None, or the number of chunks it holds
  overflow,  \* LogSessions.overflow
  lost,      \* chunks a stream has lost, in all
  told,      \* the losses its client was told of
  cur, aconn, nconn, \* as the hub sees the connection; as the agent does; how many
  down,      \* messages on their way to the agent, per connection
  up,        \* chunks on their way to the hub, per connection
  gor,       \* handler goroutines of the agent
  sessions,  \* Client.tailSessions
  tails,     \* per stream: the tail's file handle, offset and connection, the Stat
             \* of its poll, how far it has sent the file, and whether the file
             \* changed between the Stat and the read of a poll that began again
  stray,     \* streams whose tail started after its stop, or after the Cleanup
  size       \* the size of each generation of the file; the last is current

hub == <<phase, who, slots, chan, overflow, lost, told>>
net == <<cur, aconn, nconn>>
agent == <<gor, sessions, tails, stray>>
vars == <<perms, hub, net, down, up, agent, size>>

(* The total of the counts: each count as that many elements. *)
Taken == UNION {{u} \X (1 .. slots[u]) : u \in Users}

TypeOK ==
  /\ perms \subseteq Viewers \X Roots
  /\ phase \in [Streams -> Phases]
  /\ who \in [Streams -> {None} \cup (Users \X Paths)]
  /\ slots \in [Users -> 0 .. MaxAgentStreams] /\ Cardinality(Taken) <= MaxAgentStreams
  /\ chan \in [Streams -> {None} \cup 0 .. ChanCap]
  /\ overflow \in [Streams -> Nat] /\ lost \in [Streams -> Nat] /\ told \in [Streams -> Nat]
  /\ cur \in 0 .. MaxConn /\ aconn \in 0 .. MaxConn /\ nconn \in 0 .. MaxConn
  /\ down \in [Conns -> Seq(Messages)] /\ up \in [Conns -> Seq(Streams)]
  /\ gor \subseteq Conns \X Messages
  /\ sessions \subseteq Streams /\ Cardinality(sessions) <= MaxTailSessions
  /\ tails \in [Streams -> {None} \cup Tails] /\ stray \subseteq Streams
  /\ size \in Seq(0 .. MaxSize) /\ Len(size) > 0
  /\ \A s \in Streams : tails[s] # None => tails[s].gen <= Len(size)

Init ==
  /\ perms = {}
  /\ phase = [s \in Streams |-> "idle"] /\ who = [s \in Streams |-> None]
  /\ slots = [u \in Users |-> 0]
  /\ chan = [s \in Streams |-> None] /\ overflow = [s \in Streams |-> 0]
  /\ lost = [s \in Streams |-> 0] /\ told = [s \in Streams |-> 0]
  /\ cur = NoConn /\ aconn = NoConn /\ nconn = 0
  /\ down = [c \in Conns |-> <<>>] /\ up = [c \in Conns |-> <<>>]
  /\ gor = {} /\ sessions = {} /\ tails = [s \in Streams |-> None]
  /\ stray = {} /\ size = <<0>>

-----------------------------------------------------------------------------
(* Paths.  A path is a text; what lies between its slashes are its names.  *)
(* The checks of a path are functions, so that TLC evaluates them once.    *)

Slash == <<"/">>
Dot == <<".">>
DotDot == <<".", ".">>
HasPart(text, part) ==
  \E i \in 1 .. Len(text) + 1 - Len(part) : SubSeq(text, i, i + Len(part) - 1) = part
Names(text) ==
  FoldLeft(LAMBDA names, ch : IF ch = "/" THEN Append(names, <<>>)
                              ELSE [names EXCEPT ![Len(names)] = Append(@, ch)],
           << <<>> >>, text)
Joined(names) ==
  FoldLeft(LAMBDA text, name : IF text = <<>> THEN name ELSE text \o Slash \o name,
           <<>>, names)

(* An absolute path, without ".." even inside a name. *)
validateRequestPath == [path \in Texts |-> IsPrefix(Slash, path) /\ ~HasPart(path, DotDot)]

(* filepath.Clean of an absolute path, as names: empty names and "." are   *)
(* dropped, ".." takes the name before it away.                            *)
Clean(path) ==
  FoldLeft(LAMBDA out, name : IF name \in {<<>>, Dot} THEN out
                              ELSE IF name # DotDot THEN Append(out, name)
                              ELSE IF out = <<>> THEN out ELSE Front(out),
           <<>>, Names(path))
CleanText(path) == Slash \o Joined(Clean(path))

(* filepath.Rel, of what Clean returned: a ".." for each name of root that *)
(* path does not share, then what is left of path; "." if that is nothing. *)
Rel(root, path) ==
  LET n == Max({k \in 0 .. Min({Len(root), Len(path)}) :
                  SubSeq(root, 1, k) = SubSeq(path, 1, k)})
      names == [i \in 1 .. Len(root) - n |-> DotDot] \o SubSeq(path, n + 1, Len(path))
  IN  IF names = <<>> THEN Dot ELSE Joined(names)

(* The text of the path begins with the text of the root. *)
pathWithinRoot_TextPrefix ==
  [path \in Texts, root \in Texts |-> IsPrefix(CleanText(root), CleanText(path))]

(* rel is ".", or it is not ".." and does not begin with "../": the test   *)
(* of the agent's pathWithinRoot and, the same, of the hub's isPathAllowed.*)
pathWithinRoot ==
  [path \in Texts, root \in Texts |->
     LET rel == Rel(Clean(root), Clean(path)) IN
     rel = Dot \/ (~IsPrefix(DotDot \o Slash, rel) /\ rel # DotDot)]

-----------------------------------------------------------------------------
(* Permissions.  UNIQUE(user, server, path) refuses a second grant. *)

handleCreatePath(u, p) ==
  /\ validateRequestPath[p]
  /\ Cardinality(perms) < MaxRows /\ <<u, p>> \notin perms
  /\ perms' = perms \cup {<<u, p>>}
  /\ UNCHANGED <<hub, net, down, up, agent, size>>

handleDeletePath(u, p) ==
  /\ <<u, p>> \in perms
  /\ perms' = perms \ {<<u, p>>}
  /\ UNCHANGED <<hub, net, down, up, agent, size>>

GetUserPathsForServer(u) == {p \in Roots : <<u, p>> \in perms}

isPathAllowed(u, path) == \E root \in GetUserPathsForServer(u) : pathWithinRoot[path, root]

checkFileAccess(u, path) == validateRequestPath[path] /\ (u \in Admins \/ isPathAllowed(u, path))

(* The agent's own check, with the same rule: a root counts under its name *)
(* and under what it resolves to, and so must the path; a path that does   *)
(* not resolve is left to the handler to refuse.                           *)
candidateAllowedRoots(root) == {root, Resolve[root]} \ {None}
pathWithinAllowedRoots(path) ==
  \E allowed \in AllowedPaths : \E root \in candidateAllowedRoots(allowed) :
    pathWithinRoot[path, root]
agentPathAllowed(path) ==
  \/ AllowedPaths = {}
  \/ /\ pathWithinAllowedRoots(path)
     /\ Resolve[path] = None \/ pathWithinAllowedRoots(Resolve[path])

(* The tailer's check: nothing blocked, and no link out of the path. *)
isBlockedPath(path) ==
  \/ \E blocked \in BlockedPaths : path = blocked \/ IsPrefix(blocked \o Slash, path)
  \/ \E prefix \in BlockedPrefixes : IsPrefix(prefix, path)
validateLogPath ==
  [path \in Texts |->
     LET cleaned == CleanText(path)  resolved == Resolve[path] IN
     /\ validateRequestPath[path] /\ ~isBlockedPath(cleaned)
     /\ resolved # None /\ ~isBlockedPath(resolved)
     /\ resolved = cleaned \/ IsPrefix(cleaned \o Slash, resolved)]

-----------------------------------------------------------------------------
(* Slots. *)

tryAcquireLogTailSlot(u) ==
  /\ Cardinality(Taken) < IF u \in Admins THEN MaxAgentStreams ELSE MaxAgentStreams - MaxAdminStreams
  /\ slots[u] < IF u \in Admins THEN MaxAdminStreams ELSE MaxViewerStreams

releaseLogTailSlot(u) == slots' = [slots EXCEPT ![u] = IF @ <= 1 THEN 0 ELSE @ - 1]

-----------------------------------------------------------------------------
(* LogSessions. *)

Register(s) ==
  /\ chan' = [chan EXCEPT ![s] = 0]
  /\ overflow' = [overflow EXCEPT ![s] = 0]

(* Remove.  The counts of what the client lost end with the session. *)
RemoveSession(s) ==
  /\ chan' = [chan EXCEPT ![s] = None]
  /\ overflow' = [overflow EXCEPT ![s] = 0]
  /\ lost' = [lost EXCEPT ![s] = 0] /\ told' = [told EXCEPT ![s] = 0]

(* A chunk that finds the channel full is dropped and not counted. *)
Deliver_NotCounted(s) ==
  IF chan[s] = None THEN UNCHANGED <<chan, overflow, lost>>
  ELSE IF chan[s] < ChanCap
  THEN chan' = [chan EXCEPT ![s] = @ + 1] /\ UNCHANGED <<overflow, lost>>
  ELSE lost' = [lost EXCEPT ![s] = @ + 1] /\ UNCHANGED <<chan, overflow>>

Deliver(s) ==
  IF chan[s] = None THEN UNCHANGED <<chan, overflow, lost>>
  ELSE IF chan[s] < ChanCap
  THEN chan' = [chan EXCEPT ![s] = @ + 1] /\ UNCHANGED <<overflow, lost>>
  ELSE /\ overflow' = [overflow EXCEPT ![s] = @ + 1]
       /\ lost' = [lost EXCEPT ![s] = @ + 1]
       /\ UNCHANGED chan

DrainOverflow(s) ==
  /\ told' = [told EXCEPT ![s] = @ + overflow[s]]
  /\ overflow' = [overflow EXCEPT ![s] = 0]

(* deliverLogChunk: the hub's handler of connection c takes a chunk. *)
deliverLogChunk(c) ==
  /\ up[c] # <<>>
  /\ Deliver(Head(up[c]))
  /\ up' = [up EXCEPT ![c] = Tail(@)]
  /\ UNCHANGED <<perms, phase, who, slots, told, net, down, agent, size>>

-----------------------------------------------------------------------------
(* handleTailLog. *)

SendToAgent(msg, Sent, Failed) ==
  \/ /\ cur = NoConn \/ cur # aconn
     /\ Failed /\ UNCHANGED down
  \/ /\ cur # NoConn
     /\ Sent /\ down' = IF cur = aconn THEN [down EXCEPT ![cur] = Append(@, msg)] ELSE down

(* The checks: access, a connected agent, a slot.  Without them there is no *)
(* stream; with them the slot is taken and the channel registered.          *)
handleTailLog(s, u, p) ==
  /\ phase[s] = "idle"
  /\ IF checkFileAccess(u, p) /\ cur # NoConn /\ tryAcquireLogTailSlot(u)
     THEN /\ slots' = [slots EXCEPT ![u] = @ + 1]
          /\ Register(s)
          /\ phase' = [phase EXCEPT ![s] = "acquired"]
          /\ who' = [who EXCEPT ![s] = <<u, p>>]
     ELSE phase' = [phase EXCEPT ![s] = "done"] /\ UNCHANGED <<who, slots, chan, overflow>>
  /\ UNCHANGED <<perms, lost, told, net, down, up, agent, size>>

(* The slot is not given back when the request cannot be sent. *)
sendLogStreamRequest_KeepsSlot(s) ==
  /\ phase[s] = "acquired"
  /\ SendToAgent([op |-> "start", id |-> s, path |-> who[s][2]],
                 /\ phase' = [phase EXCEPT ![s] = "loop"]
                 /\ UNCHANGED <<who, slots, chan, overflow, lost, told>>,
                 /\ RemoveSession(s) /\ UNCHANGED slots
                 /\ phase' = [phase EXCEPT ![s] = "done"]
                 /\ who' = [who EXCEPT ![s] = None])
  /\ UNCHANGED <<perms, net, up, agent, size>>

(* The request is sent; if that fails everything is given back. *)
sendLogStreamRequest(s) ==
  /\ phase[s] = "acquired"
  /\ SendToAgent([op |-> "start", id |-> s, path |-> who[s][2]],
                 /\ phase' = [phase EXCEPT ![s] = "loop"]
                 /\ UNCHANGED <<who, slots, chan, overflow, lost, told>>,
                 /\ releaseLogTailSlot(who[s][1]) /\ RemoveSession(s)
                 /\ phase' = [phase EXCEPT ![s] = "done"]
                 /\ who' = [who EXCEPT ![s] = None])
  /\ UNCHANGED <<perms, net, up, agent, size>>

(* A chunk is taken from the channel and written... *)
streamChunk(s) ==
  /\ phase[s] = "loop" /\ chan[s] # None /\ chan[s] > 0
  /\ chan' = [chan EXCEPT ![s] = @ - 1]
  /\ phase' = [phase EXCEPT ![s] = "drain"]
  /\ UNCHANGED <<perms, who, slots, overflow, lost, told, net, down, up, agent, size>>

(* ... and then the losses since the last one are reported. *)
reportOverflow(s) ==
  /\ phase[s] = "drain"
  /\ DrainOverflow(s)
  /\ phase' = [phase EXCEPT ![s] = "loop"]
  /\ UNCHANGED <<perms, who, slots, chan, lost, net, down, up, agent, size>>

(* The client is gone: the deferred calls give the slot back and remove    *)
(* the session...                                                          *)
endStream(s) ==
  /\ phase[s] = "loop"
  /\ releaseLogTailSlot(who[s][1]) /\ RemoveSession(s)
  /\ phase' = [phase EXCEPT ![s] = "ending"]
  /\ who' = [who EXCEPT ![s] = None]
  /\ UNCHANGED <<perms, net, down, up, agent, size>>

(* The handler returns without telling the agent. *)
sendLogStreamStop_Silent(s) ==
  /\ phase[s] = "ending"
  /\ phase' = [phase EXCEPT ![s] = "done"]
  /\ UNCHANGED <<perms, who, slots, chan, overflow, lost, told, net, down, up, agent, size>>

(* ... and then tell the agent, whose connection may be another by now. *)
sendLogStreamStop(s) ==
  /\ phase[s] = "ending"
  /\ phase' = [phase EXCEPT ![s] = "done"]
  /\ SendToAgent([op |-> "stop", id |-> s], TRUE, TRUE)
  /\ UNCHANGED <<perms, who, slots, chan, overflow, lost, told, net, up, agent, size>>

-----------------------------------------------------------------------------
(* The agent. *)

(* sendCh: a full channel blocks; the channel of a connection that has     *)
(* ended is read by nobody.                                                *)
Send(c, s) ==
  /\ c = aconn => Len(up[c]) < SendCap
  /\ up' = IF c = aconn THEN [up EXCEPT ![c] = Append(@, s)] ELSE up

(* The receive goroutine starts a goroutine for the next message. *)
startRecvLoop(c) ==
  /\ c = aconn /\ down[c] # <<>>
  /\ gor' = gor \cup {<<c, Head(down[c])>>}
  /\ down' = [down EXCEPT ![c] = Tail(@)]
  /\ UNCHANGED <<perms, hub, net, up, sessions, tails, stray, size>>

Stopped(s) == phase[s] = "done" /\ ~\E c \in Conns :
  \/ <<c, [op |-> "stop", id |-> s]>> \in gor
  \/ \E i \in DOMAIN down[c] : down[c][i] = [op |-> "stop", id |-> s]

(* The agent takes any number of sessions. *)
handleLogStreamRequest_NoLimit(g) ==
  LET s == g[2].id  c == g[1] IN
  /\ g \in gor /\ g[2].op = "start" /\ agentPathAllowed(g[2].path)
  /\ sessions' = sessions \cup {s}
  /\ stray' = IF c # aconn \/ Stopped(s) THEN stray \cup {s} ELSE stray
  /\ gor' = gor \ {g}
  /\ UNCHANGED <<perms, hub, net, down, up, tails, size>>

(* A session is entered and a goroutine started for its tail; or the path  *)
(* is refused or there are too many, and an error goes back as if it were  *)
(* log data.                                                               *)
handleLogStreamRequest(g) ==
  LET s == g[2].id  c == g[1] IN
  /\ g \in gor /\ g[2].op = "start"
  /\ \/ /\ ~agentPathAllowed(g[2].path) \/ Cardinality(sessions) >= MaxTailSessions
        /\ Send(c, s) /\ UNCHANGED <<sessions, tails, stray>>
     \/ /\ agentPathAllowed(g[2].path) /\ Cardinality(sessions) < MaxTailSessions
        /\ sessions' = sessions \cup {s}
        /\ tails' = [tails EXCEPT ![s] = 
                        [path |-> g[2].path, gen |-> 0, off |-> 0, c |-> c, stat |-> None,
                         torn |-> FALSE, sent |-> [gen |-> 0, to |-> 0]]]
        /\ stray' = IF c # aconn \/ Stopped(s) THEN stray \cup {s} ELSE stray
        /\ UNCHANGED up
  /\ gor' = gor \ {g}
  /\ UNCHANGED <<perms, hub, net, down, size>>

(* StartTail: the tail begins at the end of the file; or it returns at     *)
(* once, because the path is refused and an error goes back, or because    *)
(* the file cannot be opened.  The session stays entered.                  *)
StartTail(s) ==
  /\ tails[s] # None /\ tails[s].gen = 0
  /\ \/ /\ validateLogPath[tails[s].path] /\ tails[s].path = LogPath
        /\ tails' = [tails EXCEPT ![s].gen = Len(size), ![s].off = size[Len(size)]]
        /\ UNCHANGED up
     \/ /\ IF validateLogPath[tails[s].path] THEN UNCHANGED up ELSE Send(tails[s].c, s)
        /\ tails' = [tails EXCEPT ![s] = None]
  /\ UNCHANGED <<perms, hub, net, down, gor, sessions, stray, size>>

(* The session is taken out and its stop channel closed: the tail ends at  *)
(* its next poll, which no one observes.                                   *)
handleLogStreamStop(g) ==
  /\ g \in gor /\ g[2].op = "stop"
  /\ sessions' = sessions \ {g[2].id}
  /\ tails' = IF g[2].id \in sessions THEN [tails EXCEPT ![g[2].id] = None] ELSE tails
  /\ gor' = gor \ {g}
  /\ UNCHANGED <<perms, hub, net, down, up, stray, size>>

(* readNewData, in two steps.  The poll takes the size of the file that    *)
(* the path names; it ends there if the size is the offset...              *)
LogNow == [gen |-> Len(size), size |-> size[Len(size)]]

statLog(s) ==
  /\ tails[s] # None /\ tails[s].gen > 0 /\ tails[s].stat = None
  /\ LogNow.size # tails[s].off
  /\ tails' = [tails EXCEPT ![s].stat = LogNow]
  /\ UNCHANGED <<perms, hub, net, down, up, gor, sessions, stray, size>>

(* ... and reads: from the handle, no further than that size; or, if the   *)
(* file is smaller than the offset, from the beginning of the file that    *)
(* the path names now, to its end.                                         *)
Rotated(t) == t.stat.size < t.off
Available(t) == {n \in 1 .. ReadCap : n <= t.stat.size - t.off /\ n <= size[t.gen] - t.off}

(* After a rotation the offset is left at the start of the new file. *)
afterRotation_Zero(t) ==
  [t EXCEPT !.gen = Len(size), !.off = 0, !.torn = @ \/ t.stat # LogNow]

(* The offset is the size that the Stat saw, whatever has been read. *)
afterRotation(t) ==
  [t EXCEPT !.gen = Len(size), !.off = t.stat.size, !.torn = @ \/ t.stat # LogNow]

(* sendFiltered: nothing is sent when no line matches. *)
sendFiltered(s, t, from, to) ==
  \/ /\ to > from /\ Send(t.c, s)
     /\ tails' = [tails EXCEPT ![s] =
                    [t EXCEPT !.stat = None, !.sent = [gen |-> t.gen, to |-> to]]]
  \/ UNCHANGED up /\ tails' = [tails EXCEPT ![s] = [t EXCEPT !.stat = None]]

(* The last case is an error, or nothing at the offset: the poll ends. *)
readNewData(s) ==
  LET t == tails[s] IN
  /\ t # None /\ t.stat # None
  /\ \/ /\ Rotated(t)
        /\ sendFiltered(s, afterRotation(t), 0, Min({ReadCap, size[Len(size)]}))
     \/ /\ ~Rotated(t) /\ Available(t) # {}
        /\ LET n == Max(Available(t)) IN
           sendFiltered(s, [t EXCEPT !.off = @ + n], t.off, t.off + n)
     \/ UNCHANGED up /\ tails' = [tails EXCEPT ![s].stat = None]
  /\ UNCHANGED <<perms, hub, net, down, gor, sessions, stray, size>>

-----------------------------------------------------------------------------
(* The log file, written by others. *)

WriteLog ==
  /\ size[Len(size)] < MaxSize
  /\ \A i \in 1 .. Len(size) - 1 : size[i] + size[Len(size)] < MaxPair
  /\ size' = [size EXCEPT ![Len(size)] = @ + 1]
  /\ UNCHANGED <<perms, hub, net, down, up, agent>>

(* Renamed and created again: open handles stay with the old file. *)
RotateLog ==
  /\ Len(size) < MaxGen
  /\ size' = Append(size, 0)
  /\ UNCHANGED <<perms, hub, net, down, up, agent>>

(* Truncated in place: open handles see the new content. *)
TruncateLog ==
  /\ Len(size) < MaxGen
  /\ size' = Append(size, 0)
  /\ tails' = [s \in Streams |->
                 IF tails[s] # None /\ tails[s].gen = Len(size)
                 THEN [tails[s] EXCEPT !.gen = @ + 1] ELSE tails[s]]
  /\ UNCHANGED <<perms, hub, net, down, up, gor, sessions, stray>>

(* Connections. *)

Connect ==
  /\ aconn = NoConn /\ nconn < MaxConn
  /\ nconn' = nconn + 1 /\ aconn' = nconn' /\ cur' = nconn'
  /\ UNCHANGED <<perms, hub, down, up, agent, size>>

(* connectAndStream returns: its deferred function stops every tail. *)
Disconnect ==
  /\ aconn # NoConn
  /\ aconn' = NoConn
  /\ sessions' = {}
  /\ tails' = [s \in Streams |-> IF s \in sessions THEN None ELSE tails[s]]
  /\ down' = [down EXCEPT ![aconn] = <<>>]
  /\ UNCHANGED <<perms, hub, cur, nconn, up, gor, stray, size>>

(* The hub's handler of the current connection ends.  The streams that     *)
(* were fed over it are not told.                                          *)
HubClose ==
  /\ cur # NoConn
  /\ cur' = NoConn
  /\ up' = [up EXCEPT ![cur] = <<>>]
  /\ UNCHANGED <<perms, hub, aconn, nconn, down, agent, size>>

-----------------------------------------------------------------------------
Next ==
  \/ \E u \in Viewers, p \in Roots : handleCreatePath(u, p) \/ handleDeletePath(u, p)
  \/ \E s \in Streams, u \in Users, p \in Paths : handleTailLog(s, u, p)
  \/ \E s \in Streams :
       \/ sendLogStreamRequest(s) \/ streamChunk(s) \/ reportOverflow(s)
       \/ endStream(s) \/ sendLogStreamStop(s)
       \/ StartTail(s) \/ statLog(s) \/ readNewData(s)
  \/ \E c \in Conns : startRecvLoop(c) \/ deliverLogChunk(c)
  \/ \E g \in gor : handleLogStreamRequest(g) \/ handleLogStreamStop(g)
  \/ WriteLog \/ RotateLog \/ TruncateLog
  \/ Connect \/ Disconnect \/ HubClose

Spec == Init /\ [][Next]_vars

-----------------------------------------------------------------------------
Holds(s) == phase[s] \in {"acquired", "loop", "drain"}

(* The counts of slots are the streams in being: every way out of          *)
(* handleTailLog gives back exactly one slot, to the user who took it      *)
(* (handlers_logs.go releaseLogTailSlot).                                  *)
SlotsMatchStreams ==
  \A u \in Users : slots[u] = Cardinality({s \in Streams : Holds(s) /\ who[s][1] = u})

(* A client that has got everything its channel held has been told of      *)
(* every chunk the channel lost, no more and no fewer, though chunks come  *)
(* in while it writes (logsessions.go Deliver and DrainOverflow,           *)
(* handlers_logs.go).                                                      *)
LossIsReported ==
  \A s \in Streams : phase[s] = "loop" /\ chan[s] = 0 => told[s] = lost[s]

(* A tail the agent runs is one that somebody watches, or whose stop is on *)
(* its way.  The exceptions are a connection the hub has given up and the  *)
(* agent not yet, and a start that was handled after its stop or after its *)
(* connection's end (client.go handleLogStreamRequest, handleLogStreamStop *)
(* and the deferred function of connectAndStream).                         *)
TailIsWanted ==
  \A s \in sessions :
    \/ Holds(s) \/ phase[s] = "ending" \/ ~Stopped(s)
    \/ cur # aconn \/ s \in stray

(* A tail has sent nothing twice and is not about to: it reads on from     *)
(* behind what it has sent of its file, and where it must begin a file     *)
(* again, because the file is smaller than the offset, it has sent nothing *)
(* of that file; over rotations and truncations (tailer.go readNewData).   *)
(* Excepted is a tail that began again over a file that changed between    *)
(* the Stat and the read of that poll: the code reads to the end, keeps    *)
(* the size of the Stat as its offset, and sends the difference again.     *)
NothingTwice ==
  \A s \in Streams :
    LET t == tails[s] IN
    t # None /\ ~t.torn =>
      /\ t.sent.gen = t.gen => t.off >= t.sent.to
      /\ t.off > size[Len(size)] => t.sent.gen # Len(size)

(* Where a path leads, if it has no "..": its names, in order. *)
Location(path) == SelectSeq(Names(path), LAMBDA name : name \notin {<<>>, Dot})
Below == [path \in Texts, root \in Texts |-> IsPrefix(Location(root), Location(path))]

(* A viewer may read a path exactly when it is absolute, has no ".." in    *)
(* it, and leads to a granted root or below one: neither a name that goes  *)
(* on where the root's ends, nor slashes and dots that Clean takes away,   *)
(* make a difference (handlers_files.go checkFileAccess, isPathAllowed).   *)
AccessIsContainment ==
  \A u \in Viewers, p \in Texts :
    checkFileAccess(u, p) <=>
      /\ validateRequestPath[p]
      /\ \E r \in GetUserPathsForServer(u) : Below[p, r]
=============================================================================
