--------------------------- MODULE TerminalBroker ---------------------------
(***************************************************************************)
(* The terminal sessions of one server: the hub's session table            *)
(* (hub/internal/grpcserver/terminalsessions.go), the HTTP handlers that   *)
(* create, stream, close and expire sessions                               *)
(* (hub/internal/server/handlers_terminal.go), the agent's connection as   *)
(* AgentRegistry describes it, and the life of the shell at the agent.     *)
(* Input and resize only look a session up and forward a message: they     *)
(* change nothing here.                                                    *)
(*                                                                         *)
(* A critical section of TerminalSessions.mu is one step, except those     *)
(* that deliver an exit event: the consumer of the channel does not take   *)
(* the lock and may run in the middle of deliverExit.                      *)
(***************************************************************************)
EXTENDS Naturals, Sequences

CONSTANTS
    Sessions,   \* session ids (UUIDs)
    NoSession,  \* no session
    Cap,        \* capacity of a session's event channel (256 in the code)
    MaxBreaks   \* bound: how often the agent's transport breaks

ASSUME BrokerAssumption ==
    /\ Cap \in Nat \ {0}
    /\ MaxBreaks \in Nat
    /\ NoSession \notin Sessions

VARIABLES
    entry,     \* entry[x]: x in TerminalSessions.sessions
    closed,    \* closed[x]: the entry's closed flag
    ch,        \* ch[x]: the buffered events
    chClosed,  \* chClosed[x]: the Go channel is closed
    panicked,  \* a closed channel was closed or sent on
    exit,      \* the End or EndAll that holds the lock: the sessions it still
               \* has to end, the one at hand and the step of deliverExit
    create,    \* create[x]: the POST handler that creates x
    sse,       \* sse[x]: the handler that streams x
    closer,    \* closer[x][k]: how far k is with closing x
    sawExit,   \* sawExit[x]: the client was sent the exit event
    reg,       \* the registry has an entry for the agent
    link,      \* the transport of the agent's latest stream
    serving,   \* the handler of that stream is in its receive loop
    endAlls,   \* disconnect handlers that still have to call EndAll
    breaks,    \* how often the transport broke
    orphaned,  \* history: sessions of a stream that was swept or superseded
               \* before its handler returned
    shell,     \* shell[x]: the shell at the agent
    exitMsg,   \* sessions whose TerminalExit is under way to the hub
    closeMsg   \* sessions whose TerminalClose is under way to the agent

tableVars == <<entry, closed, ch, chClosed, panicked>>
httpVars  == <<create, sse, closer, sawExit>>
linkVars  == <<reg, link, serving, endAlls, breaks, orphaned>>
agentVars == <<shell, exitMsg, closeMsg>>
vars      == <<tableVars, exit, httpVars, linkVars, agentVars>>

\* The deferred close of a stream, the DELETE handler, the attach deadline.
Closers == {"sse", "delete", "timer"}
Event   == {"data", "exit"}

CloserState == {"idle", "remove", "send", "audit", "done", "missed"}
ShellState  == {"none", "asked", "up", "down", "lost"}
ExitState   == [todo : SUBSET Sessions, at : Sessions \cup {NoSession},
                step : {"none", "check", "evict", "put", "close"}]

TypeOK ==
    /\ entry \in [Sessions -> {"none", "live", "gone"}]
    /\ closed \in [Sessions -> BOOLEAN]
    /\ ch \in [Sessions -> Seq(Event)]
    /\ \A x \in Sessions : Len(ch[x]) <= Cap
    /\ chClosed \in [Sessions -> BOOLEAN]
    /\ panicked \in BOOLEAN
    /\ exit \in ExitState
    /\ create \in [Sessions -> {"idle", "send", "wait", "undo", "arm", "done", "failed"}]
    /\ sse \in [Sessions -> {"none", "attached", "left"}]
    /\ closer \in [Sessions -> [Closers -> CloserState]]
    /\ sawExit \in [Sessions -> BOOLEAN]
    /\ reg \in BOOLEAN
    /\ link \in {"up", "cut"}
    /\ serving \in BOOLEAN
    /\ endAlls \in Nat
    /\ breaks \in Nat
    /\ orphaned \in SUBSET Sessions
    /\ shell \in [Sessions -> ShellState]
    /\ exitMsg \in SUBSET Sessions
    /\ closeMsg \in SUBSET Sessions

NoExit == [todo |-> {}, at |-> NoSession, step |-> "none"]

Init ==
    /\ entry = [x \in Sessions |-> "none"]
    /\ closed = [x \in Sessions |-> FALSE]
    /\ ch = [x \in Sessions |-> <<>>]
    /\ chClosed = [x \in Sessions |-> FALSE]
    /\ panicked = FALSE
    /\ exit = NoExit
    /\ create = [x \in Sessions |-> "idle"]
    /\ sse = [x \in Sessions |-> "none"]
    /\ closer = [x \in Sessions |-> [k \in Closers |-> "idle"]]
    /\ sawExit = [x \in Sessions |-> FALSE]
    /\ reg = TRUE
    /\ link = "up"
    /\ serving = TRUE
    /\ endAlls = 0
    /\ breaks = 0
    /\ orphaned = {}
    /\ shell = [x \in Sessions |-> "none"]
    /\ exitMsg = {}
    /\ closeMsg = {}

\* TerminalSessions.mu is free: no exit delivery is under way.
Unlocked == exit.step = "none" /\ exit.todo = {}

streaming(x) == sse[x] # "none"

\* An entry that End and EndAll still have to end.
Endable(x) == entry[x] = "live" /\ ~closed[x]

\* close(s.ch): closing twice panics.
CloseChannel(x) ==
    /\ chClosed' = [chClosed EXCEPT ![x] = TRUE]
    /\ panicked' = (panicked \/ chClosed[x])

\* Mutant: the channel of an ended session is closed again.
RemoveEntry_ClosesAgain(x) ==
    /\ CloseChannel(x)
    /\ entry' = [entry EXCEPT ![x] = "gone"]
    /\ UNCHANGED ch

\* What Remove, RemoveUnattached and RemoveIfHubInitiated share.  The first
\* two leave the closed flag alone: nobody reaches the entry any more.
RemoveEntry(x) ==
    /\ IF closed[x] THEN UNCHANGED <<chClosed, panicked>> ELSE CloseChannel(x)
    /\ entry' = [entry EXCEPT ![x] = "gone"]
    /\ UNCHANGED ch

Step(x, k, s) == closer' = [closer EXCEPT ![x][k] = s]

-----------------------------------------------------------------------------
(* POST /api/servers/{id}/terminal/sessions                                *)

\* requireAgent and the other checks of the request, then Register.
createRegister(x) ==
    /\ create[x] = "idle"
    /\ reg
    /\ Unlocked
    /\ entry' = [entry EXCEPT ![x] = "live"]
    /\ create' = [create EXCEPT ![x] = "send"]
    /\ UNCHANGED <<closed, ch, chClosed, panicked, exit, sse, closer, sawExit, linkVars, agentVars>>

\* sendAgentRequestWithID: a send on a broken transport is lost or fails.
createSendOpen(x) ==
    /\ create[x] = "send"
    /\ create' = [create EXCEPT ![x] = IF reg THEN "wait" ELSE "undo"]
    /\ shell' = [shell EXCEPT ![x] = IF reg /\ link = "up" THEN "asked" ELSE "lost"]
    /\ UNCHANGED <<tableVars, exit, sse, closer, sawExit, linkVars, exitMsg, closeMsg>>

\* The agent acknowledged.
createAcked(x) ==
    /\ create[x] = "wait"
    /\ shell[x] \in {"up", "down"}
    /\ create' = [create EXCEPT ![x] = "arm"]
    /\ UNCHANGED <<tableVars, exit, sse, closer, sawExit, linkVars, agentVars>>

\* The agent refused, or did not answer within 5s.
createFails(x) ==
    /\ create[x] = "wait"
    /\ create' = [create EXCEPT ![x] = "undo"]
    /\ UNCHANGED <<tableVars, exit, sse, closer, sawExit, linkVars, agentVars>>

\* Remove; the agent is not told.
createUndo(x) ==
    /\ create[x] = "undo"
    /\ Unlocked
    /\ IF entry[x] = "live" THEN RemoveEntry(x) /\ UNCHANGED closed ELSE UNCHANGED tableVars
    /\ create' = [create EXCEPT ![x] = "failed"]
    /\ UNCHANGED <<exit, sse, closer, sawExit, linkVars, agentVars>>

\* Mutant: the attach deadline is not armed.
createFinish_NoDeadline(x) ==
    /\ create[x] = "arm"
    /\ create' = [create EXCEPT ![x] = "done"]
    /\ UNCHANGED <<tableVars, exit, sse, closer, sawExit, linkVars, agentVars>>

\* The attach deadline is armed, the opening audited, 201 answered.
createFinish(x) ==
    /\ create[x] = "arm"
    /\ create' = [create EXCEPT ![x] = "done"]
    /\ Step(x, "timer", "remove")
    /\ UNCHANGED <<tableVars, exit, sse, sawExit, linkVars, agentVars>>

-----------------------------------------------------------------------------
(* GET .../stream                                                          *)

AttachStream(x) ==
    /\ create[x] = "done"
    /\ Unlocked
    /\ entry[x] = "live"
    /\ ~streaming(x)
    /\ sse' = [sse EXCEPT ![x] = "attached"]
    /\ UNCHANGED <<tableVars, exit, create, closer, sawExit, linkVars, agentVars>>

\* The handler takes an event from the channel, without the lock.
streamReceive(x) ==
    /\ sse[x] = "attached"
    /\ ch[x] # <<>>
    /\ ch' = [ch EXCEPT ![x] = Tail(@)]
    /\ sawExit' = [sawExit EXCEPT ![x] = @ \/ Head(ch[x]) = "exit"]
    /\ UNCHANGED <<entry, closed, chClosed, panicked, exit, create, sse, closer, linkVars, agentVars>>

\* The handler returns and its deferred closeTerminalSession begins.
streamReturn(x) ==
    /\ sse[x] = "attached"
    /\ sse' = [sse EXCEPT ![x] = "left"]
    /\ Step(x, "sse", "remove")
    /\ UNCHANGED <<tableVars, exit, create, sawExit, linkVars, agentVars>>

streamDrained(x) == chClosed[x] /\ ch[x] = <<>> /\ streamReturn(x)

streamClientGone(x) == streamReturn(x)

-----------------------------------------------------------------------------
(* Closing: closeTerminalSession and the attach deadline                   *)

\* handleCloseTerminalSession: the session is looked up; it may be gone by
\* the time closeTerminalSession removes it.
requireTerminalSession(x) ==
    /\ create[x] = "done"
    /\ closer[x]["delete"] = "idle"
    /\ Unlocked
    /\ entry[x] = "live"
    /\ Step(x, "delete", "remove")
    /\ UNCHANGED <<tableVars, exit, create, sse, sawExit, linkVars, agentVars>>

\* Mutant: the caller is not told that the session was gone already.
RemoveIfHubInitiated_Gone(x, k) ==
    /\ k \in {"sse", "delete"}
    /\ closer[x][k] = "remove"
    /\ Unlocked
    /\ IF entry[x] = "live"
       THEN RemoveEntry(x) /\ closed' = [closed EXCEPT ![x] = TRUE]
       ELSE UNCHANGED tableVars
    /\ Step(x, k, IF closed[x] THEN "audit" ELSE "send")
    /\ UNCHANGED <<exit, create, sse, sawExit, linkVars, agentVars>>

\* Mutant: nothing is left to do for a session that was ended before.
RemoveIfHubInitiated_Silent(x, k) ==
    /\ k \in {"sse", "delete"}
    /\ closer[x][k] = "remove"
    /\ Unlocked
    /\ IF entry[x] = "live"
       THEN /\ RemoveEntry(x)
            /\ closed' = [closed EXCEPT ![x] = TRUE]
            /\ Step(x, k, IF closed[x] THEN "missed" ELSE "send")
       ELSE Step(x, k, "missed") /\ UNCHANGED tableVars
    /\ UNCHANGED <<exit, create, sse, sawExit, linkVars, agentVars>>

\* TerminalClose is sent only if the session was not ended before.
RemoveIfHubInitiated(x, k) ==
    /\ k \in {"sse", "delete"}
    /\ closer[x][k] = "remove"
    /\ Unlocked
    /\ IF entry[x] = "live"
       THEN /\ RemoveEntry(x)
            /\ closed' = [closed EXCEPT ![x] = TRUE]
            /\ Step(x, k, IF closed[x] THEN "audit" ELSE "send")
       ELSE Step(x, k, "missed") /\ UNCHANGED tableVars
    /\ UNCHANGED <<exit, create, sse, sawExit, linkVars, agentVars>>

\* The deadline passes.
RemoveUnattached(x) ==
    /\ closer[x]["timer"] = "remove"
    /\ Unlocked
    /\ IF entry[x] = "live" /\ ~streaming(x)
       THEN RemoveEntry(x) /\ UNCHANGED closed /\ Step(x, "timer", "send")
       ELSE Step(x, "timer", "missed") /\ UNCHANGED tableVars
    /\ UNCHANGED <<exit, create, sse, sawExit, linkVars, agentVars>>

\* SendToAgent; its error is ignored.
sendTerminalClose(x, k) ==
    /\ closer[x][k] = "send"
    /\ closeMsg' = IF reg /\ link = "up" THEN closeMsg \cup {x} ELSE closeMsg
    /\ Step(x, k, "audit")
    /\ UNCHANGED <<tableVars, exit, create, sse, sawExit, linkVars, shell, exitMsg>>

\* terminal.closed is written to the audit log.
auditClosed(x, k) ==
    /\ closer[x][k] = "audit"
    /\ Step(x, k, "done")
    /\ UNCHANGED <<tableVars, exit, create, sse, sawExit, linkVars, agentVars>>

-----------------------------------------------------------------------------
(* Messages of the agent and the end of its stream                         *)

\* A full channel drops the data.
DeliverData(x) ==
    /\ serving
    /\ shell[x] \in {"up", "down"}
    /\ Unlocked
    /\ Endable(x)
    /\ Len(ch[x]) < Cap
    /\ ch' = [ch EXCEPT ![x] = Append(@, "data")]
    /\ panicked' = (panicked \/ chClosed[x])
    /\ UNCHANGED <<entry, closed, chClosed, exit, httpVars, linkVars, agentVars>>

\* deliverTerminalExit: End takes the lock.
End(x) ==
    /\ serving
    /\ x \in exitMsg
    /\ Unlocked
    /\ exitMsg' = exitMsg \ {x}
    /\ exit' = [exit EXCEPT !.todo = {y \in {x} : Endable(y)}]
    /\ UNCHANGED <<tableVars, httpVars, linkVars, shell, closeMsg>>

\* The last step of onAgentDisconnected: EndAll takes the lock.
EndAll ==
    /\ endAlls > 0
    /\ Unlocked
    /\ endAlls' = endAlls - 1
    /\ exit' = [exit EXCEPT !.todo = {y \in Sessions : Endable(y)}]
    /\ UNCHANGED <<tableVars, httpVars, reg, link, serving, breaks, orphaned, agentVars>>

\* The next session of the loop.
exitBegins(x) ==
    /\ exit.step = "none"
    /\ x \in exit.todo
    /\ exit' = [exit EXCEPT !.at = x, !.step = "check"]
    /\ UNCHANGED <<tableVars, httpVars, linkVars, agentVars>>

\* Mutant: nothing is evicted.
exitCheck_NoEviction ==
    /\ exit.step = "check"
    /\ exit' = [exit EXCEPT !.step = "put"]
    /\ UNCHANGED <<tableVars, httpVars, linkVars, agentVars>>

\* for len(ch) == cap(ch)
exitCheck ==
    /\ exit.step = "check"
    /\ exit' = [exit EXCEPT !.step = IF Len(ch[exit.at]) = Cap THEN "evict" ELSE "put"]
    /\ UNCHANGED <<tableVars, httpVars, linkVars, agentVars>>

\* case <-ch: the oldest event goes; default: the channel was drained in the
\* meantime, and deliverExit returns without the exit event.
exitEvict ==
    /\ exit.step = "evict"
    /\ \/ /\ ch[exit.at] # <<>>
          /\ ch' = [ch EXCEPT ![exit.at] = Tail(@)]
          /\ exit' = [exit EXCEPT !.step = "check"]
       \/ /\ ch[exit.at] = <<>>
          /\ exit' = [exit EXCEPT !.step = "close"]
          /\ UNCHANGED ch
    /\ UNCHANGED <<entry, closed, chClosed, panicked, httpVars, linkVars, agentVars>>

\* ch <- evt: with the lock held, and blocking while the channel is full.
exitPut ==
    /\ exit.step = "put"
    /\ Len(ch[exit.at]) < Cap
    /\ ch' = [ch EXCEPT ![exit.at] = Append(@, "exit")]
    /\ panicked' = (panicked \/ chClosed[exit.at])
    /\ exit' = [exit EXCEPT !.step = "close"]
    /\ UNCHANGED <<entry, closed, chClosed, httpVars, linkVars, agentVars>>

\* Mutant: the session stays open after its exit event.
exitClose_StaysOpen ==
    /\ exit.step = "close"
    /\ exit' = [todo |-> exit.todo \ {exit.at}, at |-> NoSession, step |-> "none"]
    /\ UNCHANGED <<entry, closed, ch, chClosed, panicked, httpVars, linkVars, agentVars>>

exitClose ==
    /\ exit.step = "close"
    /\ CloseChannel(exit.at)
    /\ closed' = [closed EXCEPT ![exit.at] = TRUE]
    /\ exit' = [todo |-> exit.todo \ {exit.at}, at |-> NoSession, step |-> "none"]
    /\ UNCHANGED <<entry, ch, httpVars, linkVars, agentVars>>

-----------------------------------------------------------------------------
(* The agent and its connection                                            *)

\* The transport breaks.  connectAndStream returns at the agent, its deferred
\* CloseAll ends every shell, and what is under way is lost.
linkBreaks ==
    /\ link = "up"
    /\ breaks < MaxBreaks
    /\ breaks' = breaks + 1
    /\ link' = "cut"
    /\ shell' = [x \in Sessions |-> CASE shell[x] = "up" -> "down"
                                      [] shell[x] = "asked" -> "lost"
                                      [] OTHER -> shell[x]]
    /\ exitMsg' = {}
    /\ closeMsg' = {}
    /\ UNCHANGED <<tableVars, exit, httpVars, reg, serving, endAlls, orphaned>>

\* Mutant: the terminals are forgotten.
onAgentDisconnected_NoEndAll ==
    /\ serving
    /\ link = "cut"
    /\ serving' = FALSE
    /\ reg' = FALSE
    /\ UNCHANGED <<tableVars, exit, httpVars, link, endAlls, breaks, orphaned, agentVars>>

\* Connect returns: onAgentDisconnected up to its call of EndAll.
onAgentDisconnected ==
    /\ serving
    /\ link = "cut"
    /\ serving' = FALSE
    /\ reg' = FALSE
    /\ endAlls' = IF reg THEN endAlls + 1 ELSE endAlls
    /\ UNCHANGED <<tableVars, exit, httpVars, link, breaks, orphaned, agentVars>>

\* The sessions whose end nobody will announce: those open on a stream that is
\* no longer the current one when its handler returns.
Open == {x \in Sessions : Endable(x) /\ create[x] # "send"}

\* The stale sweep or a deletion takes the entry and leaves the stream, whose
\* handler will find that it is not the current one.
Unregister ==
    /\ reg
    /\ reg' = FALSE
    /\ orphaned' = orphaned \cup Open
    /\ UNCHANGED <<tableVars, exit, httpVars, link, serving, endAlls, breaks, agentVars>>

\* The agent is back.  An older handler that has not yet noticed the break is
\* superseded, and returns from onAgentDisconnected at once.
connMgrRegister ==
    /\ link = "cut"
    /\ link' = "up"
    /\ reg' = TRUE
    /\ serving' = TRUE
    /\ orphaned' = IF serving THEN orphaned \cup Open ELSE orphaned
    /\ UNCHANGED <<tableVars, exit, httpVars, endAlls, breaks, agentVars>>

\* handleTerminalOpenRequest at the agent.
agentOpens(x) ==
    /\ shell[x] = "asked"
    /\ \E s \in {"up", "lost"} : shell' = [shell EXCEPT ![x] = s]
    /\ UNCHANGED <<tableVars, exit, httpVars, linkVars, exitMsg, closeMsg>>

\* waitLoop: the shell has ended, TerminalExit is sent.
ShellEnds(x) ==
    /\ shell' = [shell EXCEPT ![x] = "down"]
    /\ exitMsg' = exitMsg \cup {x}

agentExits(x) ==
    /\ shell[x] = "up"
    /\ ShellEnds(x)
    /\ UNCHANGED <<tableVars, exit, httpVars, linkVars, closeMsg>>

\* handleTerminalClose at the agent: an unknown session is ignored.
agentCloses(x) ==
    /\ x \in closeMsg
    /\ closeMsg' = closeMsg \ {x}
    /\ IF shell[x] = "up" THEN ShellEnds(x) ELSE UNCHANGED <<shell, exitMsg>>
    /\ UNCHANGED <<tableVars, exit, httpVars, linkVars>>

-----------------------------------------------------------------------------
Create(x) ==
    \/ createSendOpen(x) \/ createAcked(x) \/ createFails(x)
    \/ createUndo(x) \/ createFinish(x)

Close(x) ==
    \/ \E k \in Closers : \/ RemoveIfHubInitiated(x, k)
                          \/ sendTerminalClose(x, k)
                          \/ auditClosed(x, k)
    \/ RemoveUnattached(x)

ExitStep ==
    \/ \E x \in Sessions : exitBegins(x)
    \/ exitCheck \/ exitEvict \/ exitPut \/ exitClose

Client(x) ==
    createRegister(x) \/ AttachStream(x) \/ requireTerminalSession(x) \/ streamClientGone(x)

Agent(x) ==
    DeliverData(x) \/ End(x) \/ agentOpens(x) \/ agentExits(x) \/ agentCloses(x)

Connection ==
    EndAll \/ linkBreaks \/ onAgentDisconnected \/ Unregister \/ connMgrRegister

Next ==
    \/ \E x \in Sessions : \/ Client(x) \/ Create(x) \/ Close(x) \/ Agent(x)
                           \/ streamReceive(x) \/ streamDrained(x)
    \/ ExitStep
    \/ Connection

Spec == Init /\ [][Next]_vars

(***************************************************************************)
(* Fairness.  Goroutines of the hub are scheduled, timers fire, and the    *)
(* gRPC keepalive reports a broken transport to the handler's Recv.  A     *)
(* goroutine that waits for the mutex gets it in the end (Go's Mutex hands *)
(* itself to a waiter that starves), so steps that take the lock are       *)
(* strongly fair.  Clients, agents and links promise nothing.              *)
(***************************************************************************)
Fairness ==
    /\ WF_vars(ExitStep)
    /\ WF_vars(onAgentDisconnected)
    /\ SF_vars(EndAll)
    /\ \A x \in Sessions : /\ SF_vars(Create(x))
                           /\ WF_vars(streamReceive(x))
                           /\ WF_vars(streamDrained(x))
                           /\ SF_vars(RemoveUnattached(x))
                           /\ \A k \in Closers : /\ SF_vars(RemoveIfHubInitiated(x, k))
                                                 /\ WF_vars(sendTerminalClose(x, k))
                                                 /\ WF_vars(auditClosed(x, k))

FairSpec == Spec /\ Fairness

-----------------------------------------------------------------------------
(* Safety                                                                  *)

\* No channel is closed twice or sent on after it was closed, whichever of
\* exit, disconnect, stream end, DELETE and deadline meet (Remove,
\* RemoveUnattached, RemoveIfHubInitiated, End, EndAll, DeliverData).
NoPanic == ~panicked

\* deliverExit sends while it holds the table's lock: there is always room,
\* so that a slow client never blocks the sessions of everyone (deliverExit).
ExitSendNeverBlocks == exit.step = "put" => Len(ch[exit.at]) < Cap

\* The exit event comes at most once and nothing follows it, in the channel or
\* at the client (DeliverData, End, EndAll).
ExitIsLast ==
    \A x \in Sessions :
        /\ \A i \in 1..Len(ch[x]) : ch[x][i] = "exit" => i = Len(ch[x])
        /\ sawExit[x] => ch[x] = <<>>

\* Stream end, DELETE and deadline may all set out to close a session: one of
\* them removes it, tells the agent and writes terminal.closed, and the others
\* find it gone (closeTerminalSession, expireUnattachedTerminalSession).
OneCloser ==
    \A x \in Sessions : \A j, k \in Closers :
        closer[x][j] \in {"send", "audit", "done"} /\ closer[x][k] \in {"send", "audit", "done"}
            => j = k

-----------------------------------------------------------------------------
(* Liveness                                                                *)

\* A session that was created does not wait for its stream for ever
\* (expireUnattachedTerminalSession).
UnattachedExpires ==
    \A x \in Sessions : (create[x] = "done") ~> (entry[x] = "gone" \/ streaming(x))

\* Every session that was opened and is no longer in the table gets its
\* terminal.closed entry (closeTerminalSession).
ClosingIsAudited ==
    \A x \in Sessions :
        (create[x] = "done" /\ entry[x] = "gone") ~> (\E k \in Closers : closer[x][k] = "done")

\* When the agent's transport breaks, the clients that watch its terminals are
\* not left hanging: the handler notices, ends every session, and the streams
\* return (onAgentDisconnected, EndAll, deliverExit, handleTerminalStream).
\* Excepted are the sessions of a stream that the stale sweep, a deletion or
\* the agent's next stream took out of the registry before its handler
\* returned: UnregisterIfCurrent then fails (handler.go:155), EndAll is not
\* called, and their clients wait until they leave or a later stream ends.
DisconnectEndsStreams ==
    \A x \in Sessions :
        (link = "cut" /\ sse[x] = "attached") ~> (sse[x] = "left" \/ x \in orphaned)
=============================================================================
