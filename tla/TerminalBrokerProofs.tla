------------------------ MODULE TerminalBrokerProofs ------------------------
(***************************************************************************)
(* Proofs about TerminalBroker, for any number of sessions and any channel *)
(* capacity: type correctness, no misuse of a closed channel, room for the *)
(* exit event, the exit event last, one closer.  The inductive invariant   *)
(* adds what the lock holder knows of the sessions it is about to end, and *)
(* ties the closed flag and the table entry to the channel.                *)
(***************************************************************************)
EXTENDS TerminalBroker, TLAPS

HasExit(x) == \E i \in 1..Len(ch[x]) : ch[x][i] = "exit"

\* x has its exit event: it was ended, or is being ended and not yet closed.
EndedBefore(x) == closed[x] \/ entry[x] = "gone" \/ (exit.step = "close" /\ exit.at = x)

FreshIsOpen ==
    \A x \in Sessions : /\ create[x] = "idle" => entry[x] = "none"
                        /\ entry[x] = "none" => ~closed[x]

ClosedIsMarked == \A x \in Sessions : chClosed[x] => closed[x] \/ entry[x] = "gone"

HolderEndsLive ==
    /\ \A x \in exit.todo : Endable(x)
    /\ exit.step # "none" => exit.at \in exit.todo

ExitMeansEnded == \A x \in Sessions : HasExit(x) \/ sawExit[x] => EndedBefore(x)

Working == {"send", "audit", "done"}

CloserRemoved ==
    \A x \in Sessions : \A k \in Closers : closer[x][k] \in Working => entry[x] = "gone"

TableInv == NoPanic /\ FreshIsOpen /\ ClosedIsMarked /\ HolderEndsLive
ExitInv  == ExitSendNeverBlocks /\ ExitIsLast /\ ExitMeansEnded
CloseInv == OneCloser /\ CloserRemoved

IInv == TypeOK /\ TableInv /\ ExitInv /\ CloseInv

\* A new table (NewTerminalSessions) satisfies the inductive invariant.
LEMMA InitIInv == Init => IInv
<1> SUFFICES ASSUME Init PROVE IInv
  OBVIOUS
<1> USE BrokerAssumption DEF Init, CloserState, ShellState, ExitState
<1>1. TypeOK
  <2>1. <<>> \in Seq(Event) /\ Len(<<>>) = 0
    OBVIOUS
  <2>2. exit \in ExitState
    BY DEF NoExit
  <2>3. ch \in [Sessions -> Seq(Event)] /\ \A x \in Sessions : Len(ch[x]) <= Cap
    BY <2>1
  <2> QED
    BY <2>2, <2>3 DEF TypeOK, Closers
<1>2. TableInv
  BY DEF TableInv, NoPanic, FreshIsOpen, ClosedIsMarked, HolderEndsLive, NoExit
<1>3. ExitInv
  BY DEF ExitInv, ExitSendNeverBlocks, ExitIsLast, ExitMeansEnded, HasExit, NoExit
<1>4. CloseInv
  BY DEF CloseInv, OneCloser, CloserRemoved, Closers, Working
<1> QED
  BY <1>1, <1>2, <1>3, <1>4 DEF IInv

\* What removing a live entry does, without the case split on closed.
LEMMA RemovedEntry ==
  ASSUME IInv, NEW x \in Sessions, entry[x] = "live", RemoveEntry(x)
  PROVE  /\ entry' = [entry EXCEPT ![x] = "gone"]
         /\ ch' = ch
         /\ panicked' = FALSE
         /\ chClosed' \in [Sessions -> BOOLEAN]
         /\ \A y \in Sessions : y # x => chClosed'[y] = chClosed[y]
<1>1. panicked = FALSE
  BY DEF IInv, TypeOK, TableInv, NoPanic
<1>2. CASE closed[x]
  BY <1>1, <1>2 DEF RemoveEntry, IInv, TypeOK
<1>3. CASE ~closed[x]
  <2>1. chClosed[x] = FALSE
    BY <1>3 DEF IInv, TypeOK, TableInv, ClosedIsMarked
  <2>2. chClosed' = [chClosed EXCEPT ![x] = TRUE] /\ panicked' = (panicked \/ chClosed[x])
    BY <1>3 DEF RemoveEntry, CloseChannel
  <2>3. panicked' = FALSE
    BY <1>1, <2>1, <2>2
  <2> QED
    BY <2>2, <2>3 DEF RemoveEntry, IInv, TypeOK
<1> QED
  BY <1>2, <1>3

\* Removing a live entry while the lock is free disturbs neither the table
\* nor the exit events.
LEMMA RemovalKeeps ==
  ASSUME IInv, NEW x \in Sessions, Unlocked, entry[x] = "live", RemoveEntry(x),
         closed' = closed \/ closed' = [closed EXCEPT ![x] = TRUE],
         exit' = exit, sawExit' = sawExit,
         \A y \in Sessions : create'[y] = "idle" => create[y] = "idle"
  PROVE  TableInv' /\ ExitInv'
<1>1. /\ entry' = [entry EXCEPT ![x] = "gone"]
      /\ ch' = ch
      /\ panicked' = FALSE
      /\ \A y \in Sessions : y # x => chClosed'[y] = chClosed[y]
  BY RemovedEntry
<1>2. \A y \in Sessions : y # x => entry'[y] = entry[y] /\ closed'[y] = closed[y]
  BY <1>1 DEF IInv, TypeOK
<1>3. entry'[x] = "gone"
  BY <1>1 DEF IInv, TypeOK
<1>4. TableInv'
  BY <1>1, <1>2, <1>3 DEF IInv, TableInv, NoPanic, FreshIsOpen, ClosedIsMarked, HolderEndsLive, Unlocked
<1>5. ExitInv'
  BY <1>1, <1>2, <1>3 DEF IInv, ExitInv, ExitSendNeverBlocks, ExitIsLast, ExitMeansEnded, HasExit,
     EndedBefore, Unlocked
<1> QED
  BY <1>4, <1>5

\* A closer that starts to work has just removed a live entry; any other step
\* of a closer leaves the entry alone.
LEMMA CloserMoves ==
  ASSUME IInv, NEW x \in Sessions, NEW k \in Closers,
         NEW s \in CloserState,
         closer' = [closer EXCEPT ![x][k] = s],
         \/ entry' = entry /\ s \notin Working
         \/ entry[x] = "live" /\ entry' = [entry EXCEPT ![x] = "gone"]
  PROVE  CloseInv' /\ closer' \in [Sessions -> [Closers -> CloserState]]
<1>1. closer \in [Sessions -> [Closers -> CloserState]]
  BY DEF IInv, TypeOK
<1>2. /\ closer'[x][k] = s
      /\ \A j \in Closers : j # k => closer'[x][j] = closer[x][j]
      /\ \A y \in Sessions : y # x => closer'[y] = closer[y]
  BY <1>1
<1>3. closer' \in [Sessions -> [Closers -> CloserState]]
  BY <1>1
<1>4. entry[x] = "live" => \A j \in Closers : closer[x][j] \notin Working
  BY DEF IInv, CloseInv, CloserRemoved
<1>5. CASE entry' = entry /\ s \notin Working
  <2>1. \A y \in Sessions : \A j \in Closers :
          closer'[y][j] \in Working => closer[y][j] \in Working
    BY <1>2, <1>5
  <2> QED
    BY <1>3, <1>5, <2>1 DEF IInv, CloseInv, OneCloser, CloserRemoved, Working
<1>6. CASE entry[x] = "live" /\ entry' = [entry EXCEPT ![x] = "gone"]
  <2>1. entry'[x] = "gone" /\ \A y \in Sessions : y # x => entry'[y] = entry[y]
    BY <1>6 DEF IInv, TypeOK
  <2>2. \A j \in Closers : closer'[x][j] \in Working => j = k
    BY <1>2, <1>4, <1>6
  <2>3. CloserRemoved'
    BY <1>2, <2>1 DEF IInv, CloseInv, CloserRemoved
  <2>4. OneCloser'
    <3> SUFFICES ASSUME NEW y \in Sessions, NEW i \in Closers, NEW j \in Closers,
                        closer'[y][i] \in Working, closer'[y][j] \in Working
                 PROVE  i = j
      BY DEF OneCloser, Working
    <3>1. CASE y = x
      BY <2>2, <3>1
    <3>2. CASE y # x
      BY <1>2, <3>2 DEF IInv, CloseInv, OneCloser, Working
    <3> QED
      BY <3>1, <3>2
  <2> QED
    BY <1>3, <2>3, <2>4 DEF CloseInv
<1> QED
  BY <1>3, <1>5, <1>6

\* Every step of clients, agent, lock holder and connection handler keeps the
\* inductive invariant.
LEMMA StepIInv == IInv /\ [Next]_vars => IInv'
<1> SUFFICES ASSUME IInv, [Next]_vars PROVE IInv'
  OBVIOUS
<1> USE BrokerAssumption DEF CloserState, ShellState, ExitState, Unlocked, Endable, tableVars, httpVars, linkVars, agentVars
<1>1. ASSUME NEW x \in Sessions, createRegister(x) PROVE IInv'
  BY <1>1 DEF IInv, TypeOK, Closers, Event, createRegister,
     TableInv, NoPanic, FreshIsOpen, ClosedIsMarked, HolderEndsLive,
     ExitInv, ExitSendNeverBlocks, ExitIsLast, ExitMeansEnded, HasExit, EndedBefore,
     CloseInv, OneCloser, CloserRemoved, Working
<1>2. ASSUME NEW x \in Sessions, createSendOpen(x) PROVE IInv'
  BY <1>2 DEF IInv, TypeOK, Closers, Event, createSendOpen,
     TableInv, NoPanic, FreshIsOpen, ClosedIsMarked, HolderEndsLive,
     ExitInv, ExitSendNeverBlocks, ExitIsLast, ExitMeansEnded, HasExit, EndedBefore,
     CloseInv, OneCloser, CloserRemoved, Working
<1>3. ASSUME NEW x \in Sessions, createAcked(x) PROVE IInv'
  BY <1>3 DEF IInv, TypeOK, Closers, Event, createAcked,
     TableInv, NoPanic, FreshIsOpen, ClosedIsMarked, HolderEndsLive,
     ExitInv, ExitSendNeverBlocks, ExitIsLast, ExitMeansEnded, HasExit, EndedBefore,
     CloseInv, OneCloser, CloserRemoved, Working
<1>4. ASSUME NEW x \in Sessions, createFails(x) PROVE IInv'
  BY <1>4 DEF IInv, TypeOK, Closers, Event, createFails,
     TableInv, NoPanic, FreshIsOpen, ClosedIsMarked, HolderEndsLive,
     ExitInv, ExitSendNeverBlocks, ExitIsLast, ExitMeansEnded, HasExit, EndedBefore,
     CloseInv, OneCloser, CloserRemoved, Working
<1>5. ASSUME NEW x \in Sessions, createUndo(x) PROVE IInv'
  <2>1. CASE entry[x] = "live"
    <3>1. /\ RemoveEntry(x) /\ UNCHANGED <<closed, exit, sse, closer, sawExit, linkVars, agentVars>>
          /\ create' = [create EXCEPT ![x] = "failed"]
      BY <1>5, <2>1 DEF createUndo
    <3>2. TableInv' /\ ExitInv'
      BY <1>5, <2>1, <3>1, RemovalKeeps DEF IInv, TypeOK, createUndo
    <3>3. entry' = [entry EXCEPT ![x] = "gone"] /\ ch' = ch /\ panicked' = FALSE
          /\ chClosed' \in [Sessions -> BOOLEAN]
      BY <2>1, <3>1, RemovedEntry
    <3>4. TypeOK'
      BY <3>1, <3>3 DEF IInv, TypeOK
    <3>5. CloseInv'
      BY <3>1, <3>3 DEF IInv, TypeOK, CloseInv, OneCloser, CloserRemoved
    <3> QED
      BY <3>2, <3>4, <3>5 DEF IInv
  <2>2. CASE entry[x] # "live"
    BY <1>5, <2>2 DEF createUndo, IInv, TypeOK, Closers, Event, TableInv, NoPanic, FreshIsOpen,
       ClosedIsMarked, HolderEndsLive, ExitInv, ExitSendNeverBlocks, ExitIsLast, ExitMeansEnded,
       HasExit, EndedBefore, CloseInv, OneCloser, CloserRemoved
  <2> QED
    BY <2>1, <2>2
<1>6. ASSUME NEW x \in Sessions, createFinish(x) PROVE IInv'
  BY <1>6 DEF IInv, TypeOK, Closers, Event, createFinish, Step,
     TableInv, NoPanic, FreshIsOpen, ClosedIsMarked, HolderEndsLive,
     ExitInv, ExitSendNeverBlocks, ExitIsLast, ExitMeansEnded, HasExit, EndedBefore,
     CloseInv, OneCloser, CloserRemoved, Working
<1>7. ASSUME NEW x \in Sessions, AttachStream(x) PROVE IInv'
  BY <1>7 DEF IInv, TypeOK, Closers, Event, AttachStream, streaming,
     TableInv, NoPanic, FreshIsOpen, ClosedIsMarked, HolderEndsLive,
     ExitInv, ExitSendNeverBlocks, ExitIsLast, ExitMeansEnded, HasExit, EndedBefore,
     CloseInv, OneCloser, CloserRemoved, Working
<1>8. ASSUME NEW x \in Sessions, streamReceive(x) PROVE IInv'
  <2> USE <1>8 DEF IInv, TypeOK, Closers, Event, streamReceive
  <2>1. TypeOK'
    OBVIOUS
  <2>2. TableInv'
    BY DEF TableInv, NoPanic, FreshIsOpen, ClosedIsMarked, HolderEndsLive
  <2>3. ExitInv'
    BY DEF TableInv, NoPanic, FreshIsOpen, ClosedIsMarked, HolderEndsLive,
       ExitInv, ExitSendNeverBlocks, ExitIsLast, ExitMeansEnded, HasExit, EndedBefore
  <2>4. CloseInv'
    BY DEF TableInv, NoPanic, FreshIsOpen, ClosedIsMarked, HolderEndsLive,
       CloseInv, OneCloser, CloserRemoved, Working
  <2> QED
    BY <2>1, <2>2, <2>3, <2>4 DEF IInv
<1>9. ASSUME NEW x \in Sessions, streamReturn(x) PROVE IInv'
  BY <1>9 DEF IInv, TypeOK, Closers, Event, streamReturn, Step,
     TableInv, NoPanic, FreshIsOpen, ClosedIsMarked, HolderEndsLive,
     ExitInv, ExitSendNeverBlocks, ExitIsLast, ExitMeansEnded, HasExit, EndedBefore,
     CloseInv, OneCloser, CloserRemoved, Working
<1>10. ASSUME NEW x \in Sessions, requireTerminalSession(x) PROVE IInv'
  BY <1>10 DEF IInv, TypeOK, Closers, Event, requireTerminalSession, Step,
     TableInv, NoPanic, FreshIsOpen, ClosedIsMarked, HolderEndsLive,
     ExitInv, ExitSendNeverBlocks, ExitIsLast, ExitMeansEnded, HasExit, EndedBefore,
     CloseInv, OneCloser, CloserRemoved, Working
<1>11. ASSUME NEW x \in Sessions, RemoveUnattached(x) PROVE IInv'
  <2>1. CASE entry[x] = "live" /\ sse[x] = "none"
    <3>1. PICK s \in {"send"} :
            /\ RemoveEntry(x) /\ closed' = closed
            /\ closer' = [closer EXCEPT ![x]["timer"] = s]
            /\ UNCHANGED <<exit, create, sse, sawExit, linkVars, agentVars>>
      BY <1>11, <2>1 DEF RemoveUnattached, Step, streaming
    <3>2. TableInv' /\ ExitInv'
      BY <1>11, <2>1, <3>1, RemovalKeeps DEF IInv, TypeOK, RemoveUnattached
    <3>3. entry' = [entry EXCEPT ![x] = "gone"] /\ ch' = ch /\ panicked' = FALSE
          /\ chClosed' \in [Sessions -> BOOLEAN]
      BY <2>1, <3>1, RemovedEntry
    <3>4. CloseInv' /\ closer' \in [Sessions -> [Closers -> CloserState]]
      BY <2>1, <3>1, <3>3, CloserMoves DEF Closers
    <3>5. TypeOK'
      BY <3>1, <3>3, <3>4 DEF IInv, TypeOK
    <3> QED
      BY <3>2, <3>4, <3>5 DEF IInv
  <2>2. CASE ~(entry[x] = "live" /\ sse[x] = "none")
    <3>1. /\ closer' = [closer EXCEPT ![x]["timer"] = "missed"]
          /\ UNCHANGED <<tableVars, exit, create, sse, sawExit, linkVars, agentVars>>
      BY <1>11, <2>2 DEF RemoveUnattached, Step, streaming
    <3>2. CloseInv' /\ closer' \in [Sessions -> [Closers -> CloserState]]
      BY <3>1, CloserMoves DEF Closers, Working
    <3>3. TypeOK'
      BY <3>1, <3>2 DEF IInv, TypeOK
    <3>4. TableInv' /\ ExitInv'
      BY <3>1 DEF IInv, TableInv, NoPanic, FreshIsOpen, ClosedIsMarked, HolderEndsLive,
         ExitInv, ExitSendNeverBlocks, ExitIsLast, ExitMeansEnded, HasExit, EndedBefore
    <3> QED
      BY <3>2, <3>3, <3>4 DEF IInv
  <2> QED
    BY <2>1, <2>2
<1>12. ASSUME NEW x \in Sessions, DeliverData(x) PROVE IInv'
  BY <1>12 DEF IInv, TypeOK, Closers, Event, DeliverData,
     TableInv, NoPanic, FreshIsOpen, ClosedIsMarked, HolderEndsLive,
     ExitInv, ExitSendNeverBlocks, ExitIsLast, ExitMeansEnded, HasExit, EndedBefore,
     CloseInv, OneCloser, CloserRemoved, Working
<1>13. ASSUME NEW x \in Sessions, End(x) PROVE IInv'
  <2> USE <1>13 DEF IInv, TypeOK, Closers, Event, End
  <2>1. TypeOK'
    OBVIOUS
  <2>2. TableInv'
    BY DEF TableInv, NoPanic, FreshIsOpen, ClosedIsMarked, HolderEndsLive
  <2>3. ExitInv'
    BY DEF TableInv, NoPanic, FreshIsOpen, ClosedIsMarked, HolderEndsLive,
       ExitInv, ExitSendNeverBlocks, ExitIsLast, ExitMeansEnded, HasExit, EndedBefore
  <2>4. CloseInv'
    BY DEF TableInv, NoPanic, FreshIsOpen, ClosedIsMarked, HolderEndsLive,
       CloseInv, OneCloser, CloserRemoved, Working
  <2> QED
    BY <2>1, <2>2, <2>3, <2>4 DEF IInv
<1>14. ASSUME NEW x \in Sessions, agentOpens(x) PROVE IInv'
  BY <1>14 DEF IInv, TypeOK, Closers, Event, agentOpens,
     TableInv, NoPanic, FreshIsOpen, ClosedIsMarked, HolderEndsLive,
     ExitInv, ExitSendNeverBlocks, ExitIsLast, ExitMeansEnded, HasExit, EndedBefore,
     CloseInv, OneCloser, CloserRemoved, Working
<1>15. ASSUME NEW x \in Sessions, agentExits(x) PROVE IInv'
  BY <1>15 DEF IInv, TypeOK, Closers, Event, agentExits, ShellEnds,
     TableInv, NoPanic, FreshIsOpen, ClosedIsMarked, HolderEndsLive,
     ExitInv, ExitSendNeverBlocks, ExitIsLast, ExitMeansEnded, HasExit, EndedBefore,
     CloseInv, OneCloser, CloserRemoved, Working
<1>16. ASSUME NEW x \in Sessions, agentCloses(x) PROVE IInv'
  <2>1. UNCHANGED <<tableVars, exit, httpVars, linkVars>>
    BY <1>16 DEF agentCloses
  <2>2. TableInv' /\ ExitInv' /\ CloseInv'
    BY <2>1 DEF IInv, TableInv, NoPanic, FreshIsOpen, ClosedIsMarked, HolderEndsLive,
       ExitInv, ExitSendNeverBlocks, ExitIsLast, ExitMeansEnded, HasExit, EndedBefore,
       CloseInv, OneCloser, CloserRemoved, Working
  <2>3. shell' \in [Sessions -> ShellState]
        /\ exitMsg' \in SUBSET Sessions /\ closeMsg' \in SUBSET Sessions
    <3>1. shell \in [Sessions -> ShellState]
          /\ exitMsg \in SUBSET Sessions /\ closeMsg \in SUBSET Sessions
      BY DEF IInv, TypeOK
    <3>2. CASE shell[x] = "up"
      BY <1>16, <3>1, <3>2 DEF agentCloses, ShellEnds
    <3>3. CASE shell[x] # "up"
      BY <1>16, <3>1, <3>3 DEF agentCloses
    <3> QED
      BY <3>2, <3>3
  <2>4. TypeOK'
    BY <2>1, <2>3 DEF IInv, TypeOK
  <2> QED
    BY <2>2, <2>4 DEF IInv
<1>17. ASSUME NEW x \in Sessions, exitBegins(x) PROVE IInv'
  <2> USE <1>17 DEF IInv, TypeOK, Closers, Event, exitBegins
  <2>1. TypeOK'
    OBVIOUS
  <2>2. TableInv'
    BY DEF TableInv, NoPanic, FreshIsOpen, ClosedIsMarked, HolderEndsLive
  <2>3. ExitInv'
    BY DEF TableInv, NoPanic, FreshIsOpen, ClosedIsMarked, HolderEndsLive,
       ExitInv, ExitSendNeverBlocks, ExitIsLast, ExitMeansEnded, HasExit, EndedBefore
  <2>4. CloseInv'
    BY DEF TableInv, NoPanic, FreshIsOpen, ClosedIsMarked, HolderEndsLive,
       CloseInv, OneCloser, CloserRemoved, Working
  <2> QED
    BY <2>1, <2>2, <2>3, <2>4 DEF IInv
<1>18. ASSUME NEW x \in Sessions, NEW k \in Closers, RemoveIfHubInitiated(x, k) PROVE IInv'
  <2>1. CASE entry[x] = "live"
    <3>1. PICK s \in {"send", "audit"} :
            /\ RemoveEntry(x) /\ closed' = [closed EXCEPT ![x] = TRUE]
            /\ closer' = [closer EXCEPT ![x][k] = s]
            /\ UNCHANGED <<exit, create, sse, sawExit, linkVars, agentVars>>
      BY <1>18, <2>1 DEF RemoveIfHubInitiated, Step, streaming
    <3>2. TableInv' /\ ExitInv'
      BY <1>18, <2>1, <3>1, RemovalKeeps DEF IInv, TypeOK, RemoveIfHubInitiated
    <3>3. entry' = [entry EXCEPT ![x] = "gone"] /\ ch' = ch /\ panicked' = FALSE
          /\ chClosed' \in [Sessions -> BOOLEAN]
      BY <2>1, <3>1, RemovedEntry
    <3>4. CloseInv' /\ closer' \in [Sessions -> [Closers -> CloserState]]
      BY <2>1, <3>1, <3>3, CloserMoves DEF Closers
    <3>5. TypeOK'
      BY <3>1, <3>3, <3>4 DEF IInv, TypeOK
    <3> QED
      BY <3>2, <3>4, <3>5 DEF IInv
  <2>2. CASE ~(entry[x] = "live")
    <3>1. /\ closer' = [closer EXCEPT ![x][k] = "missed"]
          /\ UNCHANGED <<tableVars, exit, create, sse, sawExit, linkVars, agentVars>>
      BY <1>18, <2>2 DEF RemoveIfHubInitiated, Step, streaming
    <3>2. CloseInv' /\ closer' \in [Sessions -> [Closers -> CloserState]]
      BY <3>1, CloserMoves DEF Closers, Working
    <3>3. TypeOK'
      BY <3>1, <3>2 DEF IInv, TypeOK
    <3>4. TableInv' /\ ExitInv'
      BY <3>1 DEF IInv, TableInv, NoPanic, FreshIsOpen, ClosedIsMarked, HolderEndsLive,
         ExitInv, ExitSendNeverBlocks, ExitIsLast, ExitMeansEnded, HasExit, EndedBefore
    <3> QED
      BY <3>2, <3>3, <3>4 DEF IInv
  <2> QED
    BY <2>1, <2>2
<1>19. ASSUME NEW x \in Sessions, NEW k \in Closers, sendTerminalClose(x, k) PROVE IInv'
  BY <1>19 DEF IInv, TypeOK, Closers, Event, sendTerminalClose, Step,
     TableInv, NoPanic, FreshIsOpen, ClosedIsMarked, HolderEndsLive,
     ExitInv, ExitSendNeverBlocks, ExitIsLast, ExitMeansEnded, HasExit, EndedBefore,
     CloseInv, OneCloser, CloserRemoved, Working
<1>20. ASSUME NEW x \in Sessions, NEW k \in Closers, auditClosed(x, k) PROVE IInv'
  BY <1>20 DEF IInv, TypeOK, Closers, Event, auditClosed, Step,
     TableInv, NoPanic, FreshIsOpen, ClosedIsMarked, HolderEndsLive,
     ExitInv, ExitSendNeverBlocks, ExitIsLast, ExitMeansEnded, HasExit, EndedBefore,
     CloseInv, OneCloser, CloserRemoved, Working
<1>21. CASE EndAll
  <2>1. /\ endAlls' \in Nat
        /\ exit' = [exit EXCEPT !.todo = {y \in Sessions : Endable(y)}]
        /\ UNCHANGED <<tableVars, httpVars, reg, link, serving, breaks, orphaned, agentVars>>
    BY <1>21 DEF EndAll, IInv, TypeOK
  <2>2. exit' \in ExitState
    BY <2>1 DEF IInv, TypeOK
  <2>3. TypeOK'
    BY <2>1, <2>2 DEF IInv, TypeOK
  <2>4. TableInv' /\ ExitInv' /\ CloseInv'
    BY <1>21, <2>1 DEF EndAll, IInv, TypeOK, TableInv, NoPanic, FreshIsOpen, ClosedIsMarked, HolderEndsLive,
       ExitInv, ExitSendNeverBlocks, ExitIsLast, ExitMeansEnded, HasExit, EndedBefore,
       CloseInv, OneCloser, CloserRemoved, Working
  <2> QED
    BY <2>3, <2>4 DEF IInv
<1>22. CASE exitCheck
  <2> USE <1>22 DEF IInv, TypeOK, Closers, Event, exitCheck
  <2>1. TypeOK'
    OBVIOUS
  <2>2. TableInv'
    BY DEF TableInv, NoPanic, FreshIsOpen, ClosedIsMarked, HolderEndsLive
  <2>3. ExitInv'
    BY DEF TableInv, NoPanic, FreshIsOpen, ClosedIsMarked, HolderEndsLive,
       ExitInv, ExitSendNeverBlocks, ExitIsLast, ExitMeansEnded, HasExit, EndedBefore
  <2>4. CloseInv'
    BY DEF TableInv, NoPanic, FreshIsOpen, ClosedIsMarked, HolderEndsLive,
       CloseInv, OneCloser, CloserRemoved, Working
  <2> QED
    BY <2>1, <2>2, <2>3, <2>4 DEF IInv
<1>23. CASE exitEvict
  <2>0. /\ exit.at \in Sessions
        /\ exit.at \in exit.todo
        /\ ch[exit.at] \in Seq(Event)
        /\ exit \in ExitState
    BY <1>23 DEF IInv, TypeOK, TableInv, HolderEndsLive, exitEvict
  <2>1. CASE ch[exit.at] # <<>>
    <3> DEFINE t == Tail(ch[exit.at])
    <3>1. /\ ch' = [ch EXCEPT ![exit.at] = t]
          /\ exit' = [exit EXCEPT !.step = "check"]
          /\ UNCHANGED <<entry, closed, chClosed, panicked, httpVars, linkVars, agentVars>>
      BY <1>23, <2>1 DEF exitEvict
    <3>2. /\ t \in Seq(Event)
          /\ Len(t) = Len(ch[exit.at]) - 1
          /\ \A i \in 1..Len(t) : i + 1 \in 1..Len(ch[exit.at]) /\ t[i] = ch[exit.at][i + 1]
      BY <2>0, <2>1
    <3>3. /\ exit'.at = exit.at /\ exit'.todo = exit.todo /\ exit'.step = "check"
          /\ exit' \in ExitState
      BY <2>0, <3>1
    <3>4. Len(ch[exit.at]) \in Nat /\ Len(ch[exit.at]) <= Cap
      BY <2>0 DEF IInv, TypeOK
    <3> HIDE DEF t
    <3>5. ch' \in [Sessions -> Seq(Event)] /\ ch'[exit.at] = t
          /\ \A y \in Sessions : y # exit.at => ch'[y] = ch[y]
      BY <2>0, <3>1, <3>2 DEF IInv, TypeOK
    <3>6. \A y \in Sessions : Len(ch'[y]) <= Cap
      <4>1. \A y \in Sessions : Len(ch[y]) <= Cap
        BY DEF IInv, TypeOK
      <4>2. Len(t) <= Cap
        BY <3>2, <3>4
      <4> QED
        BY <3>5, <4>1, <4>2
    <3>7. TypeOK'
      BY <3>1, <3>3, <3>5, <3>6 DEF IInv, TypeOK
    <3>8. TableInv' /\ CloseInv'
      BY <2>0, <3>1, <3>3 DEF IInv, TableInv, NoPanic, FreshIsOpen, ClosedIsMarked, HolderEndsLive,
       CloseInv, OneCloser, CloserRemoved, Working
    <3>9. ~HasExit(exit.at) /\ ~sawExit[exit.at]
      BY <1>23, <2>0 DEF IInv, TableInv, HolderEndsLive, ExitInv, ExitMeansEnded, EndedBefore, exitEvict
    <3>10. \A i \in 1..Len(t) : t[i] # "exit"
      BY <3>2, <3>9 DEF HasExit
    <3>11. ExitSendNeverBlocks' /\ ExitIsLast'
      BY <3>1, <3>3, <3>5, <3>9, <3>10 DEF IInv, ExitInv, ExitSendNeverBlocks, ExitIsLast
    <3>12. ExitMeansEnded'
      <4> SUFFICES ASSUME NEW y \in Sessions, HasExit(y)' \/ sawExit'[y]
                   PROVE  EndedBefore(y)'
        BY DEF ExitMeansEnded
      <4>1. y # exit.at
        BY <3>1, <3>5, <3>9, <3>10 DEF HasExit
      <4>2. HasExit(y) \/ sawExit[y]
        BY <4>1, <3>1, <3>5 DEF HasExit
      <4>3. closed[y] \/ entry[y] = "gone"
        BY <1>23, <4>2 DEF IInv, ExitInv, ExitMeansEnded, EndedBefore, exitEvict
      <4> QED
        BY <4>3, <3>1 DEF EndedBefore
    <3> QED
      BY <3>7, <3>8, <3>11, <3>12 DEF IInv, ExitInv
  <2>2. CASE ch[exit.at] = <<>>
    <3>1. /\ exit' = [exit EXCEPT !.step = "close"]
          /\ UNCHANGED <<tableVars, httpVars, linkVars, agentVars>>
      BY <1>23, <2>2 DEF exitEvict
    <3>2. /\ exit'.at = exit.at /\ exit'.todo = exit.todo /\ exit'.step = "close"
          /\ exit' \in ExitState
      BY <2>0, <3>1
    <3>3. TypeOK'
      BY <3>1, <3>2 DEF IInv, TypeOK
    <3>4. TableInv' /\ CloseInv'
      BY <2>0, <3>1, <3>2 DEF IInv, TableInv, NoPanic, FreshIsOpen, ClosedIsMarked, HolderEndsLive,
       CloseInv, OneCloser, CloserRemoved, Working
    <3>5. ExitInv'
      BY <1>23, <3>1, <3>2 DEF IInv, ExitInv, ExitSendNeverBlocks, ExitIsLast, ExitMeansEnded, HasExit, EndedBefore, exitEvict
    <3> QED
      BY <3>3, <3>4, <3>5 DEF IInv
  <2> QED
    BY <2>1, <2>2
<1>24. CASE exitPut
  <2>0. /\ exit.at \in Sessions
        /\ exit.at \in exit.todo
        /\ ch[exit.at] \in Seq(Event)
        /\ exit \in ExitState
    BY <1>24 DEF IInv, TypeOK, TableInv, HolderEndsLive, exitPut
  <2> DEFINE t == Append(ch[exit.at], "exit")
  <2>1. /\ ch' = [ch EXCEPT ![exit.at] = t]
        /\ exit' = [exit EXCEPT !.step = "close"]
        /\ Len(ch[exit.at]) < Cap
        /\ UNCHANGED <<entry, closed, chClosed, httpVars, linkVars, agentVars>>
    BY <1>24 DEF exitPut
  <2>2. /\ t \in Seq(Event)
        /\ Len(t) = Len(ch[exit.at]) + 1
        /\ \A i \in 1..Len(ch[exit.at]) : t[i] = ch[exit.at][i]
    BY <2>0 DEF Event
  <2>3. panicked' = FALSE
    <3>1. panicked = FALSE /\ chClosed[exit.at] = FALSE
      BY <2>0 DEF IInv, TypeOK, TableInv, NoPanic, ClosedIsMarked, HolderEndsLive
    <3> QED
      BY <1>24, <3>1 DEF exitPut
  <2>4. /\ exit'.at = exit.at /\ exit'.todo = exit.todo /\ exit'.step = "close"
        /\ exit' \in ExitState
    BY <2>0, <2>1
  <2> HIDE DEF t
  <2>5. ch' \in [Sessions -> Seq(Event)] /\ ch'[exit.at] = t
        /\ \A y \in Sessions : y # exit.at => ch'[y] = ch[y]
    BY <2>0, <2>1, <2>2 DEF IInv, TypeOK
  <2>6. Len(ch[exit.at]) \in Nat /\ Len(t) <= Cap
    BY <2>0, <2>1, <2>2
  <2>7. TypeOK'
    <3>1. \A y \in Sessions : Len(ch'[y]) <= Cap
      BY <2>5, <2>6 DEF IInv, TypeOK
    <3> QED
      BY <2>1, <2>3, <2>4, <2>5, <3>1 DEF IInv, TypeOK
  <2>8. TableInv' /\ CloseInv'
    BY <2>0, <2>1, <2>3, <2>4 DEF IInv, TableInv, NoPanic, FreshIsOpen, ClosedIsMarked, HolderEndsLive,
       CloseInv, OneCloser, CloserRemoved, Working
  <2>9. ~HasExit(exit.at) /\ ~sawExit[exit.at]
    BY <1>24, <2>0 DEF IInv, TableInv, HolderEndsLive, ExitInv, ExitMeansEnded, EndedBefore, exitPut
  <2>10. \A i \in 1..Len(t) : t[i] = "exit" => i = Len(t)
    BY <2>2, <2>6, <2>9 DEF HasExit
  <2>11. ExitSendNeverBlocks' /\ ExitIsLast'
    BY <2>1, <2>4, <2>5, <2>9, <2>10 DEF IInv, ExitInv, ExitSendNeverBlocks, ExitIsLast
  <2>12. ExitMeansEnded'
    BY <1>24, <2>1, <2>4, <2>5 DEF IInv, ExitInv, ExitMeansEnded, EndedBefore, HasExit, exitPut
  <2> QED
    BY <2>7, <2>8, <2>11, <2>12 DEF IInv, ExitInv
<1>25. CASE exitClose
  BY <1>25 DEF IInv, TypeOK, Closers, Event, exitClose, CloseChannel,
     TableInv, NoPanic, FreshIsOpen, ClosedIsMarked, HolderEndsLive,
     ExitInv, ExitSendNeverBlocks, ExitIsLast, ExitMeansEnded, HasExit, EndedBefore,
     CloseInv, OneCloser, CloserRemoved, Working
<1>26. CASE linkBreaks
  BY <1>26 DEF IInv, TypeOK, Closers, Event, linkBreaks,
     TableInv, NoPanic, FreshIsOpen, ClosedIsMarked, HolderEndsLive,
     ExitInv, ExitSendNeverBlocks, ExitIsLast, ExitMeansEnded, HasExit, EndedBefore,
     CloseInv, OneCloser, CloserRemoved, Working
<1>27. CASE onAgentDisconnected
  <2>1. UNCHANGED <<tableVars, exit, httpVars, agentVars>>
    BY <1>27 DEF onAgentDisconnected
  <2>2. TableInv' /\ ExitInv' /\ CloseInv'
    BY <2>1 DEF IInv, TableInv, NoPanic, FreshIsOpen, ClosedIsMarked, HolderEndsLive,
       ExitInv, ExitSendNeverBlocks, ExitIsLast, ExitMeansEnded, HasExit, EndedBefore,
       CloseInv, OneCloser, CloserRemoved, Working
  <2>3. /\ reg' = FALSE /\ serving' = FALSE /\ link' = link /\ endAlls' \in Nat /\ breaks' = breaks
        /\ orphaned' = orphaned
    BY <1>27 DEF onAgentDisconnected, IInv, TypeOK
  <2>4. TypeOK'
    BY <2>1, <2>3 DEF IInv, TypeOK
  <2> QED
    BY <2>2, <2>4 DEF IInv
<1>28. CASE Unregister
  <2> USE <1>28 DEF IInv, TypeOK, Closers, Event, Unregister, Open
  <2>1. TypeOK'
    OBVIOUS
  <2>2. TableInv'
    BY DEF TableInv, NoPanic, FreshIsOpen, ClosedIsMarked, HolderEndsLive
  <2>3. ExitInv'
    BY DEF TableInv, NoPanic, FreshIsOpen, ClosedIsMarked, HolderEndsLive,
       ExitInv, ExitSendNeverBlocks, ExitIsLast, ExitMeansEnded, HasExit, EndedBefore
  <2>4. CloseInv'
    BY DEF TableInv, NoPanic, FreshIsOpen, ClosedIsMarked, HolderEndsLive,
       CloseInv, OneCloser, CloserRemoved, Working
  <2> QED
    BY <2>1, <2>2, <2>3, <2>4 DEF IInv
<1>29. CASE connMgrRegister
  BY <1>29 DEF IInv, TypeOK, Closers, Event, connMgrRegister, Open,
     TableInv, NoPanic, FreshIsOpen, ClosedIsMarked, HolderEndsLive,
     ExitInv, ExitSendNeverBlocks, ExitIsLast, ExitMeansEnded, HasExit, EndedBefore,
     CloseInv, OneCloser, CloserRemoved, Working
<1>30. CASE UNCHANGED vars
  <2> USE <1>30 DEF IInv, TypeOK, Closers, Event, vars
  <2>1. TypeOK'
    OBVIOUS
  <2>2. TableInv'
    BY DEF TableInv, NoPanic, FreshIsOpen, ClosedIsMarked, HolderEndsLive
  <2>3. ExitInv'
    BY DEF TableInv, NoPanic, FreshIsOpen, ClosedIsMarked, HolderEndsLive,
       ExitInv, ExitSendNeverBlocks, ExitIsLast, ExitMeansEnded, HasExit, EndedBefore
  <2>4. CloseInv'
    BY DEF TableInv, NoPanic, FreshIsOpen, ClosedIsMarked, HolderEndsLive,
       CloseInv, OneCloser, CloserRemoved, Working
  <2> QED
    BY <2>1, <2>2, <2>3, <2>4 DEF IInv
<1> QED
  BY <1>1, <1>2, <1>3, <1>4, <1>5, <1>6, <1>7, <1>8, <1>9, <1>10, <1>11, <1>12, <1>13, <1>14,
     <1>15, <1>16, <1>17, <1>18, <1>19, <1>20, <1>21, <1>22, <1>23, <1>24, <1>25, <1>26, <1>27,
     <1>28, <1>29, <1>30
     DEF Next, Client, Create, Close, Agent, ExitStep, Connection, streamDrained, streamClientGone

\* The inductive invariant holds in every reachable state.
LEMMA Inductive == Spec => []IInv
<1> QED
  BY InitIInv, StepIInv, PTL DEF Spec

\* Every variable keeps its type and no channel holds more than its capacity
\* (TerminalSessions and its callers).
THEOREM BrokerTypeCorrect == Spec => []TypeOK
<1>1. IInv => TypeOK
  BY DEF IInv
<1> QED
  BY <1>1, Inductive, PTL

\* No interleaving of exit, disconnect, stream end, DELETE and deadline closes
\* a channel twice or sends on a closed one.
THEOREM ChannelsNeverPanic == Spec => []NoPanic
<1>1. IInv => NoPanic
  BY DEF IInv, TableInv
<1> QED
  BY <1>1, Inductive, PTL

\* deliverExit, which sends with the table's lock held, never waits for a
\* client.
THEOREM ExitNeverBlocks == Spec => []ExitSendNeverBlocks
<1>1. IInv => ExitSendNeverBlocks
  BY DEF IInv, ExitInv
<1> QED
  BY <1>1, Inductive, PTL

\* Nothing follows an exit event, in the channel or at the client.
THEOREM ExitComesLast == Spec => []ExitIsLast
<1>1. IInv => ExitIsLast
  BY DEF IInv, ExitInv
<1> QED
  BY <1>1, Inductive, PTL

\* One of stream end, DELETE and deadline closes a session, and only one.
THEOREM ClosedByOne == Spec => []OneCloser
<1>1. IInv => OneCloser
  BY DEF IInv, CloseInv
<1> QED
  BY <1>1, Inductive, PTL
=============================================================================
