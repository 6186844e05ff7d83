------------------------ MODULE HubProofs ----------------------------------
(***************************************************************************)
(* Proofs about two parts of the hub, for any number of servers.           *)
(*                                                                         *)
(* AgentRegistry, with any number of streams: type correctness, the two    *)
(* safety invariants, and that the registry implements ConnSlot.  The      *)
(* safety invariants are not inductive: Attached says what a handler knows *)
(* from the certificate check to the end of its service, which is what     *)
(* makes its later Register safe.                                          *)
(*                                                                         *)
(* Notifier, with any number of timers and any capacity of the queues:     *)
(* type correctness and the two safety invariants.  The worker's place in  *)
(* its loop says what it has found out about the queues (WorkerKnows).     *)
(***************************************************************************)
EXTENDS AgentRegistry, Notifier, TLAPS

\* The handler of st has passed verifyCertCN and has not started to leave.
Attached(st) == pc[st] \in {"verified", "setOnline", "ack", "register"} \cup Live

AttachedIsAuthenticated ==
    \A st \in Streams : Attached(st) =>
        sid[st] \in Servers /\ cert[st] = sid[st] /\ sid[st] \in issued

BootstrapIsBound ==
    \A st \in Streams : pc[st] \in {"activate", "regAck"} \cup Leaving => sid[st] \in Servers

MonitorIsBound == mon.step = "mark" => mon.at \in Servers

RegisteredIsOwn ==
    \A s \in Servers : conns[s] # NoStream =>
        pc[conns[s]] \in Live /\ sid[conns[s]] = s

IInv ==
    /\ TypeOK
    /\ AttachedIsAuthenticated
    /\ BootstrapIsBound
    /\ MonitorIsBound
    /\ RegisteredIsOwn

\* The hub starts (New, the empty registry) in the inductive invariant.
LEMMA InitIInv == Init => IInv
  BY RegistryAssumption DEF Init, IInv, TypeOK, AttachedIsAuthenticated, BootstrapIsBound,
     MonitorIsBound, RegisteredIsOwn, Attached, Handler, Handshaking, Live, Leaving, RowStatus,
     IdleMonitor, MonitorStep

\* Every step of the handlers, of the monitor and of the HTTP handlers keeps
\* the inductive invariant.
LEMMA StepIInv == IInv /\ [Next]_vars => IInv'
<1> SUFFICES ASSUME IInv, [Next]_vars PROVE IInv'
  OBVIOUS
<1> USE RegistryAssumption
    DEF IInv, TypeOK, AttachedIsAuthenticated, BootstrapIsBound, MonitorIsBound, RegisteredIsOwn,
        Attached, Handler, Handshaking, Live, Leaving, RowStatus, Present, Goto,
        dbVars, connVars, streamVars, adminVars
<1>1. ASSUME NEW st \in Streams, NEW s \in Servers, NEW csr \in BOOLEAN, handleRegister(st, s, csr)
      PROVE  IInv'
  BY <1>1 DEF handleRegister
<1>2. ASSUME NEW st \in Streams, NEW s \in Servers, NEW c \in issued \cup {NoServer},
             performHeartbeatHandshake(st, s, c)
      PROVE  IInv'
  BY <1>2 DEF performHeartbeatHandshake, verifyCertCN
<1>3. ASSUME NEW st \in Streams, ActivateServer(st) PROVE IInv'
  BY <1>3 DEF ActivateServer
<1>4. ASSUME NEW st \in Streams, sendRegisterAck(st) PROVE IInv'
  BY <1>4 DEF sendRegisterAck
<1>5. ASSUME NEW st \in Streams, GetServerByID(st) PROVE IInv'
  BY <1>5 DEF GetServerByID
<1>6. ASSUME NEW st \in Streams, handleHeartbeat(st) PROVE IInv'
  BY <1>6 DEF handleHeartbeat, UpdateServerStatus
<1>7. ASSUME NEW st \in Streams, sendHeartbeatAck(st) PROVE IInv'
  BY <1>7 DEF sendHeartbeatAck
<1>8. ASSUME NEW st \in Streams, connMgrRegister(st) PROVE IInv'
  BY <1>8 DEF connMgrRegister, Register
<1>9. ASSUME NEW st \in Streams, onAgentConnected(st) PROVE IInv'
  BY <1>9 DEF onAgentConnected
<1>10. ASSUME NEW st \in Streams, handleStreamHeartbeat(st) PROVE IInv'
  BY <1>10 DEF handleStreamHeartbeat, UpdateHeartbeat
<1>11. ASSUME NEW st \in Streams, UnregisterIfCurrent(st) PROVE IInv'
  <2>1. sid[st] \in Servers /\ cert[st] = sid[st] /\ sid[st] \in issued
    BY <1>11 DEF UnregisterIfCurrent
  <2>2. CASE conns[sid[st]] = st
    <3>1. /\ pc' = [pc EXCEPT ![st] = "offline"]
          /\ conns' = [conns EXCEPT ![sid[st]] = NoStream]
          /\ fresh' = [fresh EXCEPT ![sid[st]] = FALSE]
          /\ UNCHANGED <<dbVars, streamVars, adminVars, mon, restarts>>
      BY <1>11, <2>2 DEF UnregisterIfCurrent, Unregister, IsCurrent
    <3>2. \A s \in Servers : s # sid[st] => conns[s] # st
      BY <2>1
    <3>3. TypeOK'
      BY <2>1, <3>1
    <3>4. RegisteredIsOwn'
      BY <2>1, <3>1, <3>2
    <3> QED
      BY <2>1, <3>1, <3>3, <3>4
  <2>3. CASE conns[sid[st]] # st
    <3>1. \A s \in Servers : conns[s] # st
      BY <2>1, <2>3
    <3>2. pc' = [pc EXCEPT ![st] = "done"] /\ UNCHANGED <<dbVars, connVars, streamVars,
                    adminVars, mon, restarts>>
      BY <1>11, <2>3 DEF UnregisterIfCurrent, IsCurrent
    <3> QED
      BY <3>1, <3>2
  <2> QED
    BY <2>2, <2>3
<1>12. ASSUME NEW st \in Streams, disconnectSetOffline(st) PROVE IInv'
  BY <1>12 DEF disconnectSetOffline, UpdateServerStatus
<1>13. ASSUME NEW st \in Streams, disconnectNotify(st) PROVE IInv'
  BY <1>13 DEF disconnectNotify
<1>14. ASSUME NEW st \in Streams, disconnectEndAll(st) PROVE IInv'
  BY <1>14 DEF disconnectEndAll
<1>15. CASE Sweep
  <2> USE DEF MonitorStep, IdleMonitor
  <2>1. CASE sweepStart
    BY <2>1 DEF sweepStart, StaleConnections
  <2>2. CASE sweepMarkStale
    BY <2>2 DEF sweepMarkStale, UpdateServerStatus
  <2>3. CASE sweepActive
    BY <2>3 DEF sweepActive, ActiveServerIDs
  <2>4. CASE sweepQuery
    BY <2>4 DEF sweepQuery, GetOnlineServersNotIn
  <2>5. CASE sweepEnd
    BY <2>5 DEF sweepEnd
  <2>6. ASSUME NEW s \in Servers, sweepUnregister(s) PROVE IInv'
    BY <2>6 DEF sweepUnregister, Unregister
  <2>7. ASSUME NEW s \in Servers, sweepMarkOrphan(s) PROVE IInv'
    BY <2>7 DEF sweepMarkOrphan, UpdateServerStatus
  <2> QED
    BY <1>15, <2>1, <2>2, <2>3, <2>4, <2>5, <2>6, <2>7 DEF Sweep
<1>16. CASE Admin
  <2>1. ASSUME NEW s \in Servers, handleCreateServer(s) PROVE IInv'
    BY <2>1 DEF handleCreateServer
  <2>2. ASSUME NEW s \in Servers, handleSelfUnregister(s) PROVE IInv'
    BY <2>2 DEF handleSelfUnregister, Unregister
  <2>3. ASSUME NEW s \in Servers, handleUnregisterServer(s) PROVE IInv'
    BY <2>3 DEF handleUnregisterServer
  <2>4. ASSUME NEW ids \in SUBSET Servers, NEW batch \in BOOLEAN, handleDeleteServers(ids, batch)
        PROVE  IInv'
    BY <2>4 DEF handleDeleteServers
  <2> HIDE DEF IInv
  <2> QED
    BY <1>16, <2>1, <2>2, <2>3, <2>4 DEF Admin
<1>17. ASSUME NEW s \in Servers, AdminFinishes(s) PROVE IInv'
  <2>1. CASE deleteUnregister(s)
    BY <2>1 DEF deleteUnregister, Unregister
  <2>2. CASE selfUnregisterDelete(s)
    BY <2>2 DEF selfUnregisterDelete
  <2> QED
    BY <1>17, <2>1, <2>2 DEF AdminFinishes
<1>18. CASE Environment
  <2>1. ASSUME NEW s \in Servers, tokenExpires(s) PROVE IInv'
    BY <2>1 DEF tokenExpires
  <2>2. ASSUME NEW s \in Servers, entryAges(s) PROVE IInv'
    BY <2>2 DEF entryAges
  <2>3. ASSUME NEW st \in Streams, linkBreaks(st) PROVE IInv'
    BY <2>3 DEF linkBreaks
  <2>4. CASE hubRestarts
    BY <2>4 DEF hubRestarts, IdleMonitor, MonitorStep
  <2> QED
    BY <1>18, <2>1, <2>2, <2>3, <2>4 DEF Environment
<1>19. CASE UNCHANGED vars
  BY <1>19 DEF vars
<1> HIDE DEF IInv
<1> QED
  BY <1>1, <1>2, <1>3, <1>4, <1>5, <1>6, <1>7, <1>8, <1>9, <1>10, <1>11, <1>12, <1>13, <1>14,
     <1>15, <1>16, <1>17, <1>18, <1>19 DEF Next, Accept, HandlerStep

\* The inductive invariant holds in every reachable state.
THEOREM Inductive == Spec => []IInv
<1>1. IInv /\ [Next]_vars => IInv'
  BY StepIInv
<1> QED
  BY InitIInv, <1>1, PTL DEF Spec

\* Every variable keeps its type: the handlers, the monitor and the HTTP
\* handlers of any number of servers and streams.
THEOREM TypeCorrect == Spec => []TypeOK
<1>1. IInv => TypeOK
  BY DEF IInv
<1> QED
  BY <1>1, Inductive, PTL

\* No registry entry outlives the handler that made it.
THEOREM LiveEntries == Spec => []RegisteredIsLive
<1>1. IInv => RegisteredIsLive
  BY DEF IInv, RegisteredIsOwn, RegisteredIsLive
<1> QED
  BY <1>1, Inductive, PTL

\* The stream registered for a server has shown that server's certificate.
THEOREM AuthenticatedEntries == Spec => []RegisteredIsAuthenticated
<1>1. IInv => RegisteredIsAuthenticated
  BY DEF IInv, TypeOK, RegisteredIsOwn, AttachedIsAuthenticated, Attached, RegisteredIsAuthenticated
<1> QED
  BY <1>1, Inductive, PTL
-----------------------------------------------------------------------------
(* The registry implements ConnSlot.  Only five actions touch the mapped   *)
(* state; all the others leave the registry alone and move no handler into *)
(* or out of Admitted and HasLeft.                                         *)

\* A step that changes no entry and keeps both sets is a stuttering step.
LEMMA Stutter ==
    ASSUME UNCHANGED conns, Admitted' = Admitted, HasLeft' = HasLeft
    PROVE  [Slot!SlotNext]_(Slot!slotVars)
  BY DEF Slot!slotVars

\* Dropping the entry of a server from outside is an eviction.
LEMMA Eviction ==
    ASSUME NEW s \in Servers, Unregister(s), UNCHANGED pc
    PROVE  [Slot!SlotNext]_(Slot!slotVars)
  BY DEF Unregister, Slot!SlotNext, Slot!Evict, Slot!slotVars, Admitted, HasLeft

\* Every step of the registry is a step of ConnSlot or changes none of its
\* variables (Connect, onAgentDisconnected, sweepStaleConnections).
LEMMA StepRefines == IInv /\ [Next]_vars => [Slot!SlotNext]_(Slot!slotVars)
<1> SUFFICES ASSUME IInv, [Next]_vars PROVE [Slot!SlotNext]_(Slot!slotVars)
  OBVIOUS
<1> DEFINE Goal == [Slot!SlotNext]_(Slot!slotVars)
<1> USE DEF Goto, dbVars, connVars, streamVars, adminVars, Handler, Handshaking, Live, Leaving
<1>a. /\ TypeOK /\ pc \in [Streams -> Handler]
      /\ \A st \in Streams : pc[st] \in Live => sid[st] \in Servers
      /\ \A s \in Servers : conns[s] # NoStream => sid[conns[s]] = s
  BY DEF IInv, TypeOK, AttachedIsAuthenticated, Attached, RegisteredIsOwn
<1>1. ASSUME NEW st \in Streams,
             Accept(st) \/ ActivateServer(st) \/ sendRegisterAck(st) \/ GetServerByID(st)
               \/ handleHeartbeat(st) \/ sendHeartbeatAck(st) \/ onAgentConnected(st)
               \/ disconnectSetOffline(st) \/ disconnectNotify(st) \/ disconnectEndAll(st)
               \/ handleStreamHeartbeat(st)
      PROVE  Goal
  <2>1. UNCHANGED conns /\ \E w \in Handler :
            /\ pc' = [pc EXCEPT ![st] = w]
            /\ pc[st] \in Live \cup Leaving \cup {"done"} <=> w \in Live \cup Leaving \cup {"done"}
            /\ pc[st] \in Leaving \cup {"done"} <=> w \in Leaving \cup {"done"}
    BY <1>1, <1>a DEF Accept, handleRegister, performHeartbeatHandshake, ActivateServer, sendRegisterAck,
       GetServerByID, handleHeartbeat, sendHeartbeatAck, onAgentConnected, disconnectSetOffline,
       disconnectNotify, disconnectEndAll, handleStreamHeartbeat, UpdateHeartbeat
  <2>2. Admitted' = Admitted /\ HasLeft' = HasLeft
    BY <2>1, <1>a DEF Admitted, HasLeft
  <2> QED
    BY <2>1, <2>2, Stutter
<1>2. ASSUME NEW st \in Streams, connMgrRegister(st) PROVE Goal
  <2>1. st \notin Admitted /\ sid[st] \in Servers
    BY <1>2 DEF connMgrRegister, Admitted, IInv, AttachedIsAuthenticated, Attached
  <2>2. Admitted' = Admitted \cup {st} /\ HasLeft' = HasLeft
    BY <1>2, <1>a DEF connMgrRegister, Admitted, HasLeft
  <2>3. Slot!Admit(sid[st], st)
    BY <1>2, <2>1, <2>2 DEF connMgrRegister, Register, Slot!Admit
  <2> QED
    BY <2>1, <2>3 DEF Slot!SlotNext
<1>3. ASSUME NEW st \in Streams, UnregisterIfCurrent(st) PROVE Goal
  <2>1. sid[st] \in Servers /\ st \in Admitted \ HasLeft
    BY <1>3, <1>a DEF UnregisterIfCurrent, Admitted, HasLeft
  <2>2. Admitted' = Admitted /\ HasLeft' = HasLeft \cup {st}
    BY <1>3, <1>a DEF UnregisterIfCurrent, Admitted, HasLeft
  <2>3. conns' = [s \in Servers |-> IF conns[s] = st THEN NoStream ELSE conns[s]]
    <3>1. \A s \in Servers : conns[s] = st => s = sid[st]
      BY <1>a, RegistryAssumption
    <3>2. conns' = IF conns[sid[st]] = st THEN [conns EXCEPT ![sid[st]] = NoStream] ELSE conns
      BY <1>3 DEF UnregisterIfCurrent, Unregister, IsCurrent
    <3> QED
      BY <2>1, <3>1, <3>2, <1>a DEF TypeOK
  <2>4. Slot!Leave(st)
    BY <2>1, <2>2, <2>3 DEF Slot!Leave
  <2> QED
    BY <2>4 DEF Slot!SlotNext
<1>4. ASSUME NEW s \in Servers,
             sweepUnregister(s) \/ handleSelfUnregister(s) \/ deleteUnregister(s)
      PROVE  Goal
  BY <1>4, Eviction DEF sweepUnregister, handleSelfUnregister, deleteUnregister
<1>5. ASSUME UNCHANGED <<conns, pc>> PROVE Goal
  BY <1>5, Stutter DEF Admitted, HasLeft
<1>6. CASE Sweep
  <2>1. (\E s \in Servers : sweepUnregister(s)) \/ UNCHANGED <<conns, pc>>
    BY <1>6 DEF Sweep, sweepStart, sweepMarkStale, sweepActive, sweepQuery, sweepEnd, sweepMarkOrphan
  <2> QED
    BY <2>1, <1>4, <1>5
<1>7. CASE Admin
  <2>1. (\E s \in Servers : handleSelfUnregister(s)) \/ UNCHANGED <<conns, pc>>
    BY <1>7 DEF Admin, handleCreateServer, handleUnregisterServer, handleDeleteServers
  <2> QED
    BY <2>1, <1>4, <1>5
<1>8. ASSUME NEW s \in Servers, AdminFinishes(s) PROVE Goal
  <2>1. deleteUnregister(s) \/ UNCHANGED <<conns, pc>>
    BY <1>8 DEF AdminFinishes, selfUnregisterDelete
  <2> QED
    BY <2>1, <1>4, <1>5
<1>9. CASE hubRestarts
  <2>1. Admitted' = Admitted /\ HasLeft' = Admitted
    BY <1>9, <1>a DEF hubRestarts, Admitted, HasLeft
  <2>2. Slot!DropAll
    BY <1>9, <2>1 DEF hubRestarts, Slot!DropAll
  <2> QED
    BY <2>2 DEF Slot!SlotNext
<1>10. CASE Environment
  <2>1. hubRestarts \/ UNCHANGED <<conns, pc>>
    BY <1>10 DEF Environment, tokenExpires, entryAges, linkBreaks
  <2> QED
    BY <2>1, <1>5, <1>9
<1>11. CASE UNCHANGED vars
  BY <1>11, <1>5 DEF vars
<1> HIDE DEF Goal
<1> QED
  BY <1>1, <1>2, <1>3, <1>6, <1>7, <1>8, <1>10, <1>11 DEF Next, HandlerStep, Goal

\* The connection registry implements ConnSlot: one stream per server, no
\* stream comes back, and no stream's end takes another one's entry.
THEOREM RegistryRefinesSlot == Spec => KeepsOneSlot
<1>1. Init => Slot!SlotInit
  BY DEF Init, Slot!SlotInit, Admitted, HasLeft, Live, Leaving
<1>2. IInv /\ [Next]_vars => [Slot!SlotNext]_(Slot!slotVars)
  BY StepRefines
<1> QED
  BY <1>1, <1>2, Inductive, PTL DEF Spec, KeepsOneSlot, Slot!SlotSpec

-----------------------------------------------------------------------------
(* What no handshake undoes.  A registration reads the token and the row,  *)
(* a reconnection the row, and both act on them in later steps.            *)

\* The steps of a handshake that has found its server's row.
Admitting == {"setOnline", "ack", "activate", "regAck"}

\* A token that was used or has expired is not good again, and no further
\* registration gets by it: of the registrations that TokenIsSingleUse is
\* about, all had read the token before the first of them activated the row
\* (handleRegister, ActivateServer).
TokenStaysSpent ==
    \A s \in Servers : row[s] # "none" /\ token[s] # "valid" =>
        /\ row'[s] # "none" /\ token'[s] # "valid"
        /\ \A st \in Streams : pc'[st] = "activate" /\ sid'[st] = s
                               => pc[st] = "activate" /\ sid[st] = s

\* The row of a deleted server does not come back, though handlers and sweeps
\* that read it earlier still write to it, and no handshake gets further
\* towards the registry that was not past the row already
\* (UpdateServerStatus, ActivateServer, handleHeartbeat).
DeletedStaysDeleted ==
    \A s \in Servers : row[s] = "deleted" =>
        /\ row'[s] = "deleted"
        /\ \A st \in Streams : pc'[st] \in Admitting /\ sid'[st] = s => pc'[st] = pc[st]

\* A step that changes neither rows nor tokens and moves no handler to a step
\* of Admitting.
LEMMA NothingAdmitted ==
    ASSUME UNCHANGED <<row, token, sid>>,
           \A st \in Streams : pc'[st] \in Admitting => pc'[st] = pc[st]
    PROVE  TokenStaysSpent /\ DeletedStaysDeleted
  BY DEF TokenStaysSpent, DeletedStaysDeleted, Admitting

\* A step of the monitor or of an administrator, which moves no handler.
LEMMA RowsWritten ==
    ASSUME UNCHANGED <<pc, sid>>,
           \A s \in Servers : row[s] # "none" => row'[s] # "none",
           \A s \in Servers : row[s] = "deleted" => row'[s] = "deleted",
           \A s \in Servers : row[s] # "none" /\ token[s] # "valid" => token'[s] # "valid"
    PROVE  TokenStaysSpent /\ DeletedStaysDeleted
  BY DEF TokenStaysSpent, DeletedStaysDeleted, Admitting

LEMMA StepSpends == IInv /\ [Next]_vars => TokenStaysSpent /\ DeletedStaysDeleted
<1> SUFFICES ASSUME IInv, [Next]_vars PROVE TokenStaysSpent /\ DeletedStaysDeleted
  OBVIOUS
<1> DEFINE Goal == TokenStaysSpent /\ DeletedStaysDeleted
<1> USE DEF Goto, dbVars, connVars, streamVars, adminVars, Present
<1>a. /\ row \in [Servers -> RowStatus] /\ token \in [Servers -> {"none", "valid", "expired"}]
      /\ pc \in [Streams -> Handler] /\ sid \in [Streams -> Servers \cup {NoServer}]
  BY DEF IInv, TypeOK
<1>b. \A st \in Streams : pc[st] \in Admitting \cup {"verified"} \cup Leaving => sid[st] \in Servers
  BY DEF IInv, AttachedIsAuthenticated, Attached, BootstrapIsBound, Admitting, Leaving
<1>1. ASSUME NEW st \in Streams, Accept(st) PROVE Goal
  <2>1. ASSUME NEW s \in Servers, NEW csr \in BOOLEAN, handleRegister(st, s, csr) PROVE Goal
    BY <1>a, <2>1 DEF handleRegister, TokenStaysSpent, DeletedStaysDeleted, Admitting
  <2>2. ASSUME NEW s \in Servers, NEW c \in issued \cup {NoServer}, performHeartbeatHandshake(st, s, c)
        PROVE  Goal
    BY <1>a, <2>2 DEF performHeartbeatHandshake, TokenStaysSpent, DeletedStaysDeleted, Admitting
  <2> QED
    BY <1>1, <2>1, <2>2 DEF Accept
<1>2. ASSUME NEW st \in Streams, ActivateServer(st) PROVE Goal
  BY <1>a, <1>b, <1>2 DEF ActivateServer, TokenStaysSpent, DeletedStaysDeleted, Admitting
<1>3. ASSUME NEW st \in Streams, GetServerByID(st) PROVE Goal
  BY <1>a, <1>b, <1>3 DEF GetServerByID, TokenStaysSpent, DeletedStaysDeleted, Admitting
<1>4. ASSUME NEW st \in Streams, handleHeartbeat(st) PROVE Goal
  BY <1>a, <1>b, <1>4
     DEF handleHeartbeat, UpdateServerStatus, TokenStaysSpent, DeletedStaysDeleted, Admitting
<1>5. ASSUME NEW st \in Streams, disconnectSetOffline(st) PROVE Goal
  BY <1>a, <1>b, <1>5
     DEF disconnectSetOffline, UpdateServerStatus, TokenStaysSpent, DeletedStaysDeleted, Admitting,
         Leaving
<1>6. ASSUME NEW st \in Streams,
             sendRegisterAck(st) \/ sendHeartbeatAck(st) \/ connMgrRegister(st) \/ onAgentConnected(st)
               \/ UnregisterIfCurrent(st) \/ disconnectNotify(st) \/ disconnectEndAll(st)
      PROVE  Goal
  <2>1. UNCHANGED <<row, token, sid>> /\ \E w : pc' = [pc EXCEPT ![st] = w] /\ w \notin Admitting
    BY <1>6 DEF sendRegisterAck, sendHeartbeatAck, connMgrRegister, onAgentConnected,
                UnregisterIfCurrent, disconnectNotify, disconnectEndAll, Admitting
  <2>2. \A t \in Streams : pc'[t] \in Admitting => pc'[t] = pc[t]
    BY <1>a, <2>1
  <2> QED
    BY <2>1, <2>2, NothingAdmitted
<1>7. ASSUME NEW st \in Streams, handleStreamHeartbeat(st) PROVE Goal
  BY <1>7, NothingAdmitted DEF handleStreamHeartbeat
<1>8. CASE Sweep
  <2>1. UNCHANGED <<pc, sid, token>>
    BY <1>8 DEF Sweep, sweepStart, sweepUnregister, sweepMarkStale, sweepActive, sweepQuery,
                sweepMarkOrphan, sweepEnd
  <2>2. UNCHANGED row \/ \E s : UpdateServerStatus(s, "offline")
    BY <1>8 DEF Sweep, sweepStart, sweepUnregister, sweepMarkStale, sweepActive, sweepQuery,
                sweepMarkOrphan, sweepEnd
  <2>3. \A s \in Servers : /\ row[s] # "none" => row'[s] # "none"
                           /\ row[s] = "deleted" => row'[s] = "deleted"
    BY <1>a, <2>2 DEF UpdateServerStatus
  <2> QED
    BY <2>1, <2>3, RowsWritten
<1>9. CASE Admin
  <2>1. UNCHANGED <<pc, sid>>
    BY <1>9 DEF Admin, handleCreateServer, handleSelfUnregister, handleUnregisterServer,
                handleDeleteServers
  <2>2. \A s \in Servers : /\ row[s] # "none" => row'[s] # "none"
                           /\ row[s] = "deleted" => row'[s] = "deleted"
                           /\ row[s] # "none" /\ token[s] # "valid" => token'[s] # "valid"
    BY <1>a, <1>9 DEF Admin, handleCreateServer, handleSelfUnregister, handleUnregisterServer,
                      handleDeleteServers
  <2> QED
    BY <2>1, <2>2, RowsWritten
<1>10. ASSUME NEW s \in Servers, AdminFinishes(s) PROVE Goal
  <2>1. UNCHANGED <<pc, sid>>
    BY <1>10 DEF AdminFinishes, deleteUnregister, selfUnregisterDelete
  <2>2. \A r \in Servers : /\ row[r] # "none" => row'[r] # "none"
                           /\ row[r] = "deleted" => row'[r] = "deleted"
                           /\ row[r] # "none" /\ token[r] # "valid" => token'[r] # "valid"
    BY <1>a, <1>10 DEF AdminFinishes, deleteUnregister, selfUnregisterDelete
  <2> QED
    BY <2>1, <2>2, RowsWritten
<1>11. CASE Environment
  <2>1. ASSUME NEW s \in Servers, tokenExpires(s) PROVE Goal
    BY <1>a, <2>1, RowsWritten DEF tokenExpires
  <2>2. ASSUME NEW s \in Servers, entryAges(s) PROVE Goal
    BY <2>2, NothingAdmitted DEF entryAges
  <2>3. ASSUME NEW st \in Streams, linkBreaks(st) PROVE Goal
    BY <2>3, NothingAdmitted DEF linkBreaks
  <2>4. CASE hubRestarts
    BY <2>4, NothingAdmitted DEF hubRestarts, Admitting
  <2> QED
    BY <1>11, <2>1, <2>2, <2>3, <2>4 DEF Environment
<1>12. CASE UNCHANGED vars
  BY <1>12, NothingAdmitted DEF vars
<1> HIDE DEF Goal
<1> QED
  BY <1>1, <1>2, <1>3, <1>4, <1>5, <1>6, <1>7, <1>8, <1>9, <1>10, <1>11, <1>12
     DEF Next, HandlerStep, Goal

\* A used or expired token opens nothing: the two registrations that violate
\* TokenIsSingleUse overlap, and a third that comes after them is refused
\* (handler.go handleRegister, store/servers.go ActivateServer).
THEOREM TokenSpentForGood == Spec => [][TokenStaysSpent]_vars
<1>1. IInv /\ [Next]_vars => [TokenStaysSpent]_vars
  BY StepSpends
<1> QED
  BY <1>1, Inductive, PTL DEF Spec

\* A deleted server stays deleted and lets no new handshake by, whatever
\* handlers and sweeps are still at work for it (handlers_servers.go
\* handleDeleteServer, store/servers.go UpdateServerStatus).
THEOREM DeletedForGood == Spec => [][DeletedStaysDeleted]_vars
<1>1. IInv /\ [Next]_vars => [DeletedStaysDeleted]_vars
  BY StepSpends
<1> QED
  BY <1>1, Inductive, PTL DEF Spec

-----------------------------------------------------------------------------
(* Notifications. *)

\* What the worker found out on the way to where it is: it drains one queue
\* because the other one was closed and empty, and nothing is sent to a
\* closed queue.
WorkerKnows ==
    /\ worker \in {"drainQueue", "returned"} => PriorityClosed /\ priorityQueue = <<>>
    /\ worker \in {"drainPriority", "returned"} => QueueClosed /\ queue = <<>>
    /\ worker = "returned" => job = NoJob

\* Close returns only after the worker.
ClosedAfterWorker == shutdown = "closed" => worker = "returned"

MailInv == NotifierTypeOK /\ WorkerKnows /\ ClosedAfterWorker /\ EntryIsPending

\* A new notifier (New) satisfies the inductive invariant.
LEMMA InitMailInv == NotifierInit => MailInv
<1> SUFFICES ASSUME NotifierInit PROVE MailInv
  OBVIOUS
<1>1. /\ queue \in Seq(Job) /\ Len(queue) <= QCap
      /\ priorityQueue \in Seq(securityEvents) /\ Len(priorityQueue) <= QCap
  BY NotifierAssumption DEF NotifierInit
<1>2. NotifierTypeOK
  <2>1. /\ agent \in [Servers -> {"down", "arriving", "up"}]
        /\ timer \in [Timers -> {"unused", "running", "fired", "sending", "sent", "stopped"}]
        /\ debounce \in [Servers -> Timers \cup {NoTimer}]
    BY DEF NotifierInit
  <2>2. connects \in 0..MaxConnects /\ https \in 0..MaxHttp
    BY NotifierAssumption DEF NotifierInit
  <2> QED
    BY <1>1, <2>1, <2>2 DEF NotifierInit, NotifierTypeOK
<1>3. WorkerKnows /\ ClosedAfterWorker /\ EntryIsPending
  BY DEF NotifierInit, WorkerKnows, ClosedAfterWorker, EntryIsPending
<1> QED
  BY <1>2, <1>3 DEF MailInv

\* enqueueJob keeps the types and capacities of both queues, and a closed
\* queue gets no job.
LEMMA EnqueueKeeps ==
    ASSUME NEW j \in Job, NotifierTypeOK, enqueueJob(j)
    PROVE  /\ queue' \in Seq(Job) /\ Len(queue') <= QCap
           /\ priorityQueue' \in Seq(securityEvents) /\ Len(priorityQueue') <= QCap
           /\ panicked' \in BOOLEAN
           /\ QueueClosed => UNCHANGED <<queue, priorityQueue>>
<1> USE NotifierAssumption DEF NotifierTypeOK
<1>1. CASE ~QueueClosed /\ Len(queue) < QCap
  <2>1. queue' = Append(queue, j) /\ UNCHANGED priorityQueue /\ panicked' = (panicked \/ QueueClosed)
    BY <1>1 DEF enqueueJob
  <2>2. queue' \in Seq(Job) /\ Len(queue') = Len(queue) + 1
    BY <2>1
  <2> QED
    BY <1>1, <2>1, <2>2
<1>2. CASE ~QueueClosed /\ ~(Len(queue) < QCap) /\ j \in securityEvents /\ Len(priorityQueue) < QCap
  <2>1. priorityQueue' = Append(priorityQueue, j) /\ UNCHANGED queue /\ panicked' = (panicked \/ QueueClosed)
    BY <1>2 DEF enqueueJob
  <2>2. priorityQueue' \in Seq(securityEvents) /\ Len(priorityQueue') = Len(priorityQueue) + 1
    BY <1>2, <2>1
  <2> QED
    BY <1>2, <2>1, <2>2
<1>3. CASE QueueClosed \/ ~(Len(queue) < QCap \/ (j \in securityEvents /\ Len(priorityQueue) < QCap))
  <2>1. UNCHANGED <<queue, priorityQueue>> /\ panicked' = (panicked \/ QueueClosed)
    BY <1>3 DEF enqueueJob
  <2> QED
    BY <2>1
<1> QED
  BY <1>1, <1>2, <1>3

\* The worker's receive from a queue keeps the types of both.
LEMMA TakeKeeps ==
    ASSUME NotifierTypeOK, takePriority \/ takeQueue
    PROVE  /\ queue' \in Seq(Job) /\ Len(queue') <= QCap
           /\ priorityQueue' \in Seq(securityEvents) /\ Len(priorityQueue') <= QCap
           /\ job' \in Job
<1> USE NotifierAssumption DEF NotifierTypeOK
<1>1. CASE takePriority
  <2>1. /\ priorityQueue # <<>> /\ UNCHANGED queue
        /\ job' = Head(priorityQueue) /\ priorityQueue' = Tail(priorityQueue)
    BY <1>1 DEF takePriority
  <2>2. /\ Head(priorityQueue) \in securityEvents
        /\ Tail(priorityQueue) \in Seq(securityEvents)
        /\ Len(Tail(priorityQueue)) = Len(priorityQueue) - 1
    BY <2>1
  <2> QED
    BY <2>1, <2>2 DEF Job
<1>2. CASE takeQueue
  <2>1. /\ queue # <<>> /\ UNCHANGED priorityQueue
        /\ job' = Head(queue) /\ queue' = Tail(queue)
    BY <1>2 DEF takeQueue
  <2>2. Head(queue) \in Job /\ Tail(queue) \in Seq(Job) /\ Len(Tail(queue)) = Len(queue) - 1
    BY <2>1
  <2> QED
    BY <2>1, <2>2
<1> QED
  BY <1>1, <1>2

\* A step that leaves the worker alone and at most enqueues keeps WorkerKnows.
LEMMA SendersKeep ==
    ASSUME WorkerKnows, UNCHANGED <<worker, job, shutdown>>,
           QueueClosed => UNCHANGED <<queue, priorityQueue>>
    PROVE  WorkerKnows'
  BY DEF WorkerKnows, QueueClosed, PriorityClosed

\* Every step of handlers, timers, worker and Close keeps the inductive
\* invariant.
LEMMA StepMailInv == MailInv /\ [NotifierNext]_notifierVars => MailInv'
<1> SUFFICES ASSUME MailInv, [NotifierNext]_notifierVars PROVE MailInv'
  OBVIOUS
<1> USE NotifierAssumption DEF MailInv
<1>1. ASSUME NEW s \in Servers, NEW t \in Timers, scheduleDebounced(s, t) PROVE MailInv'
  <2> USE <1>1 DEF scheduleDebounced, queueVars, workVars, countVars
  <2>1. NotifierTypeOK'
    BY DEF NotifierTypeOK, Stop
  <2>2. WorkerKnows' /\ ClosedAfterWorker'
    BY SendersKeep DEF ClosedAfterWorker
  <2>3. EntryIsPending'
    <3> SUFFICES ASSUME NEW z \in Servers, debounce'[z] # NoTimer
                 PROVE  owner'[debounce'[z]] = z /\ timer'[debounce'[z]] \in {"running", "fired"}
      BY DEF EntryIsPending
    <3>1. CASE z = s
      BY <3>1 DEF NotifierTypeOK, Stop
    <3>2. CASE z # s
      <4>1. debounce'[z] = debounce[z] /\ debounce[z] \in Timers
        BY <3>2 DEF NotifierTypeOK
      <4>2. owner[debounce[z]] = z /\ timer[debounce[z]] \in {"running", "fired"}
        BY <4>1 DEF EntryIsPending
      <4>3. debounce[s] # NoTimer => owner[debounce[s]] = s
        BY DEF EntryIsPending
      <4>4. timer'[debounce[z]] = timer[debounce[z]]
        BY <3>2, <4>1, <4>2, <4>3 DEF NotifierTypeOK, Stop
      <4> QED
        BY <4>1, <4>2, <4>4
    <3> QED
      BY <3>1, <3>2
  <2> QED
    BY <2>1, <2>2, <2>3
<1>2. ASSUME NEW s \in Servers, cancelDebounce(s) PROVE MailInv'
  <2> USE <1>2 DEF cancelDebounce, queueVars, workVars
  <2>a. connects' \in 0..MaxConnects
    BY NotifierAssumption DEF NotifierTypeOK
  <2>b. /\ agent' \in [Servers -> {"down", "arriving", "up"}]
        /\ timer' \in [Timers -> {"unused", "running", "fired", "sending", "sent", "stopped"}]
        /\ debounce' \in [Servers -> Timers \cup {NoTimer}]
    <3>1. agent' \in [Servers -> {"down", "arriving", "up"}]
      BY DEF NotifierTypeOK
    <3>2. timer' \in [Timers -> {"unused", "running", "fired", "sending", "sent", "stopped"}]
      BY DEF NotifierTypeOK, Stop
    <3>3. debounce' \in [Servers -> Timers \cup {NoTimer}]
      BY DEF NotifierTypeOK
    <3> QED
      BY <3>1, <3>2, <3>3
  <2>1. NotifierTypeOK'
    BY <2>a, <2>b DEF NotifierTypeOK
  <2>2. WorkerKnows' /\ ClosedAfterWorker'
    BY SendersKeep DEF ClosedAfterWorker
  <2>3. EntryIsPending'
    <3> SUFFICES ASSUME NEW z \in Servers, debounce'[z] # NoTimer
                 PROVE  owner'[debounce'[z]] = z /\ timer'[debounce'[z]] \in {"running", "fired"}
      BY DEF EntryIsPending
    <3>1. debounce'[z] = debounce[z] /\ debounce[z] \in Timers
      BY DEF NotifierTypeOK
    <3>2. owner[debounce[z]] = z /\ timer[debounce[z]] \in {"running", "fired"}
      BY <3>1 DEF EntryIsPending
    <3>3. debounce[s] # NoTimer => owner[debounce[s]] = s /\ z # s
      BY DEF EntryIsPending, NotifierTypeOK
    <3>4. timer'[debounce[z]] = timer[debounce[z]]
      BY <3>1, <3>2, <3>3 DEF NotifierTypeOK, Stop
    <3> QED
      BY <3>1, <3>2, <3>4
  <2> QED
    BY <2>1, <2>2, <2>3
<1>3. ASSUME NEW s \in Servers, notifyOnline(s) PROVE MailInv'
  <2> USE <1>3 DEF notifyOnline, timerVars, workVars, countVars
  <2>1. QueueClosed => UNCHANGED <<queue, priorityQueue>>
    BY EnqueueKeeps DEF Job
  <2>2. NotifierTypeOK'
    BY EnqueueKeeps DEF NotifierTypeOK, Job
  <2>3. WorkerKnows' /\ ClosedAfterWorker'
    BY <2>1, SendersKeep DEF ClosedAfterWorker
  <2>4. EntryIsPending'
    BY DEF EntryIsPending
  <2> QED
    BY <2>2, <2>3, <2>4
<1>4. ASSUME NEW j \in Job, notifyHttp(j) PROVE MailInv'
  <2> USE <1>4 DEF notifyHttp, timerVars, workVars
  <2>1. QueueClosed => UNCHANGED <<queue, priorityQueue>>
    BY EnqueueKeeps
  <2>2. NotifierTypeOK'
    BY EnqueueKeeps DEF NotifierTypeOK
  <2>3. WorkerKnows' /\ ClosedAfterWorker'
    BY <2>1, SendersKeep DEF ClosedAfterWorker
  <2>4. EntryIsPending'
    BY DEF EntryIsPending
  <2> QED
    BY <2>2, <2>3, <2>4
<1>5. ASSUME NEW t \in Timers, timerFires(t) PROVE MailInv'
  <2> USE <1>5 DEF timerFires, queueVars, workVars, countVars
  <2>1. NotifierTypeOK'
    BY DEF NotifierTypeOK
  <2>2. WorkerKnows' /\ ClosedAfterWorker'
    BY SendersKeep DEF ClosedAfterWorker
  <2>3. EntryIsPending'
    BY DEF EntryIsPending, NotifierTypeOK
  <2> QED
    BY <2>1, <2>2, <2>3
<1>6. ASSUME NEW t \in Timers, debounceExpired(t) PROVE MailInv'
  <2> USE <1>6 DEF debounceExpired, queueVars, workVars, countVars
  <2>1. NotifierTypeOK'
    BY DEF NotifierTypeOK
  <2>2. WorkerKnows' /\ ClosedAfterWorker'
    BY SendersKeep DEF ClosedAfterWorker
  <2>3. EntryIsPending'
    BY DEF EntryIsPending, NotifierTypeOK
  <2> QED
    BY <2>1, <2>2, <2>3
<1>7. ASSUME NEW t \in Timers, notifyOffline(t) PROVE MailInv'
  <2> USE <1>7 DEF notifyOffline, workVars, countVars
  <2>1. QueueClosed => UNCHANGED <<queue, priorityQueue>>
    BY EnqueueKeeps DEF Job
  <2>2. NotifierTypeOK'
    BY EnqueueKeeps DEF NotifierTypeOK, Job
  <2>3. WorkerKnows' /\ ClosedAfterWorker'
    BY <2>1, SendersKeep DEF ClosedAfterWorker
  <2>4. EntryIsPending'
    BY DEF EntryIsPending, NotifierTypeOK
  <2> QED
    BY <2>2, <2>3, <2>4
<1>8. ASSUME workerPriority PROVE MailInv'
  <2> USE <1>8 DEF workerPriority, timerVars, countVars
  <2>1. NotifierTypeOK'
    BY TakeKeeps DEF NotifierTypeOK
  <2>2. WorkerKnows'
    BY DEF WorkerKnows, takePriority, PriorityClosed, QueueClosed
  <2>3. ClosedAfterWorker' /\ EntryIsPending'
    BY DEF ClosedAfterWorker, EntryIsPending
  <2> QED
    BY <2>1, <2>2, <2>3
<1>9. ASSUME workerBoth PROVE MailInv'
  <2> USE <1>9 DEF workerBoth, timerVars, countVars
  <2>1. NotifierTypeOK'
    BY TakeKeeps DEF NotifierTypeOK
  <2>2. WorkerKnows'
    BY DEF WorkerKnows, PriorityClosed, QueueClosed
  <2>3. ClosedAfterWorker' /\ EntryIsPending'
    BY DEF ClosedAfterWorker, EntryIsPending
  <2> QED
    BY <2>1, <2>2, <2>3
<1>10. ASSUME drainQueue PROVE MailInv'
  <2> USE <1>10 DEF drainQueue, timerVars, countVars
  <2>1. NotifierTypeOK'
    BY TakeKeeps DEF NotifierTypeOK
  <2>2. WorkerKnows'
    BY DEF WorkerKnows, PriorityClosed, QueueClosed, takeQueue, takePriority, Free
  <2>3. ClosedAfterWorker' /\ EntryIsPending'
    BY DEF ClosedAfterWorker, EntryIsPending
  <2> QED
    BY <2>1, <2>2, <2>3
<1>11. ASSUME processJob PROVE MailInv'
  <2> USE <1>11 DEF processJob, timerVars, queueVars, countVars
  <2>1. NotifierTypeOK'
    BY DEF NotifierTypeOK
  <2>2. WorkerKnows'
    BY DEF WorkerKnows, PriorityClosed, QueueClosed
  <2>3. ClosedAfterWorker' /\ EntryIsPending'
    BY DEF ClosedAfterWorker, EntryIsPending
  <2> QED
    BY <2>1, <2>2, <2>3
<1>12. ASSUME \/ signalled \/ gracefulStopReturns
              \/ closeQueue \/ closePriority \/ closeReturns
       PROVE  MailInv'
  <2> USE <1>12 DEF signalled, gracefulStopReturns, closeQueue,
                    closePriority, closeReturns, ShutdownStep, timerVars, queueVars, workVars, countVars
  <2>1. NotifierTypeOK'
    BY DEF NotifierTypeOK
  <2>2. WorkerKnows'
    BY DEF WorkerKnows, PriorityClosed, QueueClosed
  <2>3. ClosedAfterWorker' /\ EntryIsPending'
    BY DEF ClosedAfterWorker, EntryIsPending
  <2> QED
    BY <2>1, <2>2, <2>3
<1>13. ASSUME closeTimers PROVE MailInv'
  <2> USE <1>13 DEF closeTimers, ShutdownStep, queueVars, workVars, countVars
  <2>1. NotifierTypeOK'
    BY DEF NotifierTypeOK
  <2>2. WorkerKnows'
    BY DEF WorkerKnows, PriorityClosed, QueueClosed
  <2>3. ClosedAfterWorker' /\ EntryIsPending'
    BY DEF ClosedAfterWorker, EntryIsPending
  <2> QED
    BY <2>1, <2>2, <2>3
<1>14. CASE UNCHANGED notifierVars
  <2>1. NotifierTypeOK'
    BY <1>14 DEF NotifierTypeOK, notifierVars
  <2>2. WorkerKnows' /\ ClosedAfterWorker' /\ EntryIsPending'
    BY <1>14 DEF WorkerKnows, ClosedAfterWorker, EntryIsPending, PriorityClosed, QueueClosed, notifierVars
  <2> QED
    BY <2>1, <2>2
<1> QED
  BY <1>1, <1>2, <1>3, <1>4, <1>5, <1>6, <1>7, <1>8, <1>9, <1>10, <1>11, <1>12, <1>13, <1>14
     DEF NotifierNext, Callback, Worker, Close

\* The inductive invariant holds in every reachable state.
LEMMA MailInductive == NotifierSpec => []MailInv
  BY InitMailInv, StepMailInv, PTL DEF NotifierSpec

\* Every variable keeps its type and no job queue holds more than its capacity
\* (Notifier and its callers).
THEOREM NotifierTypeCorrect == NotifierSpec => []NotifierTypeOK
<1>1. MailInv => NotifierTypeOK
  BY DEF MailInv
<1> QED
  BY <1>1, MailInductive, PTL

\* When Close has returned, every job that enqueueJob accepted was processed,
\* for any capacity and wherever the worker was when the queues were closed.
THEOREM CloseDrains == NotifierSpec => []DrainedAtClose
<1>1. MailInv => DrainedAtClose
  BY DEF MailInv, ClosedAfterWorker, WorkerKnows, DrainedAtClose
<1> QED
  BY <1>1, MailInductive, PTL

\* A timer in the debounce map belongs to that server and its notice is still
\* to be sent (scheduleDebounced, cancelDebounce and the callbacks).
THEOREM EntriesArePending == NotifierSpec => []EntryIsPending
<1>1. MailInv => EntryIsPending
  BY DEF MailInv
<1> QED
  BY <1>1, MailInductive, PTL
=============================================================================
