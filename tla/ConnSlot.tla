------------------------------ MODULE ConnSlot ------------------------------
(***************************************************************************)
(* What the hub promises about the agent connections it keeps              *)
(* (hub/internal/connmgr): every server has at most one current stream; a  *)
(* stream becomes current at most once in its life; when its handler       *)
(* leaves, it takes nobody's entry but its own; and once it left it is     *)
(* never current again.  Entries may be evicted from outside (the stale    *)
(* sweep, deleting the server), and a restart of the hub drops them all.   *)
(* AgentRegistry is shown to implement this specification.                 *)
(***************************************************************************)
CONSTANTS Servers, Streams, NoStream

VARIABLES
    cur,       \* cur[s]: the stream registered for server s, or NoStream
    admitted,  \* the streams that have ever been current
    left       \* the admitted streams whose handler has left

slotVars == <<cur, admitted, left>>

SlotInit ==
    /\ cur = [s \in Servers |-> NoStream]
    /\ admitted = {}
    /\ left = {}

\* A new stream becomes the current one of s, in the place of any older one.
Admit(s, st) ==
    /\ st \notin admitted
    /\ cur' = [cur EXCEPT ![s] = st]
    /\ admitted' = admitted \cup {st}
    /\ UNCHANGED left

\* The handler of st leaves: only entries that hold st itself are cleared.
Leave(st) ==
    /\ st \in admitted \ left
    /\ cur' = [s \in Servers |-> IF cur[s] = st THEN NoStream ELSE cur[s]]
    /\ left' = left \cup {st}
    /\ UNCHANGED admitted

\* The entry of s is dropped while its handler goes on.
Evict(s) ==
    /\ cur' = [cur EXCEPT ![s] = NoStream]
    /\ UNCHANGED <<admitted, left>>

\* A restart: no entry survives and every admitted stream has left.
DropAll ==
    /\ cur' = [s \in Servers |-> NoStream]
    /\ left' = admitted
    /\ UNCHANGED admitted

SlotNext ==
    \/ \E s \in Servers, st \in Streams : Admit(s, st)
    \/ \E st \in Streams : Leave(st)
    \/ \E s \in Servers : Evict(s)
    \/ DropAll

SlotSpec == SlotInit /\ [][SlotNext]_slotVars
=============================================================================
