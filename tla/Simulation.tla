----------------------------- MODULE Simulation -----------------------------
(***************************************************************************)
(* What every application of model/ shares: the clock of the discrete      *)
(* event simulator, the UDP sockets and packets of the simulated network,  *)
(* and the process-wide counter that numbers payloads.                     *)
(*                                                                         *)
(* The simulator, the sockets and the network are ns-3's and Hypatia's,    *)
(* outside this repository. They are modelled from how model/ uses them: a *)
(* scheduled event runs exactly at its time, events of one time run in any *)
(* order (ns-3 orders them by insertion over the whole simulation), and a  *)
(* packet may be lost or overtake another but is never duplicated.         *)
(***************************************************************************)
EXTENDS Integers, Sequences, FiniteSets

CONSTANTS
    Nodes,     \* nodes of the ns-3 topology
    IdSpace,   \* number of values of uint32_t, the type of a payload id
    MaxTime,   \* bound: Simulator::Stop ends the run at this tick
    MaxDelay,  \* bound: a packet arrives or is lost within this many ticks
    Lossy      \* TRUE iff the network may lose a packet

ASSUME SimulationAssumption ==
    /\ IdSpace \in Nat \ {0, 1}
    /\ MaxTime \in Nat
    /\ MaxDelay \in Nat
    /\ Lossy \in BOOLEAN

VARIABLES
    now,            \* Simulator::Now(), in ticks
    status,         \* "running", or "aborted" after an ns-3 abort or a crash
    nextPayloadId,  \* Payload::m_global_payload_id
    bound,          \* addresses an open UDP socket is bound to
    net,            \* packets in flight
    dropped         \* history: sequence numbers of the packets that got lost

simulationVars == <<now, status, nextPayloadId, bound, net, dropped>>

-----------------------------------------------------------------------------
(* Payload ids (payload.h, payload.cc).                                    *)

INVALID == 0
FIRST   == 1

PayloadIds == 0 .. IdSpace - 1

(* The post-increment in the constructors that take a buffer or a size, at *)
(* the width of uint32_t.                                                  *)
NextIdKept(id) == id
NextId(id) == (id + 1) % IdSpace

(* Bound: the model stops handing out ids when the counter has wrapped.    *)
FreshIdLeft == nextPayloadId # INVALID

(* An id some payload already carries.                                     *)
Issued(id) == /\ id # INVALID
              /\ nextPayloadId = INVALID \/ id < nextPayloadId

-----------------------------------------------------------------------------
(* Times, addresses, packets.                                              *)

Time  == Nat
Never == -1   \* an event that is not scheduled, a timestamp not yet taken

DevicePort == 1025   \* the port the factories give to every device

Address == [node : Nodes, port : Nat]

(* A packet is its SeqTsHeader (seq, ts) with its UDP addresses; left is   *)
(* when it left its source. The message text is not modelled.              *)
Packet == [src : Address, dst : Address, seq : PayloadIds, ts : Time, left : Time]

(* A pending call of Send(): when it runs and what it sends.               *)
SendEvent == [at : Time, dst : Address, seq : PayloadIds, ts : Time]

PacketOf(e, src) ==
    [src |-> src, dst |-> e.dst, seq |-> e.seq, ts |-> e.ts, left |-> now]

(* Simulator::Stop() ends the run before the events of its own tick.       *)
Running == status = "running" /\ now < MaxTime

Abort == status' = "aborted"

(* A packet leaves the network without reaching an application: lost on    *)
(* its way, or no socket is bound to its destination.                      *)
DropPacket(p) ==
    /\ Running
    /\ p \in net
    /\ Lossy \/ p.dst \notin bound
    /\ net' = net \ {p}
    /\ dropped' = dropped \cup {p.seq}
    /\ UNCHANGED <<now, status, nextPayloadId, bound>>

SimulationInit ==
    /\ now = 0
    /\ status = "running"
    /\ nextPayloadId = FIRST
    /\ bound = {}
    /\ net = {}
    /\ dropped = {}

SimulationTypeOK ==
    /\ now \in Time
    /\ status \in {"running", "aborted"}
    /\ nextPayloadId \in PayloadIds
    /\ bound \subseteq Address
    /\ net \subseteq Packet
    /\ dropped \subseteq PayloadIds

=============================================================================
