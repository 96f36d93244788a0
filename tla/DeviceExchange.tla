--------------------------- MODULE DeviceExchange ---------------------------
(***************************************************************************)
(* Clients and FMU devices exchanging messages over the simulated network: *)
(* the composition of DeviceClient and FmuDevice in one simulation.        *)
(***************************************************************************)
EXTENDS DeviceClient, FmuDevice

vars == <<simulationVars, clientVars, deviceVars>>

Init == SimulationInit /\ ClientInit /\ DeviceInit

(* The simulator advances to the next tick when nothing is due any more.   *)
Tick ==
    /\ Running
    /\ \A c \in Clients : ClientIdle(c)
    /\ \A d \in Devices : DeviceIdle(d)
    /\ \A p \in net : now < p.left + MaxDelay
    /\ now' = now + 1
    /\ UNCHANGED <<status, nextPayloadId, bound, net, dropped, clientVars, deviceVars>>

(* Simulator::Run() has returned, or the program is gone. Any other state  *)
(* in which no step is possible is a deadlock of the event loop.           *)
Ended == ~Running /\ UNCHANGED vars

Next ==
    \/ ClientNext /\ UNCHANGED deviceVars
    \/ DeviceNext /\ UNCHANGED clientVars
    \/ (\E p \in net : DropPacket(p)) /\ UNCHANGED <<clientVars, deviceVars>>
    \/ Tick
    \/ Ended

Spec == Init /\ [][Next]_vars

TypeOK == SimulationTypeOK /\ ClientTypeOK /\ DeviceTypeOK

Started(d) == deviceState[d] # "installed"

(* What a pending call dereferences is there: Process() has a peer to send *)
(* to, and an application whose StartApplication() ran has its FMU.        *)
CallsPrepared ==
    /\ \A c \in Clients : processEvent[c] # Never => RequestPeer[c] # NoPeer
    /\ \A d \in Devices :
         /\ fmu[d] # NoFmu <=> Started(d)
         /\ dataEvent[d] # Never => DataPeer[d] # NoDataPeer /\ Started(d)
         /\ writeDataEvent[d] # Never => Started(d)

-----------------------------------------------------------------------------
(* The ledger of a client (DeviceClient::Process and HandleRead).          *)

(* Every unanswered request, and no answered one, is found under exactly   *)
(* one payload id: HandleRead() can still match its reply, and no reply    *)
(* can be taken for that of another request. Ids come from one counter     *)
(* that all clients and devices of the process draw from.                  *)
LedgerConsistent ==
    \A c \in Clients :
        /\ Len(replyTimestamps[c]) = Len(sendRequestTimestamps[c])
        /\ Len(receiveReplyTimestamps[c]) = Len(sendRequestTimestamps[c])
        /\ \A id \in DOMAIN sentPayloadIds[c] : ~Answered(c, sentPayloadIds[c][id])
        /\ \A slot \in Slots(c) : ~Answered(c, slot) =>
             \E id \in DOMAIN sentPayloadIds[c] : sentPayloadIds[c][id] = slot
        /\ \A id1, id2 \in DOMAIN sentPayloadIds[c] :
             sentPayloadIds[c][id1] = sentPayloadIds[c][id2] => id1 = id2

(* What keeps the ledger consistent. A slot has both times of its answer   *)
(* or none of them, and requests are found under ids already handed out.   *)
AnswersComplete ==
    \A c \in Clients :
        /\ \A slot \in Slots(c) : replyTimestamps[c][slot] = Never <=> ~Answered(c, slot)
        /\ \A id \in DOMAIN sentPayloadIds[c] : Issued(id)

(* Messages an application has yet to send, or the network to deliver.     *)
Replies  == UNION {replyEvents[d] : d \in Devices}
Messages == net \cup (UNION {sendEvents[c] : c \in Clients}) \cup Replies

(* A message has an id already handed out, or the invalid one, and its     *)
(* time is no future one; when some request is open under that id, the     *)
(* message is not older than the request.                                  *)
Timely(seq, ts) ==
    /\ seq = INVALID \/ Issued(seq)
    /\ ts <= now
    /\ \A c \in Clients : seq \in DOMAIN sentPayloadIds[c] =>
         sendRequestTimestamps[c][sentPayloadIds[c][seq]] <= ts

MessagesTimely == \A m \in Messages : Timely(m.seq, m.ts)

LedgerInv == LedgerConsistent /\ AnswersComplete /\ MessagesTimely

(* What the results are computed from: an answer is made between its       *)
(* request and its receipt.                                                *)
TimesInOrder ==
    \A c \in Clients : \A slot \in Slots(c) : Answered(c, slot) =>
        /\ sendRequestTimestamps[c][slot] <= replyTimestamps[c][slot]
        /\ replyTimestamps[c][slot] <= receiveReplyTimestamps[c][slot]

-----------------------------------------------------------------------------
(* The traffic between them.                                               *)

(* A message of client c: a request on its way to the device, or a reply   *)
(* on its way back, in the network or waiting for the processing time.     *)
RequestOf(c, p) == p.src = ClientAddress(c)
ReplyTo(c, m) == m.dst = ClientAddress(c) /\ m.seq \in DOMAIN sentPayloadIds[c]

(* Each request that an application still handles belongs to one open slot *)
(* of the client it came from, and carries the time of that slot: no       *)
(* message of another client, and none with an id of its own, is in its    *)
(* place.                                                                  *)
RequestsBelongToSlots ==
    \A c \in Clients :
        /\ \A e \in sendEvents[c] :
             /\ e.seq \in DOMAIN sentPayloadIds[c]
             /\ sendRequestTimestamps[c][sentPayloadIds[c][e.seq]] = e.ts
        /\ clientState[c] = "up" => \A p \in net : RequestOf(c, p) =>
             /\ p.seq \in DOMAIN sentPayloadIds[c]
             /\ sendRequestTimestamps[c][sentPayloadIds[c][p.seq]] = p.ts

(* A request answered by a device is still open when its reply arrives:    *)
(* HandleRead() takes a message for a reply iff it is one. A request has   *)
(* one message on its way, counting those an application holds back.       *)
IdsOnTheWay(c) ==
    [toSend   |-> {e.seq : e \in sendEvents[c]},
     toDevice |-> {p.seq : p \in {q \in net : RequestOf(c, q)}},
     atDevice |-> {e.seq : e \in {x \in Replies : ReplyTo(c, x)}},
     toClient |-> {p.seq : p \in {q \in net : ReplyTo(c, q)}}]

OneMessagePerRequest ==
    \A c \in Clients : clientState[c] = "up" =>
        LET ids == IdsOnTheWay(c) IN
        \A x, y \in DOMAIN ids : x # y => ids[x] \cap ids[y] = {}

(* The longest a request can take when nothing is lost, no application     *)
(* stops and the program goes on.                                          *)
LongestOf(delays) == CHOOSE x \in delays : \A y \in delays : y <= x
ResponseTime == LongestOf(ClientDelays) + LongestOf(DeviceDelays) + 2 * MaxDelay

(* Every request is answered within that time unless a message was lost:   *)
(* no Send() that m_sendEvent no longer refers to, and no reply scheduled  *)
(* while an earlier one is pending, is forgotten.                          *)
AnsweredInTime ==
    \A c \in Clients : \A id \in DOMAIN sentPayloadIds[c] :
        \/ status = "aborted"
        \/ id \in dropped
        \/ clientState[c] = "stopped"
        \/ now <= sendRequestTimestamps[c][sentPayloadIds[c][id]] + ResponseTime

(* README, "send_data_endpoint: client endpoint node ID for sending data": *)
(* what a device sends once every client is up is addressed to a socket    *)
(* that is open.                                                           *)
DataReachesClient ==
    (\A c \in Clients : clientState[c] = "up") =>
        \A d \in Devices : \A p \in net : p.src = DeviceAddress(d) => p.dst \in bound

-----------------------------------------------------------------------------
(* The FMUs of the devices.                                                *)

(* Devices of one shared name, and no others, work on one FMU, and the     *)
(* collection holds that one, whatever the order they start in.            *)
OneFmuPerName ==
    \A d1, d2 \in Devices : Started(d1) /\ Started(d2) =>
        /\ fmu[d1] = fmu[d2] <=>
             d1 = d2 \/ (SharedName[d1] # NoName /\ SharedName[d1] = SharedName[d2])
        /\ SharedName[d1] # NoName => sharedFmus[SharedName[d1]] = fmu[d1]

(* An FMU that a message or a result row made step has reached the time    *)
(* that message or row is about, for every device that shares it, and the  *)
(* rows of a results file are never older than the time they are for.      *)
FmuReachesNow ==
    /\ \A d \in Devices : fmu[d] # NoFmu => fmuTime[fmu[d]] >= lastStepped[fmu[d]]
    /\ \A d \in Devices : \A i \in DOMAIN rows[d] :
         /\ rows[d][i].fmu >= rows[d][i].at
         /\ i > 1 => rows[d][i].fmu >= rows[d][i - 1].fmu

(* No step takes an instance some device uses back in time: the FMU a      *)
(* device shares is not initialized a second time.                         *)
FmuTimeNeverBack ==
    [][\A d \in Devices : fmu[d] # NoFmu => fmuTime'[fmu[d]] >= fmuTime[fmu[d]]]_vars

(* What keeps the FMUs apart: the instance of a name was created by a      *)
(* device of that name, and an instance is stepped by those who use it,    *)
(* and initialized before that.                                            *)
FmusByName ==
    /\ \A d \in Devices : Started(d) =>
         fmu[d] = IF SharedName[d] = NoName THEN d ELSE sharedFmus[SharedName[d]]
    /\ \A n \in SharedNames : sharedFmus[n] # NoFmu =>
         /\ SharedName[sharedFmus[n]] = n
         /\ fmu[sharedFmus[n]] = sharedFmus[n]
    /\ \A d \in Devices :
         /\ ~Started(d) => lastStepped[d] = 0
         /\ Started(d) => \A i \in DOMAIN rows[d] : rows[d][i].fmu <= fmuTime[fmu[d]]
         /\ ~Started(d) => rows[d] = <<>>

FmuInv == FmusByName /\ FmuReachesNow

(* defaultDoStepCallbackImpl() claims to integrate the model "until        *)
(* current simulation time is reached": its time is then at most one       *)
(* communication step past the simulation's.                               *)
StopsAtCurrentTime ==
    \A d \in Devices : fmu[d] # NoFmu /\ lastStepped[fmu[d]] = now =>
        fmuTime[fmu[d]] <= now + CommStep

-----------------------------------------------------------------------------
(* The clients implement the ledger their results are read from.           *)

SlotsOf(c) ==
    [i \in Slots(c) |->
        [requested |-> sendRequestTimestamps[c][i],
         answer    |-> [answered |-> replyTimestamps[c][i],
                        received |-> receiveReplyTimestamps[c][i]]]]

Ledger == INSTANCE RequestLedger WITH
    clock <- now, ledger <- [c \in Clients |-> SlotsOf(c)]

LedgerSpec == Ledger!Spec

=============================================================================
