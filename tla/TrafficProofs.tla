---------------------------- MODULE TrafficProofs ----------------------------
(***************************************************************************)
(* Proofs about the messages between clients and devices: whose they are,  *)
(* that a request has one of them, and that it is answered in time. They   *)
(* rest on who owns an address, as the applications tell each other apart  *)
(* by their addresses only.                                                *)
(***************************************************************************)
EXTENDS DeviceExchangeProofs

-----------------------------------------------------------------------------
(* What the theorems ask of the topology. The factories satisfy the first  *)
(* one, since they give no application a stop time; the other two say that *)
(* the pairs of send_devices_endpoint_pairs go from clients to devices.    *)

(* No client can get the address a device has given up.                    *)
DevicesKeepNodes ==
    \A c \in Clients, d \in StoppingDevices : ClientNode[c] # DeviceNode[d]

PeersAreOthers == \A c \in Clients : RequestPeer[c] # ClientNode[c]

PeersAreNoClients == \A c, x \in Clients : RequestPeer[c] # ClientNode[x]

-----------------------------------------------------------------------------
(* Who owns an address.                                                    *)

ClientUp(c) == clientState[c] = "up"
DeviceUp(d) == deviceState[d] = "up"
ClientStarted(c) == clientState[c] # "installed"

(* Only a device with a stop time stops.                                   *)
DevicesStayUp ==
    \A d \in Devices : Started(d) => DeviceUp(d) \/ d \in StoppingDevices

(* Ports are given in the order of the starts, and a client that has not   *)
(* started has made no request.                                            *)
PortsInOrder ==
    /\ nextPort >= DevicePort
    /\ \A c \in Clients :
         IF ClientStarted(c) THEN port[c] >= DevicePort /\ port[c] < nextPort
         ELSE /\ processEvent[c] = Never
              /\ DOMAIN sentPayloadIds[c] = {}
              /\ sendEvents[c] = {}
    /\ \A c, x \in Clients :
         ClientStarted(c) /\ ClientStarted(x) /\ port[c] = port[x] => c = x

(* An open socket is bound, and no two applications share an address.      *)
AddressesOwned ==
    /\ \A c \in Clients : ClientUp(c) => ClientAddress(c) \in bound
    /\ \A d \in Devices : DeviceUp(d) => DeviceAddress(d) \in bound
    /\ \A c \in Clients, d \in Devices :
         ClientUp(c) /\ DeviceUp(d) => ClientAddress(c) # DeviceAddress(d)
    /\ \A d, x \in Devices :
         DeviceUp(d) /\ DeviceUp(x) /\ DeviceAddress(d) = DeviceAddress(x) => d = x

AddressInv == PortsInOrder /\ AddressesOwned

-----------------------------------------------------------------------------
(* Whose a message is.                                                     *)

(* An open request of client c, by its id and time.                        *)
OpenRequest(c, seq, ts) ==
    /\ seq \in DOMAIN sentPayloadIds[c]
    /\ sendRequestTimestamps[c][sentPayloadIds[c][seq]] = ts

PeerAddress(c) == [node |-> RequestPeer[c], port |-> DevicePort]

(* What a client has yet to send, and what it has sent, are its requests.  *)
(* Any other packet was sent by a device.                                  *)
RequestsInv ==
    /\ \A c \in Clients : \A e \in sendEvents[c] :
         OpenRequest(c, e.seq, e.ts) /\ e.dst = PeerAddress(c)
    /\ \A p \in net :
         \/ \E c \in Clients : /\ ClientStarted(c)
                               /\ RequestOf(c, p)
                               /\ OpenRequest(c, p.seq, p.ts)
                               /\ p.dst = PeerAddress(c)
         \/ \E d \in Devices : Started(d) /\ p.src = DeviceAddress(d)
    /\ \A d \in Devices : replyEvents[d] # {} => Started(d)

(* A message has an id of its own, unless it is the invalid one, and is at *)
(* one place: in the network, or at one of the applications.               *)
OneMessagePerId ==
    /\ \A m, x \in Messages : m.seq = x.seq /\ m.seq # INVALID => m = x
    /\ \A c, x \in Clients : \A e \in sendEvents[c] : e \in sendEvents[x] => c = x
    /\ \A d, x \in Devices : \A e \in replyEvents[d] :
         e \in replyEvents[x] /\ e.seq # INVALID => d = x
    /\ \A c \in Clients, d \in Devices : sendEvents[c] \cap replyEvents[d] = {}

TrafficInv == AddressInv /\ DevicesStayUp /\ RequestsInv /\ OneMessagePerId

-----------------------------------------------------------------------------
(* Where the message of an open request is, and since when.                *)

HasLongest(delays) == \E x \in delays : \A y \in delays : y <= x

(* Nothing that is due is passed over: the clock waits for it.             *)
NothingOverdue ==
    /\ \A c \in Clients : \A e \in sendEvents[c] : now <= e.at
    /\ \A d \in Devices : \A e \in replyEvents[d] : now <= e.at
    /\ \A p \in net : now <= p.left + MaxDelay

Asked == LongestOf(ClientDelays)
Returned == LongestOf(ClientDelays) + MaxDelay + LongestOf(DeviceDelays)

(* The message of request id of client c, made at time t.                  *)
ToSend(c, id, t)   == \E e \in sendEvents[c] : e.seq = id /\ e.at <= t + Asked
ToDevice(c, id, t) == \E p \in net : /\ p.seq = id
                                     /\ p.src = ClientAddress(c)
                                     /\ p.dst = PeerAddress(c)
                                     /\ p.left <= t + Asked
AtDevice(c, id, t) == \E d \in Devices : \E e \in replyEvents[d] :
                          /\ e.seq = id
                          /\ e.dst = ClientAddress(c)
                          /\ e.at <= t + Returned
ToClient(c, id, t) == \E p \in net : /\ p.seq = id
                                     /\ p.dst = ClientAddress(c)
                                     /\ p.left <= t + Returned

Pursued(c, id, t) ==
    \/ ToSend(c, id, t)
    \/ ToDevice(c, id, t)
    \/ AtDevice(c, id, t)
    \/ ToClient(c, id, t)

RequestsPursued ==
    \A c \in Clients : \A id \in DOMAIN sentPayloadIds[c] :
        \/ status = "aborted"
        \/ id \in dropped
        \/ clientState[c] = "stopped"
        \/ Pursued(c, id, sendRequestTimestamps[c][sentPayloadIds[c][id]])

ProgressInv == NothingOverdue /\ RequestsPursued

-----------------------------------------------------------------------------
(* Addresses.                                                              *)

LEMMA AddressInit == Init => AddressInv
  BY DEF Init, SimulationInit, ClientInit, DeviceInit, AddressInv, PortsInOrder,
         AddressesOwned, ClientStarted, ClientUp, DeviceUp, DevicePort

(* Steps that neither start nor stop an application nor make a request.    *)
LEMMA AddressQuiet ==
    ASSUME TypeInv, AddressInv,
           UNCHANGED <<nextPort, clientState, port, bound, deviceState>>,
           \A c \in Clients : ~ClientStarted(c) =>
               /\ processEvent'[c] = processEvent[c]
               /\ DOMAIN sentPayloadIds'[c] \subseteq DOMAIN sentPayloadIds[c]
               /\ sendEvents'[c] \subseteq sendEvents[c]
    PROVE  AddressInv'
  <1>1. PortsInOrder'
    BY DEF AddressInv, PortsInOrder, ClientStarted
  <1>2. AddressesOwned'
    BY DEF AddressInv, AddressesOwned, ClientUp, DeviceUp, ClientAddress, DeviceAddress
  <1> QED BY <1>1, <1>2 DEF AddressInv

LEMMA AddressClientStart ==
    ASSUME TypeInv, AddressInv, NEW c \in Clients, ClientStart(c), UNCHANGED deviceVars
    PROVE  AddressInv'
  <1> DEFINE address == [node |-> ClientNode[c], port |-> nextPort]
  <1> USE DEF AddressInv
  <1>1. /\ nextPort \in Nat /\ nextPort' = nextPort + 1
        /\ UNCHANGED <<sendEvents, sentPayloadIds, deviceState>>
        /\ port \in [Clients -> Nat]
        /\ ~ClientStarted(c)
    BY DEF TypeInv, TypeOK, ClientTypeOK, ClientStart, ledgerVars, deviceVars, ClientStarted
  <1>2. CASE address \in bound
    <2>1. UNCHANGED <<bound, clientState, port, processEvent>>
      BY <1>2 DEF ClientStart
    <2>2. PortsInOrder'
      BY <1>1, <2>1 DEF PortsInOrder, ClientStarted, DevicePort
    <2>3. AddressesOwned'
      BY <1>1, <2>1 DEF AddressesOwned, ClientUp, DeviceUp, ClientAddress, DeviceAddress
    <2> QED BY <2>2, <2>3
  <1>3. CASE address \notin bound
    <2>1. /\ bound' = bound \cup {address}
          /\ clientState'[c] = "up"
          /\ port'[c] = nextPort
          /\ \A x \in Clients : x # c => /\ clientState'[x] = clientState[x]
                                       /\ port'[x] = port[x]
                                       /\ processEvent'[x] = processEvent[x]
      BY <1>3 DEF ClientStart, TypeInv, TypeOK, ClientTypeOK
    <2>2. PortsInOrder'
      <3>1. nextPort' >= DevicePort
        BY <1>1 DEF PortsInOrder, DevicePort
      <3>2. ASSUME NEW x \in Clients
            PROVE  IF ClientStarted(x)' THEN port'[x] >= DevicePort /\ port'[x] < nextPort'
                   ELSE /\ processEvent'[x] = Never
                        /\ DOMAIN sentPayloadIds'[x] = {}
                        /\ sendEvents'[x] = {}
        <4>1. CASE x = c
          BY <4>1, <1>1, <2>1 DEF PortsInOrder, DevicePort, ClientStarted
        <4>2. CASE x # c
          BY <4>2, <1>1, <2>1 DEF PortsInOrder, DevicePort, ClientStarted
        <4> QED BY <4>1, <4>2
      <3>3. ASSUME NEW x \in Clients, NEW y \in Clients, ClientStarted(x)', ClientStarted(y)',
                   port'[x] = port'[y]
            PROVE  x = y
        BY <3>3, <1>1, <2>1 DEF PortsInOrder, ClientStarted
      <3> QED BY <3>1, <3>2, <3>3 DEF PortsInOrder
    <2>3. ClientAddress(c)' = address
      BY <2>1 DEF ClientAddress
    <2>4. \A x \in Clients : x # c => ClientAddress(x)' = ClientAddress(x)
      BY <2>1 DEF ClientAddress
    <2> HIDE DEF address
    <2>5. AddressesOwned'
      BY <1>1, <1>3, <2>1, <2>3, <2>4 DEF AddressesOwned, ClientUp, DeviceUp, DeviceAddress
    <2> QED BY <2>2, <2>5
  <1> QED BY <1>2, <1>3

LEMMA AddressClientStop ==
    ASSUME TypeInv, AddressInv, NEW c \in Clients, ClientStop(c), UNCHANGED deviceVars
    PROVE  AddressInv'
  <1> USE DEF AddressInv
  <1>1. /\ UNCHANGED <<nextPort, port, processEvent, sentPayloadIds, deviceState>>
        /\ clientState[c] = "up" /\ clientState'[c] = "stopped"
        /\ \A x \in Clients : x # c => /\ clientState'[x] = clientState[x]
                                     /\ sendEvents'[x] = sendEvents[x]
        /\ bound' = bound \ {ClientAddress(c)}
    BY DEF ClientStop, TypeInv, TypeOK, ClientTypeOK, ledgerVars, deviceVars
  <1>2. PortsInOrder'
    BY <1>1 DEF PortsInOrder, ClientStarted
  <1>3. \A x \in Clients : ClientUp(x) /\ x # c => ClientAddress(x) # ClientAddress(c)
    BY <1>1 DEF PortsInOrder, ClientStarted, ClientUp, ClientAddress
  <1>4. AddressesOwned'
    <2>1. \A x \in Clients : ClientUp(x)' => x # c /\ ClientUp(x)
      BY <1>1 DEF ClientUp
    <2>2. \A x \in Clients : ClientAddress(x)' = ClientAddress(x)
      BY <1>1 DEF ClientAddress
    <2>3. \A d \in Devices : DeviceUp(d)' = DeviceUp(d) /\ DeviceAddress(d)' = DeviceAddress(d)
      BY <1>1 DEF DeviceUp, DeviceAddress
    <2>4. ClientUp(c)
      BY <1>1 DEF ClientUp
    <2> QED BY <1>1, <1>3, <2>1, <2>2, <2>3, <2>4 DEF AddressesOwned
  <1> QED BY <1>2, <1>4

LEMMA AddressDeviceStart ==
    ASSUME TypeInv, AddressInv, NEW d \in Devices, DeviceStart(d), UNCHANGED clientVars
    PROVE  AddressInv'
  <1> USE DEF AddressInv
  <1>1. UNCHANGED <<nextPort, clientState, port, processEvent, sentPayloadIds, sendEvents>>
    BY DEF clientVars, ledgerVars
  <1>2. PortsInOrder'
    BY <1>1 DEF PortsInOrder, ClientStarted
  <1>3. CASE UNCHANGED <<bound, deviceState>>
    BY <1>1, <1>2, <1>3
    DEF AddressesOwned, ClientUp, DeviceUp, ClientAddress, DeviceAddress
  <1>4. CASE /\ DeviceAddress(d) \notin bound
             /\ bound' = bound \cup {DeviceAddress(d)}
             /\ deviceState' = [deviceState EXCEPT ![d] = "up"]
    <2>1. \A x \in Devices : DeviceUp(x)' => x = d \/ DeviceUp(x)
      BY <1>4 DEF DeviceUp, TypeInv, TypeOK, DeviceTypeOK
    <2>2. \A x \in Clients : ClientUp(x)' = ClientUp(x) /\ ClientAddress(x)' = ClientAddress(x)
      BY <1>1 DEF ClientUp, ClientAddress
    <2>3. \A x \in Devices : DeviceAddress(x)' = DeviceAddress(x)
      BY DEF DeviceAddress
    <2>4. AddressesOwned'
      BY <1>4, <2>1, <2>2, <2>3 DEF AddressesOwned
    <2> QED BY <1>2, <2>4
  <1> QED BY <1>3, <1>4 DEF DeviceStart, deviceVars

LEMMA AddressDeviceStop ==
    ASSUME TypeInv, AddressInv, NEW d \in Devices, DeviceStop(d), UNCHANGED clientVars
    PROVE  AddressInv'
  <1> USE DEF AddressInv
  <1>1. /\ UNCHANGED <<nextPort, clientState, port, processEvent, sentPayloadIds, sendEvents>>
        /\ bound' = bound \ {DeviceAddress(d)}
        /\ DeviceUp(d)
    BY DEF clientVars, ledgerVars, DeviceStop, DeviceUp
  <1>2. PortsInOrder'
    BY <1>1 DEF PortsInOrder, ClientStarted
  <1>3. \A x \in Devices : DeviceUp(x)' => x # d /\ DeviceUp(x)
    BY DEF DeviceStop, DeviceUp, TypeInv, TypeOK, DeviceTypeOK
  <1>4. \A x \in Clients : ClientUp(x)' = ClientUp(x) /\ ClientAddress(x)' = ClientAddress(x)
    BY <1>1 DEF ClientUp, ClientAddress
  <1>5. \A x \in Devices : DeviceAddress(x)' = DeviceAddress(x)
    BY DEF DeviceAddress
  <1>6. AddressesOwned'
    BY <1>1, <1>3, <1>4, <1>5 DEF AddressesOwned
  <1> QED BY <1>2, <1>6

LEMMA AddressStep == TypeInv /\ AddressInv /\ [Next]_vars => AddressInv'
  <1> SUFFICES ASSUME TypeInv, AddressInv, [Next]_vars PROVE AddressInv'
    OBVIOUS
  <1>1. ASSUME NEW c \in Clients, ClientProcess(c), UNCHANGED deviceVars
        PROVE  AddressInv'
    <2>1. ClientStarted(c)
      BY <1>1 DEF ClientProcess, AddressInv, PortsInOrder, TypeInv, TypeOK,
                  SimulationTypeOK, Time, Never
    <2>2. \A x \in Clients : x # c =>
            /\ processEvent'[x] = processEvent[x]
            /\ sentPayloadIds'[x] = sentPayloadIds[x]
            /\ sendEvents'[x] = sendEvents[x]
      BY <1>1 DEF ClientProcess, TypeInv, TypeOK, ClientTypeOK
    <2> QED BY <1>1, <2>1, <2>2, AddressQuiet DEF ClientProcess, deviceVars
  <1>2. ASSUME NEW c \in Clients, NEW e \in sendEvents[c], ClientSend(c, e),
               UNCHANGED deviceVars
        PROVE  AddressInv'
    BY <1>2, AddressQuiet
    DEF ClientSend, deviceVars, ledgerVars, TypeInv, TypeOK, ClientTypeOK
  <1>3. ASSUME NEW c \in Clients, NEW p \in net, ClientHandleRead(c, p),
               UNCHANGED deviceVars
        PROVE  AddressInv'
    <2>1. \A x \in Clients : x # c => sentPayloadIds'[x] = sentPayloadIds[x]
      BY <1>3 DEF ClientHandleRead, ledgerVars, TypeInv, TypeOK, ClientTypeOK
    <2>2. ClientStarted(c)
      BY <1>3 DEF ClientHandleRead, ClientStarted
    <2> QED BY <1>3, <2>1, <2>2, AddressQuiet DEF ClientHandleRead, deviceVars
  <1>4. CASE ClientNext /\ UNCHANGED deviceVars
    BY <1>1, <1>2, <1>3, <1>4, AddressClientStart, AddressClientStop DEF ClientNext
  <1>5. ASSUME NEW d \in Devices, UNCHANGED clientVars,
               \/ DeviceProcess(d) \/ WriteData(d)
               \/ \E p \in net : DeviceHandleRead(d, p)
               \/ \E e \in replyEvents[d] : DeviceSend(d, e)
        PROVE  AddressInv'
    <2>1. UNCHANGED <<bound, deviceState>>
      BY <1>5 DEF DeviceProcess, WriteData, DeviceHandleRead, DeviceSend
    <2> QED BY <1>5, <2>1, AddressQuiet DEF clientVars, ledgerVars
  <1>6. CASE DeviceNext /\ UNCHANGED clientVars
    BY <1>5, <1>6, AddressDeviceStart, AddressDeviceStop DEF DeviceNext
  <1>7. CASE (\E p \in net : DropPacket(p)) /\ UNCHANGED <<clientVars, deviceVars>>
    BY <1>7, AddressQuiet DEF DropPacket, clientVars, deviceVars, ledgerVars
  <1>8. CASE Tick
    BY <1>8, AddressQuiet DEF Tick, clientVars, deviceVars, ledgerVars
  <1>9. CASE UNCHANGED vars
    BY <1>9, AddressQuiet DEF vars, simulationVars, clientVars, deviceVars, ledgerVars
  <1> QED BY <1>4, <1>6, <1>7, <1>8, <1>9 DEF Next, Ended

-----------------------------------------------------------------------------
(* Every message has an id of its own.                                     *)

LEMMA PacketIsNoEvent ==
    ASSUME NEW p \in Packet
    PROVE  p \notin SendEvent
  <1>1. "left" \in DOMAIN p
    BY DEF Packet
  <1>2. \A e \in SendEvent : "left" \notin DOMAIN e
    BY DEF SendEvent
  <1> QED BY <1>1, <1>2

(* Ids of messages are no later ones, and requests have no invalid id.     *)
LEMMA MessagesIssued ==
    ASSUME LedgerInv
    PROVE  /\ \A m \in Messages : m.seq = INVALID \/ Issued(m.seq)
           /\ \A c \in Clients : \A id \in DOMAIN sentPayloadIds[c] :
                Issued(id) /\ id # INVALID
  BY DEF LedgerInv, MessagesTimely, Timely, AnswersComplete, Issued

LEMMA RequestsAreValid ==
    ASSUME ExchangeInv, RequestsInv, NEW c \in Clients, NEW e \in sendEvents[c]
    PROVE  e.seq # INVALID
  BY MessagesIssued DEF ExchangeInv, RequestsInv, OpenRequest

(* Messages may get lost.                                                  *)
LEMMA OneMessageQuiet ==
    ASSUME OneMessagePerId,
           net' \subseteq net,
           \A c \in Clients : sendEvents'[c] \subseteq sendEvents[c],
           \A d \in Devices : replyEvents'[d] \subseteq replyEvents[d]
    PROVE  OneMessagePerId'
  <1>1. \A m : m \in Messages' => m \in Messages
    BY MessagesMembers
  <1> QED BY <1>1 DEF OneMessagePerId

(* A message may come to one place, when its id is a new one, or the one   *)
(* of a message that is gone.                                              *)
LEMMA OneMessageComes ==
    ASSUME OneMessagePerId, NEW m,
           \A y \in Messages' : y = m \/ (y \in Messages /\ (y.seq # m.seq \/ m.seq = INVALID)),
           \A c \in Clients : \A e \in sendEvents'[c] : e = m \/ e \in sendEvents[c],
           \A d \in Devices : \A e \in replyEvents'[d] : e = m \/ e \in replyEvents[d],
           \A c, x \in Clients : m \in sendEvents'[c] /\ m \in sendEvents'[x] => c = x,
           \A d, x \in Devices :
               m \in replyEvents'[d] /\ m \in replyEvents'[x] /\ m.seq # INVALID => d = x,
           \A c \in Clients, d \in Devices : m \notin sendEvents'[c] \/ m \notin replyEvents'[d]
    PROVE  OneMessagePerId'
  <1>1. ASSUME NEW y \in Messages', NEW z \in Messages', y.seq = z.seq, y.seq # INVALID
        PROVE  y = z
    BY <1>1 DEF OneMessagePerId
  <1>2. ASSUME NEW c \in Clients, NEW x \in Clients, NEW e \in sendEvents'[c],
               e \in sendEvents'[x]
        PROVE  c = x
    BY <1>2 DEF OneMessagePerId
  <1>3. ASSUME NEW d \in Devices, NEW x \in Devices, NEW e \in replyEvents'[d],
               e \in replyEvents'[x], e.seq # INVALID
        PROVE  d = x
    BY <1>3 DEF OneMessagePerId
  <1>4. ASSUME NEW c \in Clients, NEW d \in Devices
        PROVE  sendEvents'[c] \cap replyEvents'[d] = {}
    BY <1>4 DEF OneMessagePerId
  <1> QED BY <1>1, <1>2, <1>3, <1>4 DEF OneMessagePerId

LEMMA OneMessageClientProcess ==
    ASSUME ExchangeInv, OneMessagePerId, NEW c \in Clients, ClientProcess(c),
           UNCHANGED deviceVars
    PROVE  OneMessagePerId'
  <1>1. PICK e : /\ sendEvents' = [sendEvents EXCEPT ![c] = @ \cup {e}]
                 /\ e.seq = nextPayloadId
    <2>1. PICK delay \in ClientDelays :
            sendEvents' = [sendEvents EXCEPT ![c] = @ \cup
              {[at |-> now + delay, seq |-> nextPayloadId, ts |-> now,
                dst |-> PeerAddress(c)]}]
      BY DEF ClientProcess, ScheduleSend, PeerAddress
    <2> WITNESS [at |-> now + delay, seq |-> nextPayloadId, ts |-> now,
                 dst |-> PeerAddress(c)]
    <2> QED BY <2>1
  <1>2. e.seq # INVALID /\ ~Issued(e.seq)
    BY <1>1, NextIdIssued
    DEF ClientProcess, ExchangeInv, TypeInv, TypeOK, SimulationTypeOK
  <1>3. /\ UNCHANGED <<net, replyEvents>>
        /\ \A x \in Clients : sendEvents'[x] = IF x = c THEN sendEvents[c] \cup {e}
                                               ELSE sendEvents[x]
    BY <1>1 DEF ClientProcess, deviceVars, ExchangeInv, TypeInv, TypeOK, ClientTypeOK
  <1>4. \A y \in Messages : y.seq # e.seq
    BY <1>2, MessagesIssued DEF ExchangeInv
  <1>5. \A y \in Messages' : y = e \/ y \in Messages
    BY <1>3, MessagesMembers
  <1>6. e \notin Messages
    BY <1>4
  <1> QED BY <1>3, <1>4, <1>5, <1>6, OneMessageComes, MessagesMembers

LEMMA OneMessageClientSend ==
    ASSUME ExchangeInv, OneMessagePerId, NEW c \in Clients, NEW e \in sendEvents[c],
           ClientSend(c, e), UNCHANGED deviceVars
    PROVE  OneMessagePerId'
  <1> DEFINE m == PacketOf(e, ClientAddress(c))
  <1>1. /\ \A x \in Clients : sendEvents'[x] = IF x = c THEN sendEvents[c] \ {e}
                                               ELSE sendEvents[x]
        /\ UNCHANGED replyEvents
        /\ net' = net \cup {m} \/ net' = net
    BY DEF ClientSend, deviceVars, ExchangeInv, TypeInv, TypeOK, ClientTypeOK
  <1>2. m.seq = e.seq
    BY DEF PacketOf
  <1> HIDE DEF m
  <1>3. CASE net' = net
    BY <1>1, <1>3, OneMessageQuiet
  <1>4. CASE net' = net \cup {m}
    <2>1. \A x \in Clients : e \notin sendEvents'[x]
      BY <1>1 DEF OneMessagePerId
    <2>2. \A d \in Devices : e \notin replyEvents'[d]
      BY <1>1 DEF OneMessagePerId
    <2>3. e \notin net
      BY PacketIsNoEvent
      DEF ExchangeInv, TypeInv, TypeOK, SimulationTypeOK, ClientTypeOK
    <2>4. e \in Messages
      BY MessagesMembers
    <2>5. \A y \in Messages' : y = m \/ (y \in Messages /\ y # e)
      BY <1>1, <1>4, <2>1, <2>2, <2>3, MessagesMembers
    <2>6. \A y \in Messages' : y = m \/ (y \in Messages /\ (y.seq # m.seq \/ m.seq = INVALID))
      BY <1>2, <2>4, <2>5 DEF OneMessagePerId
    <2>7. m \in Packet
      <3>1. ClientAddress(c) \in Address /\ e \in SendEvent /\ now \in Time
        BY DeviceClientAssumption
        DEF ExchangeInv, TypeInv, TypeOK, ClientTypeOK, SimulationTypeOK, ClientAddress, Address
      <3> QED BY <3>1, PacketType DEF m
    <2>8. /\ \A x \in Clients : m \notin sendEvents'[x]
          /\ \A d \in Devices : m \notin replyEvents'[d]
      BY <1>1, <2>7, PacketIsNoEvent
      DEF ExchangeInv, TypeInv, TypeOK, ClientTypeOK, DeviceTypeOK
    <2> QED BY <1>1, <2>6, <2>8, OneMessageComes
  <1> QED BY <1>1, <1>3, <1>4

LEMMA OneMessageDeviceProcess ==
    ASSUME ExchangeInv, RequestsInv, OneMessagePerId, NEW d \in Devices, DeviceProcess(d),
           UNCHANGED clientVars
    PROVE  OneMessagePerId'
  <1>1. CASE UNCHANGED replyEvents
    BY <1>1, OneMessageQuiet DEF DeviceProcess, clientVars
  <1>2. ASSUME NEW fresh \in {FALSE} \cup {FreshIdLeft}, NEW delay \in DeviceDelays,
               nextPayloadId' = IF fresh THEN NextId(nextPayloadId) ELSE nextPayloadId,
               replyEvents' = [replyEvents EXCEPT ![d] = @ \cup {
                   [at  |-> now + delay, ts |-> now,
                    seq |-> IF fresh THEN nextPayloadId ELSE INVALID,
                    dst |-> [node |-> DataPeer[d], port |-> DevicePort]]}]
        PROVE  OneMessagePerId'
    <2> DEFINE e == [at  |-> now + delay, ts |-> now,
                     seq |-> IF fresh THEN nextPayloadId ELSE INVALID,
                     dst |-> [node |-> DataPeer[d], port |-> DevicePort]]
    <2>1. e.seq = INVALID \/ (FreshIdLeft /\ nextPayloadId' = NextId(nextPayloadId)
                                /\ e.seq = nextPayloadId)
      <3>1. (fresh = TRUE \/ fresh = FALSE) /\ (fresh => FreshIdLeft)
        BY DEF FreshIdLeft
      <3> QED BY <1>2, <3>1
    <2> HIDE DEF e
    <2>2. e.seq = INVALID \/ ~Issued(e.seq)
      BY <2>1, NextIdIssued DEF ExchangeInv, TypeInv, TypeOK, SimulationTypeOK
    <2>3. /\ UNCHANGED <<net, sendEvents>>
          /\ \A x \in Devices : replyEvents'[x] = IF x = d THEN replyEvents[d] \cup {e}
                                                  ELSE replyEvents[x]
      BY <1>2 DEF e, DeviceProcess, clientVars, ExchangeInv, TypeInv, TypeOK, DeviceTypeOK
    <2>4. \A y \in Messages' : y = e \/ (y \in Messages /\ (y.seq # e.seq \/ e.seq = INVALID))
      BY <2>2, <2>3, MessagesMembers, MessagesIssued DEF ExchangeInv
    <2>5. e \in Messages => e.seq = INVALID
      BY <2>2, MessagesIssued DEF ExchangeInv
    <2>6. \A c \in Clients : e \notin sendEvents'[c]
      <3> SUFFICES ASSUME NEW c \in Clients, e \in sendEvents[c] PROVE FALSE
        BY <2>3
      <3>1. e \in Messages
        BY MessagesMembers
      <3> QED BY <2>5, <3>1, RequestsAreValid
    <2> QED BY <2>3, <2>4, <2>5, <2>6, MessagesMembers, OneMessageComes
  <1> QED BY <1>1, <1>2 DEF DeviceProcess

LEMMA OneMessageDeviceHandleRead ==
    ASSUME ExchangeInv, RequestsInv, OneMessagePerId, NEW d \in Devices, NEW p \in net,
           DeviceHandleRead(d, p), UNCHANGED clientVars
    PROVE  OneMessagePerId'
  <1>1. CASE UNCHANGED <<net, replyEvents>>
    BY <1>1, OneMessageQuiet DEF DeviceHandleRead, clientVars
  <1>2. ASSUME net' = net \ {p}, NEW delay \in DeviceDelays,
               replyEvents' = [replyEvents EXCEPT ![d] = @ \cup {
                   [at |-> now + delay, dst |-> p.src, seq |-> p.seq, ts |-> now]}]
        PROVE  OneMessagePerId'
    <2> DEFINE e == [at |-> now + delay, dst |-> p.src, seq |-> p.seq, ts |-> now]
    <2>1. e.seq = p.seq
      OBVIOUS
    <2>2. e \in SendEvent
      BY FmuDeviceAssumption
      DEF ExchangeInv, TypeInv, TypeOK, SimulationTypeOK, Packet, SendEvent, Time
    <2> HIDE DEF e
    <2>3. /\ UNCHANGED sendEvents
          /\ \A x \in Devices : replyEvents'[x] = IF x = d THEN replyEvents[d] \cup {e}
                                                  ELSE replyEvents[x]
      BY <1>2 DEF e, clientVars, ExchangeInv, TypeInv, TypeOK, DeviceTypeOK
    <2>4. /\ p \in Messages
          /\ \A c \in Clients : p \notin sendEvents[c]
          /\ \A x \in Devices : p \notin replyEvents[x]
      BY PacketIsNoEvent, MessagesMembers
      DEF ExchangeInv, TypeInv, TypeOK, SimulationTypeOK, ClientTypeOK, DeviceTypeOK
    <2>5. \A y \in Messages' : y = e \/ (y \in Messages /\ y # p)
      BY <1>2, <2>3, <2>4, MessagesMembers
    <2>6. \A y \in Messages' : y = e \/ (y \in Messages /\ (y.seq # e.seq \/ e.seq = INVALID))
      BY <2>1, <2>4, <2>5 DEF OneMessagePerId
    <2>7. e \in Messages => e.seq = INVALID
      <3> SUFFICES ASSUME e \in Messages, e.seq # INVALID PROVE FALSE
        OBVIOUS
      <3>1. e = p
        BY <2>1, <2>4 DEF OneMessagePerId
      <3> QED BY <2>2, <3>1, PacketIsNoEvent DEF ExchangeInv, TypeInv, TypeOK, SimulationTypeOK
    <2>8. \A c \in Clients : e \notin sendEvents'[c]
      <3> SUFFICES ASSUME NEW c \in Clients, e \in sendEvents[c] PROVE FALSE
        BY <2>3
      <3>1. e \in Messages
        BY MessagesMembers
      <3> QED BY <2>7, <3>1, RequestsAreValid
    <2> QED BY <2>3, <2>6, <2>7, <2>8, MessagesMembers, OneMessageComes
  <1> QED BY <1>1, <1>2 DEF DeviceHandleRead

LEMMA OneMessageDeviceSend ==
    ASSUME ExchangeInv, OneMessagePerId, NEW d \in Devices, NEW e \in replyEvents[d],
           DeviceSend(d, e), UNCHANGED clientVars
    PROVE  OneMessagePerId'
  <1> DEFINE m == PacketOf(e, DeviceAddress(d))
  <1>1. /\ \A x \in Devices : replyEvents'[x] = IF x = d THEN replyEvents[d] \ {e}
                                                ELSE replyEvents[x]
        /\ UNCHANGED sendEvents
        /\ net' = net \cup {m} \/ net' = net
    BY DEF DeviceSend, clientVars, ExchangeInv, TypeInv, TypeOK, DeviceTypeOK
  <1>2. m.seq = e.seq
    BY DEF PacketOf
  <1> HIDE DEF m
  <1>3. CASE net' = net
    BY <1>1, <1>3, OneMessageQuiet
  <1>4. CASE net' = net \cup {m}
    <2>1. e.seq # INVALID => \A x \in Devices : e \notin replyEvents'[x]
      BY <1>1 DEF OneMessagePerId
    <2>2. \A c \in Clients : e \notin sendEvents'[c]
      BY <1>1 DEF OneMessagePerId
    <2>3. e \in Messages /\ e \notin net
      BY PacketIsNoEvent, MessagesMembers
      DEF ExchangeInv, TypeInv, TypeOK, SimulationTypeOK, DeviceTypeOK
    <2>4. \A y \in Messages' : y = m \/ (y \in Messages /\ (e.seq = INVALID \/ y # e))
      BY <1>1, <1>4, <2>1, <2>2, <2>3, MessagesMembers
    <2>5. \A y \in Messages' : y = m \/ (y \in Messages /\ (y.seq # m.seq \/ m.seq = INVALID))
      BY <1>2, <2>3, <2>4 DEF OneMessagePerId
    <2>6. m \in Packet
      <3>1. DeviceAddress(d) \in Address /\ e \in SendEvent /\ now \in Time
        BY FmuDeviceAssumption
        DEF ExchangeInv, TypeInv, TypeOK, DeviceTypeOK, SimulationTypeOK, DeviceAddress,
            Address, DevicePort
      <3> QED BY <3>1, PacketType DEF m
    <2>7. /\ \A c \in Clients : m \notin sendEvents'[c]
          /\ \A x \in Devices : m \notin replyEvents'[x]
      BY <1>1, <2>6, PacketIsNoEvent
      DEF ExchangeInv, TypeInv, TypeOK, ClientTypeOK, DeviceTypeOK
    <2> QED BY <1>1, <2>5, <2>7, OneMessageComes
  <1> QED BY <1>1, <1>3, <1>4

-----------------------------------------------------------------------------
(* Every message is somebody's.                                            *)

(* What the application that has sent packet p says about it.              *)
SentByClient(p) ==
    \E c \in Clients : /\ ClientStarted(c)
                       /\ RequestOf(c, p)
                       /\ OpenRequest(c, p.seq, p.ts)
                       /\ p.dst = PeerAddress(c)
SentByDevice(p) == \E d \in Devices : Started(d) /\ p.src = DeviceAddress(d)

(* Applications that have started stay so, at the same address.            *)
StartedStay ==
    /\ \A c \in Clients : ClientStarted(c) =>
         ClientStarted(c)' /\ ClientAddress(c)' = ClientAddress(c)
    /\ \A d \in Devices : Started(d) => Started(d)'

LEMMA StartedStep ==
    ASSUME TypeInv, [Next]_vars
    PROVE  StartedStay
  <1>1. ASSUME UNCHANGED <<clientState, port>>
        PROVE  \A c \in Clients : ClientStarted(c) =>
                 ClientStarted(c)' /\ ClientAddress(c)' = ClientAddress(c)
    BY <1>1 DEF ClientStarted, ClientAddress
  <1>2. ASSUME UNCHANGED deviceState
        PROVE  \A d \in Devices : Started(d) => Started(d)'
    BY <1>2 DEF Started
  <1>3. ASSUME NEW c \in Clients, ClientStart(c) \/ ClientStop(c), UNCHANGED deviceVars
        PROVE  StartedStay
    BY <1>2, <1>3
    DEF StartedStay, ClientStart, ClientStop, deviceVars, ClientStarted, ClientAddress,
        TypeInv, TypeOK, ClientTypeOK
  <1>4. ASSUME NEW d \in Devices, DeviceStart(d) \/ DeviceStop(d), UNCHANGED clientVars
        PROVE  StartedStay
    BY <1>1, <1>4
    DEF StartedStay, DeviceStart, DeviceStop, deviceVars, clientVars, Started,
        TypeInv, TypeOK, DeviceTypeOK
  <1>5. ASSUME UNCHANGED <<clientState, port, deviceState>> PROVE StartedStay
    BY <1>1, <1>2, <1>5 DEF StartedStay
  <1>6. CASE ClientNext /\ UNCHANGED deviceVars
    <2>1. ASSUME NEW c \in Clients,
                 \/ ClientProcess(c)
                 \/ \E e \in sendEvents[c] : ClientSend(c, e)
                 \/ \E p \in net : ClientHandleRead(c, p)
          PROVE  UNCHANGED <<clientState, port>>
      BY <2>1 DEF ClientProcess, ClientSend, ClientHandleRead
    <2> QED BY <1>3, <1>5, <1>6, <2>1 DEF ClientNext, deviceVars
  <1>7. CASE DeviceNext /\ UNCHANGED clientVars
    <2>1. ASSUME NEW d \in Devices,
                 \/ DeviceProcess(d) \/ WriteData(d)
                 \/ \E p \in net : DeviceHandleRead(d, p)
                 \/ \E e \in replyEvents[d] : DeviceSend(d, e)
          PROVE  UNCHANGED deviceState
      BY <2>1 DEF DeviceProcess, WriteData, DeviceHandleRead, DeviceSend
    <2> QED BY <1>4, <1>5, <1>7, <2>1 DEF DeviceNext, clientVars
  <1>8. CASE UNCHANGED <<clientVars, deviceVars>>
    BY <1>5, <1>8 DEF clientVars, deviceVars
  <1> QED BY <1>6, <1>7, <1>8 DEF Next, Ended, Tick, vars

LEMMA RequestsStay ==
    ASSUME RequestsInv, StartedStay,
           \A m \in Messages : m \in Messages' => \A c \in Clients :
               OpenRequest(c, m.seq, m.ts) => OpenRequest(c, m.seq, m.ts)',
           \A c \in Clients : \A e \in sendEvents'[c] :
               \/ e \in sendEvents[c]
               \/ OpenRequest(c, e.seq, e.ts)' /\ e.dst = PeerAddress(c),
           \A p \in net' : p \in net \/ SentByClient(p)' \/ SentByDevice(p)',
           \A d \in Devices : replyEvents'[d] # {} => replyEvents[d] # {} \/ Started(d)
    PROVE  RequestsInv'
  <1>1. ASSUME NEW c \in Clients, NEW e \in sendEvents'[c]
        PROVE  OpenRequest(c, e.seq, e.ts)' /\ e.dst = PeerAddress(c)
    <2>1. CASE e \in sendEvents[c]
      BY <2>1, MessagesMembers DEF RequestsInv
    <2> QED BY <2>1
  <1>2. ASSUME NEW p \in net' PROVE SentByClient(p)' \/ SentByDevice(p)'
    <2>1. CASE p \in net
      <3>1. p \in Messages /\ p \in Messages'
        BY <2>1, MessagesMembers
      <3>2. CASE SentByClient(p)
        BY <3>1, <3>2 DEF SentByClient, StartedStay, RequestOf, PeerAddress
      <3>3. CASE SentByDevice(p)
        BY <3>3 DEF SentByDevice, StartedStay, DeviceAddress
      <3> QED BY <2>1, <3>2, <3>3 DEF RequestsInv, SentByClient, SentByDevice
    <2> QED BY <2>1
  <1>3. \A d \in Devices : replyEvents'[d] # {} => Started(d)'
    BY DEF RequestsInv, StartedStay
  <1> QED BY <1>1, <1>2, <1>3 DEF RequestsInv, SentByClient, SentByDevice, PeerAddress

(* Steps that neither make a request nor close one.                        *)
LEMMA RequestsQuiet ==
    ASSUME RequestsInv, StartedStay, UNCHANGED ledgerVars,
           \A c \in Clients : sendEvents'[c] \subseteq sendEvents[c],
           \A p \in net' : p \in net \/ SentByClient(p)' \/ SentByDevice(p)',
           \A d \in Devices : replyEvents'[d] # {} => replyEvents[d] # {} \/ Started(d)
    PROVE  RequestsInv'
  <1>1. \A m, c : OpenRequest(c, m.seq, m.ts) => OpenRequest(c, m.seq, m.ts)'
    BY DEF OpenRequest, ledgerVars
  <1> QED BY <1>1, RequestsStay

LEMMA RequestsClientProcess ==
    ASSUME ExchangeInv, RequestsInv, StartedStay, NEW c \in Clients, ClientProcess(c),
           UNCHANGED deviceVars
    PROVE  RequestsInv'
  <1> DEFINE n == Len(sendRequestTimestamps[c])
  <1>0. PICK id, t : id = nextPayloadId /\ t = now
    OBVIOUS
  <1>1. PICK delay \in ClientDelays :
          sendEvents' = [sendEvents EXCEPT ![c] = @ \cup
            {[at |-> t + delay, seq |-> id, ts |-> t, dst |-> PeerAddress(c)]}]
    BY <1>0 DEF ClientProcess, ScheduleSend, PeerAddress
  <1>2. id # INVALID /\ ~Issued(id)
    BY <1>0, NextIdIssued DEF ClientProcess, ExchangeInv, TypeInv, TypeOK, SimulationTypeOK
  <1>3. /\ sendRequestTimestamps \in [Clients -> Seq(Time)]
        /\ DOMAIN sentPayloadIds = Clients
        /\ \A x \in Clients : sentPayloadIds[x] \in [DOMAIN sentPayloadIds[x] -> Slots(x)]
        /\ t \in Time
    BY <1>0 DEF ExchangeInv, TypeInv, TypeOK, ClientTypeOK, SimulationTypeOK
  <1>4. /\ sentPayloadIds'[c] = Put(sentPayloadIds[c], id, n + 1)
        /\ sendRequestTimestamps'[c] = Append(sendRequestTimestamps[c], t)
        /\ \A x \in Clients : x # c =>
             /\ sentPayloadIds'[x] = sentPayloadIds[x]
             /\ sendRequestTimestamps'[x] = sendRequestTimestamps[x]
    BY <1>0, <1>3 DEF ClientProcess
  <1>5. /\ n \in Nat /\ Slots(c) = 1 .. n
        /\ \A i \in 1 .. n : sendRequestTimestamps'[c][i] = sendRequestTimestamps[c][i]
        /\ sendRequestTimestamps'[c][n + 1] = t
    BY <1>3, <1>4 DEF Slots
  <1>6. OpenRequest(c, id, t)'
    BY <1>4, <1>5 DEF OpenRequest, Put
  <1>7. ASSUME NEW m \in Messages, NEW x \in Clients, OpenRequest(x, m.seq, m.ts)
        PROVE  OpenRequest(x, m.seq, m.ts)'
    <2>1. m.seq # id
      BY <1>2, MessagesIssued DEF ExchangeInv
    <2>2. CASE x = c
      BY <1>3, <1>4, <1>5, <1>7, <2>1, <2>2 DEF OpenRequest, Put
    <2>3. CASE x # c
      BY <1>4, <1>7, <2>3 DEF OpenRequest
    <2> QED BY <2>2, <2>3
  <1>8. \A x \in Clients : \A e \in sendEvents'[x] :
          e \in sendEvents[x] \/ (x = c /\ e.seq = id /\ e.ts = t /\ e.dst = PeerAddress(c))
    BY <1>1 DEF ExchangeInv, TypeInv, TypeOK, ClientTypeOK
  <1> QED BY <1>6, <1>7, <1>8, RequestsStay DEF ClientProcess, deviceVars

LEMMA RequestsClientSend ==
    ASSUME ExchangeInv, AddressInv, RequestsInv, StartedStay, NEW c \in Clients,
           NEW e \in sendEvents[c], ClientSend(c, e), UNCHANGED deviceVars
    PROVE  RequestsInv'
  <1>1. PICK m : /\ m.src = ClientAddress(c) /\ m.dst = e.dst /\ m.seq = e.seq /\ m.ts = e.ts
                 /\ net' = net \cup {m} \/ net' = net
    <2>1. PICK m : m = PacketOf(e, ClientAddress(c))
      OBVIOUS
    <2> WITNESS m
    <2> QED BY <2>1 DEF ClientSend, PacketOf
  <1>2. ClientStarted(c)
    BY DEF AddressInv, PortsInOrder
  <1>3. UNCHANGED <<ledgerVars, port, replyEvents>>
    BY DEF ClientSend, deviceVars
  <1>4. SentByClient(m)'
    BY <1>1, <1>2, <1>3
    DEF SentByClient, RequestsInv, StartedStay, RequestOf, OpenRequest, ledgerVars,
        PeerAddress
  <1>5. \A x \in Clients : sendEvents'[x] \subseteq sendEvents[x]
    BY DEF ClientSend, ExchangeInv, TypeInv, TypeOK, ClientTypeOK
  <1> QED BY <1>1, <1>3, <1>4, <1>5, RequestsQuiet

(* HandleRead() closes a request whose message is the one it has read, so  *)
(* that no other message of it is left.                                    *)
LEMMA RequestsClientHandleRead ==
    ASSUME ExchangeInv, RequestsInv, OneMessagePerId, StartedStay, NEW c \in Clients,
           NEW p \in net, ClientHandleRead(c, p), UNCHANGED deviceVars
    PROVE  RequestsInv'
  <1>1. net' = net \ {p} /\ UNCHANGED <<sendEvents, replyEvents>>
    BY DEF ClientHandleRead, deviceVars
  <1>2. CASE p.seq \notin DOMAIN sentPayloadIds[c]
    BY <1>1, <1>2, RequestsQuiet DEF ClientHandleRead
  <1>3. CASE p.seq \in DOMAIN sentPayloadIds[c]
    <2>1. /\ p \in Messages
          /\ p \notin Messages'
      BY <1>1, PacketIsNoEvent, MessagesMembers
      DEF ExchangeInv, TypeInv, TypeOK, SimulationTypeOK, ClientTypeOK, DeviceTypeOK
    <2>2. p.seq # INVALID
      BY <1>3, MessagesIssued DEF ExchangeInv
    <2>3. /\ UNCHANGED sendRequestTimestamps
          /\ sentPayloadIds'[c] = Erase(sentPayloadIds[c], p.seq)
          /\ \A x \in Clients : x # c => sentPayloadIds'[x] = sentPayloadIds[x]
      BY <1>3 DEF ClientHandleRead, ExchangeInv, TypeInv, TypeOK, ClientTypeOK
    <2>4. ASSUME NEW m \in Messages, m \in Messages', NEW x \in Clients,
                 OpenRequest(x, m.seq, m.ts)
          PROVE  OpenRequest(x, m.seq, m.ts)'
      <3>1. m.seq # p.seq
        BY <2>1, <2>2, <2>4 DEF OneMessagePerId
      <3>2. CASE x = c
        BY <2>3, <2>4, <3>1, <3>2 DEF OpenRequest, Erase
      <3>3. CASE x # c
        BY <2>3, <2>4, <3>3 DEF OpenRequest
      <3> QED BY <3>2, <3>3
    <2> QED BY <1>1, <2>4, RequestsStay
  <1> QED BY <1>2, <1>3

(* What a device has scheduled or sent comes from a device that started.   *)
LEMMA RequestsDevice ==
    ASSUME ExchangeInv, RequestsInv, StartedStay, DeviceNext, UNCHANGED clientVars
    PROVE  RequestsInv'
  <1>1. UNCHANGED <<ledgerVars, sendEvents>>
    BY DEF clientVars
  <1>2. ASSUME NEW d \in Devices, DeviceProcess(d)
        PROVE  RequestsInv'
    <2>1. Started(d)
      BY <1>2 DEF DeviceProcess, ExchangeInv, TypeInv, TypeOK, CallsPrepared,
                  SimulationTypeOK, Time, Never
    <2>2. \A x \in Devices : x # d => replyEvents'[x] = replyEvents[x]
      BY <1>2 DEF DeviceProcess, ExchangeInv, TypeInv, TypeOK, DeviceTypeOK
    <2> QED BY <1>1, <1>2, <2>1, <2>2, RequestsQuiet DEF DeviceProcess
  <1>3. ASSUME NEW d \in Devices, NEW p \in net, DeviceHandleRead(d, p)
        PROVE  RequestsInv'
    <2>1. Started(d)
      BY <1>3 DEF DeviceHandleRead, Started
    <2>2. \A x \in Devices : x # d => replyEvents'[x] = replyEvents[x]
      BY <1>3 DEF DeviceHandleRead, ExchangeInv, TypeInv, TypeOK, DeviceTypeOK
    <2>3. net' \subseteq net
      BY <1>3 DEF DeviceHandleRead
    <2> QED BY <1>1, <2>1, <2>2, <2>3, RequestsQuiet
  <1>4. ASSUME NEW d \in Devices, NEW e \in replyEvents[d], DeviceSend(d, e)
        PROVE  RequestsInv'
    <2>1. Started(d)
      BY <1>4 DEF RequestsInv
    <2>2. \A x \in Devices : replyEvents'[x] \subseteq replyEvents[x]
      BY <1>4 DEF DeviceSend, ExchangeInv, TypeInv, TypeOK, DeviceTypeOK
    <2>3. \A p \in net' : p \in net \/ p.src = DeviceAddress(d)
      BY <1>4 DEF DeviceSend, PacketOf
    <2>4. \A p \in net' : p \in net \/ SentByDevice(p)'
      BY <2>1, <2>3 DEF SentByDevice, StartedStay, DeviceAddress
    <2> QED BY <1>1, <2>2, <2>4, RequestsQuiet
  <1>5. ASSUME NEW d \in Devices, DeviceStart(d) \/ DeviceStop(d) \/ WriteData(d)
        PROVE  RequestsInv'
    <2>1. UNCHANGED <<net, replyEvents>>
      BY <1>5 DEF DeviceStart, DeviceStop, WriteData, deviceVars
    <2> QED BY <1>1, <2>1, RequestsQuiet
  <1> QED BY <1>2, <1>3, <1>4, <1>5 DEF DeviceNext

-----------------------------------------------------------------------------
(* The invariant.                                                          *)

TrafficExchangeInv == ExchangeInv /\ TrafficInv

LEMMA TrafficInit == Init => TrafficInv
  <1> SUFFICES ASSUME Init PROVE TrafficInv
    OBVIOUS
  <1>1. /\ net = {}
        /\ \A c \in Clients : sendEvents[c] = {}
        /\ \A d \in Devices : replyEvents[d] = {}
    BY DEF Init, SimulationInit, ClientInit, DeviceInit
  <1>2. \A m : m \notin Messages
    BY <1>1, MessagesMembers
  <1>3. DevicesStayUp
    BY DEF Init, DeviceInit, DevicesStayUp, Started
  <1> QED BY <1>1, <1>2, <1>3, AddressInit DEF TrafficInv, RequestsInv, OneMessagePerId

LEMMA TrafficClient ==
    ASSUME TrafficExchangeInv, StartedStay, ClientNext, UNCHANGED deviceVars
    PROVE  RequestsInv' /\ OneMessagePerId'
  <1> USE DEF TrafficExchangeInv, TrafficInv
  <1>1. ASSUME NEW c \in Clients, ClientStart(c) \/ ClientStop(c)
        PROVE  RequestsInv' /\ OneMessagePerId'
    <2>1. UNCHANGED <<net, ledgerVars, replyEvents>>
      BY <1>1 DEF ClientStart, ClientStop, deviceVars
    <2>2. \A x \in Clients : sendEvents'[x] \subseteq sendEvents[x]
      <3>1. CASE ClientStart(c)
        BY <3>1 DEF ClientStart
      <3>2. CASE ClientStop(c)
        BY <3>2 DEF ClientStop, ExchangeInv, TypeInv, TypeOK, ClientTypeOK
      <3> QED BY <1>1, <3>1, <3>2
    <2> QED BY <2>1, <2>2, RequestsQuiet, OneMessageQuiet
  <1>2. ASSUME NEW c \in Clients, ClientProcess(c)
        PROVE  RequestsInv' /\ OneMessagePerId'
    BY <1>2, RequestsClientProcess, OneMessageClientProcess
  <1>3. ASSUME NEW c \in Clients, NEW e \in sendEvents[c], ClientSend(c, e)
        PROVE  RequestsInv' /\ OneMessagePerId'
    BY <1>3, RequestsClientSend, OneMessageClientSend
  <1>4. ASSUME NEW c \in Clients, NEW p \in net, ClientHandleRead(c, p)
        PROVE  RequestsInv' /\ OneMessagePerId'
    <2>1. OneMessagePerId'
      BY <1>4, OneMessageQuiet DEF ClientHandleRead, deviceVars
    <2> QED BY <1>4, <2>1, RequestsClientHandleRead
  <1> QED BY <1>1, <1>2, <1>3, <1>4 DEF ClientNext

LEMMA TrafficDevice ==
    ASSUME TrafficExchangeInv, StartedStay, DeviceNext, UNCHANGED clientVars
    PROVE  RequestsInv' /\ OneMessagePerId'
  <1> USE DEF TrafficExchangeInv, TrafficInv
  <1>1. RequestsInv'
    BY RequestsDevice
  <1>2. ASSUME NEW d \in Devices, DeviceStart(d) \/ DeviceStop(d) \/ WriteData(d)
        PROVE  OneMessagePerId'
    <2>1. UNCHANGED <<net, replyEvents>>
      BY <1>2 DEF DeviceStart, DeviceStop, WriteData, deviceVars
    <2> QED BY <2>1, OneMessageQuiet DEF clientVars
  <1> QED BY <1>1, <1>2, OneMessageDeviceProcess, OneMessageDeviceHandleRead,
             OneMessageDeviceSend
          DEF DeviceNext

LEMMA DevicesStayUpStep ==
    ASSUME TypeInv, DevicesStayUp, [Next]_vars
    PROVE  DevicesStayUp'
  <1>1. ASSUME UNCHANGED deviceState PROVE DevicesStayUp'
    BY <1>1 DEF DevicesStayUp, Started, DeviceUp
  <1>2. ASSUME NEW d \in Devices, DeviceStart(d) \/ DeviceStop(d)
        PROVE  DevicesStayUp'
    BY <1>2 DEF DevicesStayUp, Started, DeviceUp, DeviceStart, DeviceStop, deviceVars,
                TypeInv, TypeOK, DeviceTypeOK
  <1>3. CASE DeviceNext
    <2>1. ASSUME NEW d \in Devices,
                 \/ DeviceProcess(d) \/ WriteData(d)
                 \/ \E p \in net : DeviceHandleRead(d, p)
                 \/ \E e \in replyEvents[d] : DeviceSend(d, e)
          PROVE  UNCHANGED deviceState
      BY <2>1 DEF DeviceProcess, WriteData, DeviceHandleRead, DeviceSend
    <2> QED BY <1>1, <1>2, <1>3, <2>1 DEF DeviceNext
  <1> QED BY <1>1, <1>3 DEF Next, Ended, Tick, vars, deviceVars

LEMMA TrafficStep == TrafficExchangeInv /\ [Next]_vars => TrafficExchangeInv'
  <1> SUFFICES ASSUME TrafficExchangeInv, [Next]_vars PROVE TrafficExchangeInv'
    OBVIOUS
  <1> USE DEF TrafficExchangeInv, TrafficInv
  <1>1. ExchangeInv' /\ AddressInv' /\ DevicesStayUp' /\ StartedStay
    BY LedgerStep, AddressStep, DevicesStayUpStep, StartedStep DEF ExchangeInv
  <1>2. CASE UNCHANGED <<clientVars, deviceVars>> /\ net' \subseteq net
    BY <1>1, <1>2, RequestsQuiet, OneMessageQuiet DEF clientVars, deviceVars
  <1>3. CASE ClientNext /\ UNCHANGED deviceVars
    BY <1>1, <1>3, TrafficClient
  <1>4. CASE DeviceNext /\ UNCHANGED clientVars
    BY <1>1, <1>4, TrafficDevice
  <1> QED BY <1>2, <1>3, <1>4
          DEF Next, Ended, Tick, DropPacket, vars, simulationVars

LEMMA TrafficInvariant == Spec => []TrafficExchangeInv
  <1>1. Init => TrafficExchangeInv
    BY TypeInit, LedgerInit, TrafficInit DEF TrafficExchangeInv, ExchangeInv
  <1> QED BY <1>1, TrafficStep, PTL DEF Spec

(* A client that is up shares its address with no device that has started, *)
(* as a device keeps its address when it does not stop.                    *)
LEMMA UpClientsApart ==
    ASSUME DevicesKeepNodes, AddressInv, DevicesStayUp,
           NEW c \in Clients, ClientUp(c), NEW d \in Devices, Started(d)
    PROVE  ClientAddress(c) # DeviceAddress(d)
  <1>1. CASE DeviceUp(d)
    BY <1>1 DEF AddressInv, AddressesOwned
  <1>2. CASE d \in StoppingDevices
    BY <1>2 DEF DevicesKeepNodes, ClientAddress, DeviceAddress
  <1> QED BY <1>1, <1>2 DEF DevicesStayUp

(* A packet with the address of a client that is up is a request of it.    *)
LEMMA UpClientsRequests ==
    ASSUME DevicesKeepNodes, TrafficInv, NEW c \in Clients, ClientUp(c),
           NEW p \in net, RequestOf(c, p)
    PROVE  OpenRequest(c, p.seq, p.ts) /\ p.dst = PeerAddress(c)
  <1>1. CASE SentByClient(p)
    <2>1. PICK x \in Clients : /\ ClientStarted(x)
                               /\ RequestOf(x, p)
                               /\ OpenRequest(x, p.seq, p.ts)
                               /\ p.dst = PeerAddress(x)
      BY <1>1 DEF SentByClient
    <2>2. port[x] = port[c]
      BY <2>1 DEF RequestOf, ClientAddress
    <2>3. x = c
      BY <2>1, <2>2 DEF TrafficInv, AddressInv, PortsInOrder, ClientStarted, ClientUp
    <2> QED BY <2>1, <2>3
  <1>2. CASE SentByDevice(p)
    BY <1>2, UpClientsApart DEF SentByDevice, RequestOf, TrafficInv
  <1> QED BY <1>1, <1>2 DEF TrafficInv, RequestsInv, SentByClient, SentByDevice

(* Each request that an application still handles belongs to an open slot  *)
(* of the client it came from and carries its time: Process() and Send()   *)
(* of the clients and HandleRead() of clients and devices, in any order.   *)
THEOREM RequestsHaveTheirSlot ==
    ASSUME DevicesKeepNodes
    PROVE  Spec => []RequestsBelongToSlots
  <1>1. TrafficExchangeInv => RequestsBelongToSlots
    BY UpClientsRequests
    DEF TrafficExchangeInv, TrafficInv, RequestsInv, RequestsBelongToSlots, OpenRequest,
        ClientUp
  <1> QED BY <1>1, TrafficInvariant, PTL

LEMMA OnTheWayDisjoint ==
    ASSUME DevicesKeepNodes, PeersAreOthers, TrafficExchangeInv, NEW c \in Clients, ClientUp(c)
    PROVE  LET ids == IdsOnTheWay(c) IN
           \A x, y \in DOMAIN ids : x # y => ids[x] \cap ids[y] = {}
  <1> USE DEF TrafficExchangeInv, TrafficInv
  <1>1. /\ \A m : m \in net => m \in Messages /\ m \notin Replies /\ m \notin sendEvents[c]
        /\ \A m : m \in sendEvents[c] => m \in Messages /\ m \notin Replies
        /\ \A m : m \in Replies => m \in Messages
    <2>1. \A m : m \in Replies <=> \E d \in Devices : m \in replyEvents[d]
      BY Zenon DEF Replies
    <2>2. \A m \in net : m \notin Replies /\ m \notin sendEvents[c]
      BY <2>1, PacketIsNoEvent
      DEF ExchangeInv, TypeInv, TypeOK, SimulationTypeOK, ClientTypeOK, DeviceTypeOK
    <2>3. \A m \in sendEvents[c] : m \notin Replies
      BY <2>1 DEF OneMessagePerId
    <2> QED BY <2>1, <2>2, <2>3, MessagesMembers
  <1>2. /\ \A e \in sendEvents[c] : e.seq # INVALID
        /\ \A p \in net : RequestOf(c, p) => p.seq # INVALID /\ p.dst = PeerAddress(c)
        /\ \A m : ReplyTo(c, m) => m.seq # INVALID /\ m.dst # PeerAddress(c)
    <2>1. \A id \in DOMAIN sentPayloadIds[c] : id # INVALID
      BY MessagesIssued DEF ExchangeInv
    <2>2. ClientAddress(c) # PeerAddress(c)
      BY DEF PeersAreOthers, ClientAddress, PeerAddress
    <2> QED BY <2>1, <2>2, UpClientsRequests DEF RequestsInv, OpenRequest, ReplyTo
  <1>3. \A m, x \in Messages : m.seq = x.seq /\ m.seq # INVALID => m = x
    BY DEF OneMessagePerId
  <1> DEFINE toSend   == {e.seq : e \in sendEvents[c]}
             toDevice == {p.seq : p \in {q \in net : RequestOf(c, q)}}
             atDevice == {e.seq : e \in {x \in Replies : ReplyTo(c, x)}}
             toClient == {p.seq : p \in {q \in net : ReplyTo(c, q)}}
  <1>4. toSend \cap toDevice = {} /\ toSend \cap atDevice = {} /\ toSend \cap toClient = {}
    BY <1>1, <1>2, <1>3
  <1>5. toDevice \cap atDevice = {} /\ toDevice \cap toClient = {}
    BY <1>1, <1>2, <1>3
  <1>6. atDevice \cap toClient = {}
    BY <1>1, <1>2, <1>3
  <1>7. IdsOnTheWay(c) = [toSend |-> toSend, toDevice |-> toDevice, atDevice |-> atDevice,
                          toClient |-> toClient]
    BY DEF IdsOnTheWay
  <1> HIDE DEF toSend, toDevice, atDevice, toClient
  <1> QED BY <1>4, <1>5, <1>6, <1>7

(* A request of a client that is up has one message at most: it waits for  *)
(* the client's processing time or the device's, or is in the network, on  *)
(* its way there or back.                                                  *)
THEOREM RequestsHaveOneMessage ==
    ASSUME DevicesKeepNodes, PeersAreOthers
    PROVE  Spec => []OneMessagePerRequest
  <1>1. TrafficExchangeInv => OneMessagePerRequest
    BY OnTheWayDisjoint DEF OneMessagePerRequest, ClientUp
  <1> QED BY <1>1, TrafficInvariant, PTL

-----------------------------------------------------------------------------
(* Nothing is overdue.                                                     *)

LEMMA EventTimes ==
    ASSUME TypeInv
    PROVE  /\ now \in Nat /\ MaxDelay \in Nat
           /\ \A c \in Clients : \A e \in sendEvents[c] : e.at \in Nat
           /\ \A d \in Devices : \A e \in replyEvents[d] : e.at \in Nat
           /\ \A p \in net : p.left \in Nat
  <1>1. now \in Nat /\ MaxDelay \in Nat /\ \A p \in net : p.left \in Nat
    BY SimulationAssumption DEF TypeInv, TypeOK, SimulationTypeOK, Packet, Time
  <1>2. \A c \in Clients : \A e \in sendEvents[c] : e.at \in Nat
    BY DEF TypeInv, TypeOK, ClientTypeOK, SendEvent, Time
  <1>3. \A d \in Devices : \A e \in replyEvents[d] : e.at \in Nat
    BY DEF TypeInv, TypeOK, DeviceTypeOK, SendEvent, Time
  <1> QED BY <1>1, <1>2, <1>3

(* The clock stands still: what is new is due now or later.                *)
LEMMA OverdueQuiet ==
    ASSUME NothingOverdue, UNCHANGED now,
           \A c \in Clients : \A e \in sendEvents'[c] : e \in sendEvents[c] \/ now <= e.at,
           \A d \in Devices : \A e \in replyEvents'[d] : e \in replyEvents[d] \/ now <= e.at,
           \A p \in net' : p \in net \/ now <= p.left + MaxDelay
    PROVE  NothingOverdue'
  BY DEF NothingOverdue

(* What the two calls that schedule a reply do.                            *)
LEMMA DataScheduled ==
    ASSUME NEW d \in Devices, DeviceProcess(d)
    PROVE  \/ UNCHANGED replyEvents
           \/ \E delay \in DeviceDelays : \E e :
                /\ e.at = now + delay
                /\ replyEvents' = [replyEvents EXCEPT ![d] = @ \cup {e}]
  <1>1. ASSUME NEW seq, NEW delay \in DeviceDelays,
               replyEvents' = [replyEvents EXCEPT ![d] = @ \cup {
                   [at |-> now + delay, ts |-> now, seq |-> seq,
                    dst |-> [node |-> DataPeer[d], port |-> DevicePort]]}]
        PROVE  \E y \in DeviceDelays : \E e :
                 /\ e.at = now + y
                 /\ replyEvents' = [replyEvents EXCEPT ![d] = @ \cup {e}]
    <2> WITNESS delay \in DeviceDelays,
                [at |-> now + delay, ts |-> now, seq |-> seq,
                 dst |-> [node |-> DataPeer[d], port |-> DevicePort]]
    <2> QED BY <1>1
  <1> QED BY <1>1 DEF DeviceProcess

LEMMA ReplyScheduled ==
    ASSUME NEW d \in Devices, NEW p \in net, DeviceHandleRead(d, p)
    PROVE  \/ status' = "aborted" /\ UNCHANGED <<net, replyEvents>>
           \/ /\ net' = net \ {p}
              /\ \E delay \in DeviceDelays : \E e :
                   /\ e.at = now + delay /\ e.dst = p.src /\ e.seq = p.seq
                   /\ replyEvents' = [replyEvents EXCEPT ![d] = @ \cup {e}]
  <1>1. ASSUME NEW delay \in DeviceDelays,
               replyEvents' = [replyEvents EXCEPT ![d] = @ \cup {
                   [at |-> now + delay, dst |-> p.src, seq |-> p.seq, ts |-> now]}]
        PROVE  \E y \in DeviceDelays : \E e :
                 /\ e.at = now + y /\ e.dst = p.src /\ e.seq = p.seq
                 /\ replyEvents' = [replyEvents EXCEPT ![d] = @ \cup {e}]
    <2> WITNESS delay \in DeviceDelays,
                [at |-> now + delay, dst |-> p.src, seq |-> p.seq, ts |-> now]
    <2> QED BY <1>1
  <1> QED BY <1>1 DEF DeviceHandleRead, Abort

LEMMA OverdueStep ==
    ASSUME TypeInv, NothingOverdue, [Next]_vars
    PROVE  NothingOverdue'
  <1>1. CASE ClientNext /\ UNCHANGED deviceVars
    <2>1. UNCHANGED replyEvents
      BY <1>1 DEF deviceVars
    <2>2. ASSUME NEW c \in Clients, ClientStart(c)
          PROVE  NothingOverdue'
      BY <2>1, <2>2, OverdueQuiet DEF ClientStart
    <2>3. ASSUME NEW c \in Clients, ClientStop(c)
          PROVE  NothingOverdue'
      BY <2>1, <2>3, OverdueQuiet DEF ClientStop, TypeInv, TypeOK, ClientTypeOK
    <2>4. ASSUME NEW c \in Clients, ClientProcess(c)
          PROVE  NothingOverdue'
      <3>1. PICK delay \in ClientDelays :
              sendEvents' = [sendEvents EXCEPT ![c] = @ \cup
                {[at |-> now + delay, seq |-> nextPayloadId, ts |-> now,
                  dst |-> PeerAddress(c)]}]
        BY <2>4 DEF ClientProcess, ScheduleSend, PeerAddress
      <3>2. now <= now + delay
        BY EventTimes, DeviceClientAssumption
      <3>3. \A x \in Clients : \A e \in sendEvents'[x] :
              e \in sendEvents[x] \/ e.at = now + delay
        BY <3>1 DEF TypeInv, TypeOK, ClientTypeOK
      <3> QED BY <2>1, <2>4, <3>2, <3>3, OverdueQuiet DEF ClientProcess
    <2>5. ASSUME NEW c \in Clients, NEW e \in sendEvents[c], ClientSend(c, e)
          PROVE  NothingOverdue'
      <3>1. \A p \in net' : p \in net \/ p.left = now
        BY <2>5 DEF ClientSend, PacketOf
      <3>2. \A x \in Clients : sendEvents'[x] \subseteq sendEvents[x]
        BY <2>5 DEF ClientSend, TypeInv, TypeOK, ClientTypeOK
      <3>3. now <= now + MaxDelay
        BY EventTimes
      <3> QED BY <2>1, <2>5, <3>1, <3>2, <3>3, OverdueQuiet DEF ClientSend
    <2>6. ASSUME NEW c \in Clients, NEW p \in net, ClientHandleRead(c, p)
          PROVE  NothingOverdue'
      BY <2>1, <2>6, OverdueQuiet DEF ClientHandleRead
    <2> QED BY <1>1, <2>2, <2>3, <2>4, <2>5, <2>6 DEF ClientNext
  <1>2. CASE DeviceNext /\ UNCHANGED clientVars
    <2>1. UNCHANGED sendEvents
      BY <1>2 DEF clientVars
    <2>2. ASSUME NEW d \in Devices, DeviceStart(d) \/ DeviceStop(d) \/ WriteData(d)
          PROVE  NothingOverdue'
      <3>1. UNCHANGED <<now, net, replyEvents>>
        BY <2>2 DEF DeviceStart, DeviceStop, WriteData, deviceVars
      <3> QED BY <2>1, <3>1, OverdueQuiet
    <2>3. ASSUME NEW d \in Devices, DeviceProcess(d)
          PROVE  NothingOverdue'
      <3>1. CASE UNCHANGED replyEvents
        BY <2>1, <2>3, <3>1, OverdueQuiet DEF DeviceProcess
      <3>2. ASSUME NEW delay \in DeviceDelays, NEW e, e.at = now + delay,
                   replyEvents' = [replyEvents EXCEPT ![d] = @ \cup {e}]
            PROVE  NothingOverdue'
        <4>1. now <= now + delay
          BY EventTimes, FmuDeviceAssumption
        <4>2. \A x \in Devices : \A y \in replyEvents'[x] : y \in replyEvents[x] \/ y = e
          BY <3>2 DEF TypeInv, TypeOK, DeviceTypeOK
        <4> QED BY <2>1, <2>3, <3>2, <4>1, <4>2, OverdueQuiet DEF DeviceProcess
      <3> QED BY <2>3, <3>1, <3>2, DataScheduled
    <2>4. ASSUME NEW d \in Devices, NEW p \in net, DeviceHandleRead(d, p)
          PROVE  NothingOverdue'
      <3>1. CASE UNCHANGED <<net, replyEvents>>
        BY <2>1, <2>4, <3>1, OverdueQuiet DEF DeviceHandleRead
      <3>2. ASSUME NEW delay \in DeviceDelays, net' = net \ {p}, NEW e, e.at = now + delay,
                   replyEvents' = [replyEvents EXCEPT ![d] = @ \cup {e}]
            PROVE  NothingOverdue'
        <4>1. now <= now + delay
          BY EventTimes, FmuDeviceAssumption
        <4>2. \A x \in Devices : \A y \in replyEvents'[x] : y \in replyEvents[x] \/ y = e
          BY <3>2 DEF TypeInv, TypeOK, DeviceTypeOK
        <4> QED BY <2>1, <2>4, <3>2, <4>1, <4>2, OverdueQuiet DEF DeviceHandleRead
      <3> QED BY <2>4, <3>1, <3>2, ReplyScheduled
    <2>5. ASSUME NEW d \in Devices, NEW e \in replyEvents[d], DeviceSend(d, e)
          PROVE  NothingOverdue'
      <3>1. \A p \in net' : p \in net \/ p.left = now
        BY <2>5 DEF DeviceSend, PacketOf
      <3>2. \A x \in Devices : replyEvents'[x] \subseteq replyEvents[x]
        BY <2>5 DEF DeviceSend, TypeInv, TypeOK, DeviceTypeOK
      <3>3. now <= now + MaxDelay
        BY EventTimes
      <3> QED BY <2>1, <2>5, <3>1, <3>2, <3>3, OverdueQuiet DEF DeviceSend
    <2> QED BY <1>2, <2>2, <2>3, <2>4, <2>5 DEF DeviceNext
  <1>3. CASE (\E p \in net : DropPacket(p)) /\ UNCHANGED <<clientVars, deviceVars>>
    BY <1>3, OverdueQuiet DEF DropPacket, clientVars, deviceVars
  <1>4. CASE Tick
    <2>1. /\ UNCHANGED <<net, sendEvents, replyEvents>> /\ now' = now + 1
          /\ \A c \in Clients : \A e \in sendEvents[c] : e.at # now
          /\ \A d \in Devices : \A e \in replyEvents[d] : e.at # now
          /\ \A p \in net : now < p.left + MaxDelay
      BY <1>4 DEF Tick, ClientIdle, DeviceIdle, clientVars, deviceVars
    <2>2. \A x \in Nat : now <= x /\ now # x => now + 1 <= x
      BY EventTimes
    <2>3. \A x \in Nat : now < x + MaxDelay => now + 1 <= x + MaxDelay
      BY EventTimes
    <2> QED BY <2>1, <2>2, <2>3, EventTimes DEF NothingOverdue
  <1>5. CASE UNCHANGED vars
    BY <1>5, OverdueQuiet DEF vars, simulationVars, clientVars, deviceVars
  <1> QED BY <1>1, <1>2, <1>3, <1>4, <1>5 DEF Next, Ended

-----------------------------------------------------------------------------
(* A request is pursued until it is answered.                              *)

(* Why nobody waits for the answer to request id of client c.              *)
Excused(c, id) ==
    \/ status = "aborted"
    \/ id \in dropped
    \/ clientState[c] = "stopped"

LEMMA DelayBounds ==
    ASSUME HasLongest(ClientDelays), HasLongest(DeviceDelays)
    PROVE  /\ Asked \in Nat /\ LongestOf(DeviceDelays) \in Nat /\ MaxDelay \in Nat
           /\ Returned = Asked + MaxDelay + LongestOf(DeviceDelays)
           /\ ResponseTime = Asked + LongestOf(DeviceDelays) + 2 * MaxDelay
           /\ \A x \in ClientDelays : x \in Nat /\ x <= Asked
           /\ \A x \in DeviceDelays : x \in Nat /\ x <= LongestOf(DeviceDelays)
  <1>1. \A delays : HasLongest(delays) =>
          /\ LongestOf(delays) \in delays
          /\ \A x \in delays : x <= LongestOf(delays)
    BY DEF HasLongest, LongestOf
  <1> QED BY <1>1, SimulationAssumption, DeviceClientAssumption, FmuDeviceAssumption
          DEF Asked, Returned, ResponseTime

(* Steps that take no message away.                                        *)
LEMMA PursuedQuiet ==
    ASSUME NEW c \in Clients, NEW id, NEW t, Pursued(c, id, t),
           ClientAddress(c)' = ClientAddress(c),
           net \subseteq net', sendEvents[c] \subseteq sendEvents'[c],
           \A d \in Devices : replyEvents[d] \subseteq replyEvents'[d]
    PROVE  Pursued(c, id, t)'
  <1>1. ToSend(c, id, t) => ToSend(c, id, t)'
    BY DEF ToSend, Asked
  <1>2. ToDevice(c, id, t) => ToDevice(c, id, t)'
    BY DEF ToDevice, Asked, PeerAddress
  <1>3. AtDevice(c, id, t) => AtDevice(c, id, t)'
    BY DEF AtDevice, Returned
  <1>4. ToClient(c, id, t) => ToClient(c, id, t)'
    BY DEF ToClient, Returned
  <1> QED BY <1>1, <1>2, <1>3, <1>4 DEF Pursued

LEMMA PursuedClientSend ==
    ASSUME TypeInv, RequestsInv, NothingOverdue, UNCHANGED replyEvents,
           NEW c \in Clients, NEW id, NEW t, Pursued(c, id, t), ClientUp(c),
           ClientAddress(c)' = ClientAddress(c),
           NEW x \in Clients, NEW e \in sendEvents[x], ClientSend(x, e)
    PROVE  status' = "aborted" \/ Pursued(c, id, t)'
  <1> DEFINE m == PacketOf(e, ClientAddress(x))
  <1>1. /\ net \subseteq net'
        /\ status' = "aborted" \/ m \in net'
        /\ \A y \in Clients : sendEvents'[y] = IF y = x THEN sendEvents[x] \ {e}
                                               ELSE sendEvents[y]
    BY DEF ClientSend, Abort, TypeInv, TypeOK, ClientTypeOK
  <1>2. CASE x = c /\ e.seq = id /\ e.at <= t + Asked
    <2>1. /\ m.seq = id /\ m.src = ClientAddress(c) /\ m.dst = PeerAddress(c) /\ m.left = now
          /\ e.at = now
      BY <1>2 DEF PacketOf, RequestsInv, ClientSend
    <2> HIDE DEF m
    <2>2. m \in net' => ToDevice(c, id, t)'
      BY <1>2, <2>1 DEF ToDevice, PeerAddress, Asked
    <2> QED BY <1>1, <2>2 DEF Pursued
  <1>3. CASE ~(x = c /\ e.seq = id /\ e.at <= t + Asked)
    <2>1. ToSend(c, id, t) => ToSend(c, id, t)'
      BY <1>1, <1>3 DEF ToSend, Asked
    <2>2. ToDevice(c, id, t) => ToDevice(c, id, t)'
      BY <1>1 DEF ToDevice, PeerAddress, Asked
    <2>3. AtDevice(c, id, t) => AtDevice(c, id, t)'
      BY DEF AtDevice, Returned
    <2>4. ToClient(c, id, t) => ToClient(c, id, t)'
      BY <1>1 DEF ToClient, Returned
    <2> QED BY <2>1, <2>2, <2>3, <2>4 DEF Pursued
  <1> QED BY <1>2, <1>3

(* A request in the network is read by no client, and a reply only by the  *)
(* client that made the request, which closes it.                          *)
LEMMA PursuedClientHandleRead ==
    ASSUME PeersAreNoClients, TypeInv, AddressInv, UNCHANGED <<sendEvents, replyEvents>>,
           NEW c \in Clients, NEW id \in DOMAIN sentPayloadIds[c], NEW t,
           Pursued(c, id, t), ClientUp(c), ClientAddress(c)' = ClientAddress(c),
           NEW x \in Clients, NEW p \in net, ClientHandleRead(x, p)
    PROVE  id \notin DOMAIN sentPayloadIds'[c] \/ Pursued(c, id, t)'
  <1>1. net' = net \ {p} /\ p.dst = ClientAddress(x) /\ ClientUp(x)
    BY DEF ClientHandleRead, ClientUp
  <1>2. CASE p.seq = id /\ p.dst = ClientAddress(c)
    <2>1. x = c
      BY <1>1, <1>2 DEF AddressInv, PortsInOrder, ClientStarted, ClientUp, ClientAddress
    <2>2. id \notin DOMAIN sentPayloadIds'[c]
      BY <1>2, <2>1 DEF ClientHandleRead, Erase, TypeInv, TypeOK, ClientTypeOK
    <2> QED BY <2>2
  <1>3. CASE ~(p.seq = id /\ p.dst = ClientAddress(c))
    <2>1. p.dst # PeerAddress(c)
      BY <1>1 DEF PeersAreNoClients, PeerAddress, ClientAddress
    <2>2. ToSend(c, id, t) => ToSend(c, id, t)'
      BY DEF ToSend, Asked
    <2>3. ToDevice(c, id, t) => ToDevice(c, id, t)'
      BY <1>1, <2>1 DEF ToDevice, PeerAddress, Asked
    <2>4. AtDevice(c, id, t) => AtDevice(c, id, t)'
      BY DEF AtDevice, Returned
    <2>5. ToClient(c, id, t) => ToClient(c, id, t)'
      BY <1>1, <1>3 DEF ToClient, Returned
    <2> QED BY <2>2, <2>3, <2>4, <2>5 DEF Pursued
  <1> QED BY <1>2, <1>3

(* A device reads no reply, and answers the request it reads to the sender.*)
LEMMA PursuedDeviceHandleRead ==
    ASSUME HasLongest(ClientDelays), HasLongest(DeviceDelays),
           TypeInv, AddressInv, NothingOverdue, UNCHANGED sendEvents,
           NEW c \in Clients, NEW id, NEW t \in Nat, Pursued(c, id, t), ClientUp(c),
           ClientAddress(c)' = ClientAddress(c),
           NEW d \in Devices, NEW p \in net, DeviceHandleRead(d, p)
    PROVE  status' = "aborted" \/ Pursued(c, id, t)'
  <1>1. CASE status' = "aborted"
    BY <1>1
  <1>2. ASSUME net' = net \ {p}, NEW delay \in DeviceDelays, NEW e,
               e.at = now + delay, e.dst = p.src, e.seq = p.seq,
               replyEvents' = [replyEvents EXCEPT ![d] = @ \cup {e}]
        PROVE  Pursued(c, id, t)'
    <2>1. p.dst # ClientAddress(c)
      BY DEF AddressInv, AddressesOwned, DeviceHandleRead, DeviceUp
    <2>2. /\ e \in replyEvents'[d]
          /\ \A x \in Devices : replyEvents[x] \subseteq replyEvents'[x]
      BY <1>2 DEF TypeInv, TypeOK, DeviceTypeOK
    <2>3. ToSend(c, id, t) => ToSend(c, id, t)'
      BY DEF ToSend, Asked
    <2>4. ToDevice(c, id, t) => ToDevice(c, id, t)' \/ AtDevice(c, id, t)'
      <3> SUFFICES ASSUME NEW q \in net, q.seq = id, q.src = ClientAddress(c),
                          q.dst = PeerAddress(c), q.left <= t + Asked
                   PROVE  ToDevice(c, id, t)' \/ AtDevice(c, id, t)'
        BY DEF ToDevice
      <3>1. CASE q = p
        <4>1. now <= p.left + MaxDelay
          BY DEF NothingOverdue
        <4>2. /\ now \in Nat /\ p.left \in Nat /\ delay \in Nat /\ Asked \in Nat
              /\ MaxDelay \in Nat /\ LongestOf(DeviceDelays) \in Nat
              /\ delay <= LongestOf(DeviceDelays)
              /\ Returned = Asked + MaxDelay + LongestOf(DeviceDelays)
          BY EventTimes, DelayBounds
        <4>3. now + delay <= t + Returned
          BY <3>1, <4>1, <4>2
        <4> QED BY <1>2, <2>2, <3>1, <4>3 DEF AtDevice, Returned
      <3>2. CASE q # p
        BY <1>2, <3>2 DEF ToDevice, PeerAddress, Asked
      <3> QED BY <3>1, <3>2
    <2>5. AtDevice(c, id, t) => AtDevice(c, id, t)'
      BY <2>2 DEF AtDevice, Returned
    <2>6. ToClient(c, id, t) => ToClient(c, id, t)'
      BY <1>2, <2>1 DEF ToClient, Returned
    <2> QED BY <2>3, <2>4, <2>5, <2>6 DEF Pursued
  <1> QED BY <1>1, <1>2, ReplyScheduled

LEMMA PursuedDeviceSend ==
    ASSUME TypeInv, UNCHANGED sendEvents,
           NEW c \in Clients, NEW id, NEW t, Pursued(c, id, t),
           ClientAddress(c)' = ClientAddress(c),
           NEW d \in Devices, NEW e \in replyEvents[d], DeviceSend(d, e)
    PROVE  id \in dropped' \/ Pursued(c, id, t)'
  <1> DEFINE m == PacketOf(e, DeviceAddress(d))
  <1>1. /\ net \subseteq net'
        /\ e.seq \in dropped' \/ m \in net'
        /\ \A x \in Devices : replyEvents'[x] = IF x = d THEN replyEvents[d] \ {e}
                                                ELSE replyEvents[x]
        /\ e.at = now
    BY DEF DeviceSend, TypeInv, TypeOK, DeviceTypeOK
  <1>2. CASE e.seq = id /\ e.dst = ClientAddress(c) /\ e.at <= t + Returned
    <2>1. m.seq = id /\ m.dst = ClientAddress(c) /\ m.left = now
      BY <1>2 DEF PacketOf
    <2> HIDE DEF m
    <2>2. m \in net' => ToClient(c, id, t)'
      BY <1>1, <1>2, <2>1 DEF ToClient, Returned
    <2> QED BY <1>1, <1>2, <2>2 DEF Pursued
  <1>3. CASE ~(e.seq = id /\ e.dst = ClientAddress(c) /\ e.at <= t + Returned)
    <2>1. ToSend(c, id, t) => ToSend(c, id, t)'
      BY DEF ToSend, Asked
    <2>2. ToDevice(c, id, t) => ToDevice(c, id, t)'
      BY <1>1 DEF ToDevice, PeerAddress, Asked
    <2>3. AtDevice(c, id, t) => AtDevice(c, id, t)'
      BY <1>1, <1>3 DEF AtDevice, Returned
    <2>4. ToClient(c, id, t) => ToClient(c, id, t)'
      BY <1>1 DEF ToClient, Returned
    <2> QED BY <2>1, <2>2, <2>3, <2>4 DEF Pursued
  <1> QED BY <1>2, <1>3

(* No step takes an excuse back.                                           *)
LEMMA ExcusedStays ==
    ASSUME TypeInv, [Next]_vars, NEW c \in Clients, NEW id, Excused(c, id)
    PROVE  Excused(c, id)'
  <1>1. status = "aborted" => status' = "aborted"
    BY DEF Next, ClientNext, DeviceNext, Ended, Tick, DropPacket, vars, simulationVars,
           ClientStart, ClientStop, ClientProcess, ClientSend, ClientHandleRead,
           DeviceStart, DeviceStop, DeviceProcess, DeviceHandleRead, DeviceSend, WriteData,
           Running
  <1>2. dropped \subseteq dropped'
    BY DEF Next, ClientNext, DeviceNext, Ended, Tick, DropPacket, vars, simulationVars,
           ClientStart, ClientStop, ClientProcess, ClientSend, ClientHandleRead,
           DeviceStart, DeviceStop, DeviceProcess, DeviceHandleRead, DeviceSend, WriteData
  <1>3. clientState[c] = "stopped" => clientState'[c] = "stopped"
    <2>1. clientState \in [Clients -> {"installed", "up", "stopped"}]
      BY DEF TypeInv, TypeOK, ClientTypeOK
    <2>2. CASE ClientNext
      <3> PICK x \in Clients :
             \/ ClientStart(x) \/ ClientStop(x) \/ ClientProcess(x)
             \/ \E e \in sendEvents[x] : ClientSend(x, e)
             \/ \E p \in net : ClientHandleRead(x, p)
        BY <2>2 DEF ClientNext
      <3>1. \/ UNCHANGED clientState
            \/ clientState' = [clientState EXCEPT ![x] = "up"] /\ clientState[x] = "installed"
            \/ clientState' = [clientState EXCEPT ![x] = "stopped"]
        BY DEF ClientStart, ClientStop, ClientProcess, ClientSend, ClientHandleRead
      <3> QED BY <2>1, <3>1
    <2>3. CASE UNCHANGED clientState
      BY <2>3
    <2> QED BY <2>2, <2>3 DEF Next, Tick, Ended, vars, clientVars
  <1> QED BY <1>1, <1>2, <1>3 DEF Excused

LEMMA PursuedStep ==
    ASSUME PeersAreNoClients, HasLongest(ClientDelays), HasLongest(DeviceDelays),
           TrafficExchangeInv, NothingOverdue, [Next]_vars, StartedStay,
           NEW c \in Clients, NEW id \in DOMAIN sentPayloadIds[c], NEW t \in Nat,
           Pursued(c, id, t), ~Excused(c, id)
    PROVE  \/ Excused(c, id)'
           \/ id \notin DOMAIN sentPayloadIds'[c]
           \/ Pursued(c, id, t)'
  <1> USE DEF TrafficExchangeInv, TrafficInv, ExchangeInv
  <1>1. ClientUp(c)
    BY DEF Excused, ClientUp, AddressInv, PortsInOrder, ClientStarted, TypeInv, TypeOK,
           ClientTypeOK
  <1>2. ClientAddress(c)' = ClientAddress(c)
    BY <1>1 DEF StartedStay, ClientStarted, ClientUp
  <1>3. CASE UNCHANGED <<net, sendEvents, replyEvents>>
    BY <1>2, <1>3, PursuedQuiet
  <1>4. CASE ClientNext /\ UNCHANGED deviceVars
    <2>1. UNCHANGED replyEvents
      BY <1>4 DEF deviceVars
    <2>2. ASSUME NEW x \in Clients, ClientStart(x)
          PROVE  Pursued(c, id, t)'
      BY <1>3, <2>1, <2>2, <1>2, PursuedQuiet DEF ClientStart
    <2>3. ASSUME NEW x \in Clients, ClientStop(x)
          PROVE  Excused(c, id)' \/ Pursued(c, id, t)'
      <3>1. CASE x = c
        BY <2>3, <3>1 DEF ClientStop, Excused, TypeInv, TypeOK, ClientTypeOK
      <3>2. CASE x # c
        BY <1>2, <2>1, <2>3, <3>2, PursuedQuiet DEF ClientStop, TypeInv, TypeOK, ClientTypeOK
      <3> QED BY <3>1, <3>2
    <2>4. ASSUME NEW x \in Clients, ClientProcess(x)
          PROVE  Pursued(c, id, t)'
      <3>1. sendEvents[c] \subseteq sendEvents'[c]
        BY <2>4 DEF ClientProcess, ScheduleSend, TypeInv, TypeOK, ClientTypeOK
      <3> QED BY <1>2, <2>1, <2>4, <3>1, PursuedQuiet DEF ClientProcess
    <2>5. ASSUME NEW x \in Clients, NEW e \in sendEvents[x], ClientSend(x, e)
          PROVE  Excused(c, id)' \/ Pursued(c, id, t)'
      BY <1>1, <1>2, <2>1, <2>5, PursuedClientSend DEF Excused
    <2>6. ASSUME NEW x \in Clients, NEW p \in net, ClientHandleRead(x, p)
          PROVE  id \notin DOMAIN sentPayloadIds'[c] \/ Pursued(c, id, t)'
      <3>1. UNCHANGED sendEvents
        BY <2>6 DEF ClientHandleRead
      <3> QED BY <1>1, <1>2, <2>1, <2>6, <3>1, PursuedClientHandleRead
    <2> QED BY <1>4, <2>2, <2>3, <2>4, <2>5, <2>6 DEF ClientNext
  <1>5. CASE DeviceNext /\ UNCHANGED clientVars
    <2>1. UNCHANGED sendEvents
      BY <1>5 DEF clientVars
    <2>2. ASSUME NEW d \in Devices, DeviceStart(d) \/ DeviceStop(d) \/ WriteData(d)
          PROVE  Pursued(c, id, t)'
      <3>1. UNCHANGED <<net, replyEvents>>
        BY <2>2 DEF DeviceStart, DeviceStop, WriteData, deviceVars
      <3> QED BY <1>2, <2>1, <3>1, PursuedQuiet
    <2>3. ASSUME NEW d \in Devices, DeviceProcess(d)
          PROVE  Pursued(c, id, t)'
      <3>1. \A x \in Devices : replyEvents[x] \subseteq replyEvents'[x]
        <4>1. CASE UNCHANGED replyEvents
          BY <4>1
        <4>2. ASSUME NEW e, replyEvents' = [replyEvents EXCEPT ![d] = @ \cup {e}]
              PROVE  \A x \in Devices : replyEvents[x] \subseteq replyEvents'[x]
          BY <4>2 DEF TypeInv, TypeOK, DeviceTypeOK
        <4> QED BY <2>3, <4>1, <4>2, DataScheduled
      <3> QED BY <1>2, <2>1, <2>3, <3>1, PursuedQuiet DEF DeviceProcess
    <2>4. ASSUME NEW d \in Devices, NEW p \in net, DeviceHandleRead(d, p)
          PROVE  Excused(c, id)' \/ Pursued(c, id, t)'
      BY <1>1, <1>2, <2>1, <2>4, PursuedDeviceHandleRead DEF Excused
    <2>5. ASSUME NEW d \in Devices, NEW e \in replyEvents[d], DeviceSend(d, e)
          PROVE  Excused(c, id)' \/ Pursued(c, id, t)'
      BY <1>2, <2>1, <2>5, PursuedDeviceSend DEF Excused
    <2> QED BY <1>5, <2>2, <2>3, <2>4, <2>5 DEF DeviceNext
  <1>6. ASSUME NEW p \in net, DropPacket(p), UNCHANGED <<clientVars, deviceVars>>
        PROVE  Excused(c, id)' \/ Pursued(c, id, t)'
    <2>1. /\ net' = net \ {p} /\ UNCHANGED <<sendEvents, replyEvents>>
          /\ p.seq \in dropped'
      BY <1>6 DEF DropPacket, clientVars, deviceVars
    <2>2. CASE p.seq = id
      BY <2>1, <2>2 DEF Excused
    <2>3. CASE p.seq # id
      <3>1. ToSend(c, id, t) => ToSend(c, id, t)'
        BY <2>1 DEF ToSend, Asked
      <3>2. ToDevice(c, id, t) => ToDevice(c, id, t)'
        BY <1>2, <2>1, <2>3 DEF ToDevice, PeerAddress, Asked
      <3>3. AtDevice(c, id, t) => AtDevice(c, id, t)'
        BY <1>2, <2>1 DEF AtDevice, Returned
      <3>4. ToClient(c, id, t) => ToClient(c, id, t)'
        BY <1>2, <2>1, <2>3 DEF ToClient, Returned
      <3> QED BY <3>1, <3>2, <3>3, <3>4 DEF Pursued
    <2> QED BY <2>2, <2>3
  <1> QED BY <1>3, <1>4, <1>5, <1>6
          DEF Next, Ended, Tick, vars, simulationVars, clientVars, deviceVars

(* Only Process() opens a request, and no step moves one to another time.  *)
LEMMA RequestTimesStay ==
    ASSUME ExchangeInv, [Next]_vars, NEW c \in Clients,
           NEW id \in DOMAIN sentPayloadIds'[c]
    PROVE  \/ /\ id \in DOMAIN sentPayloadIds[c]
              /\ sendRequestTimestamps'[c][sentPayloadIds'[c][id]]
                   = sendRequestTimestamps[c][sentPayloadIds[c][id]]
           \/ /\ ClientProcess(c) /\ id = nextPayloadId
              /\ sendRequestTimestamps'[c][sentPayloadIds'[c][id]] = now
  <1> DEFINE Goal == \/ /\ id \in DOMAIN sentPayloadIds[c]
                        /\ sendRequestTimestamps'[c][sentPayloadIds'[c][id]]
                             = sendRequestTimestamps[c][sentPayloadIds[c][id]]
                     \/ /\ ClientProcess(c) /\ id = nextPayloadId
                        /\ sendRequestTimestamps'[c][sentPayloadIds'[c][id]] = now
  <1>1. /\ sendRequestTimestamps \in [Clients -> Seq(Time)]
        /\ DOMAIN sentPayloadIds = Clients
        /\ sentPayloadIds[c] \in [DOMAIN sentPayloadIds[c] -> Slots(c)]
        /\ now \in Time
    BY DEF ExchangeInv, TypeInv, TypeOK, ClientTypeOK, SimulationTypeOK
  <1>2. CASE UNCHANGED ledgerVars
    BY <1>2 DEF ledgerVars
  <1>3. ASSUME NEW x \in Clients, ClientProcess(x)
        PROVE  Goal
    <2>1. CASE x # c
      BY <1>1, <1>3, <2>1 DEF ClientProcess
    <2>2. CASE x = c
      <3> DEFINE n == Len(sendRequestTimestamps[c])
      <3>1. /\ sentPayloadIds'[c] = Put(sentPayloadIds[c], nextPayloadId, n + 1)
            /\ sendRequestTimestamps'[c] = Append(sendRequestTimestamps[c], now)
            /\ n \in Nat /\ Slots(c) = 1 .. n
        BY <1>1, <1>3, <2>2 DEF ClientProcess, Slots
      <3>2. /\ \A i \in 1 .. n : sendRequestTimestamps'[c][i] = sendRequestTimestamps[c][i]
            /\ sendRequestTimestamps'[c][n + 1] = now
        BY <1>1, <3>1
      <3>3. CASE id = nextPayloadId
        BY <1>3, <2>2, <3>1, <3>2, <3>3 DEF Put
      <3>4. CASE id # nextPayloadId
        BY <1>1, <3>1, <3>2, <3>4 DEF Put
      <3> QED BY <3>3, <3>4
    <2> QED BY <2>1, <2>2
  <1>4. ASSUME NEW x \in Clients, NEW p \in net, ClientHandleRead(x, p)
        PROVE  Goal
    <2>1. CASE p.seq \notin DOMAIN sentPayloadIds[x]
      BY <1>2, <1>4, <2>1 DEF ClientHandleRead
    <2>2. CASE p.seq \in DOMAIN sentPayloadIds[x]
      <3>1. /\ UNCHANGED sendRequestTimestamps
            /\ sentPayloadIds' = [sentPayloadIds EXCEPT ![x] = Erase(@, p.seq)]
        BY <1>4, <2>2 DEF ClientHandleRead
      <3>2. CASE x = c
        BY <1>1, <3>1, <3>2 DEF Erase
      <3>3. CASE x # c
        BY <1>1, <3>1, <3>3
      <3> QED BY <3>2, <3>3
    <2> QED BY <2>1, <2>2
  <1>5. CASE ClientNext
    BY <1>2, <1>3, <1>4, <1>5 DEF ClientNext, ClientStart, ClientStop, ClientSend
  <1> QED BY <1>2, <1>5 DEF Next, Ended, Tick, vars, clientVars

LEMMA RequestsPursuedStep ==
    ASSUME PeersAreNoClients, HasLongest(ClientDelays), HasLongest(DeviceDelays),
           TrafficExchangeInv, ProgressInv, [Next]_vars
    PROVE  RequestsPursued'
  <1> USE DEF TrafficExchangeInv, TrafficInv, ProgressInv
  <1>1. TypeInv /\ TypeInv' /\ StartedStay
    BY TypeStep, StartedStep DEF ExchangeInv
  <1> SUFFICES ASSUME NEW c \in Clients, NEW id \in DOMAIN sentPayloadIds'[c], ~Excused(c, id)'
               PROVE  Pursued(c, id, sendRequestTimestamps[c][sentPayloadIds[c][id]])'
    BY DEF RequestsPursued, Excused
  <1>2. PICK t \in Nat : t = sendRequestTimestamps'[c][sentPayloadIds'[c][id]]
    <2>1. sentPayloadIds'[c][id] \in DOMAIN sendRequestTimestamps'[c]
      BY <1>1 DEF TypeInv, TypeOK, ClientTypeOK, Slots
    <2>2. sendRequestTimestamps'[c] \in Seq(Nat)
      BY <1>1 DEF TypeInv, TypeOK, ClientTypeOK, Time
    <2> QED BY <2>1, <2>2
  <1>3. ~Excused(c, id)
    BY <1>1, ExcusedStays
  <1>4. CASE /\ id \in DOMAIN sentPayloadIds[c]
             /\ t = sendRequestTimestamps[c][sentPayloadIds[c][id]]
    <2>1. Pursued(c, id, t)
      BY <1>3, <1>4 DEF RequestsPursued, Excused
    <2>2. Pursued(c, id, t)'
      BY <1>1, <1>3, <1>4, <2>1, PursuedStep
    <2> QED BY <1>2, <2>2 DEF Pursued, ToSend, ToDevice, AtDevice, ToClient, Asked, Returned
  <1>5. CASE ClientProcess(c) /\ id = nextPayloadId /\ t = now
    <2>1. PICK delay \in ClientDelays :
            sendEvents' = [sendEvents EXCEPT ![c] = @ \cup
              {[at |-> now + delay, seq |-> nextPayloadId, ts |-> now,
                dst |-> PeerAddress(c)]}]
      BY <1>5 DEF ClientProcess, ScheduleSend, PeerAddress
    <2>2. \E e \in sendEvents'[c] : e.seq = id /\ e.at = t + delay
      <3>1. [at |-> now + delay, seq |-> nextPayloadId, ts |-> now, dst |-> PeerAddress(c)]
              \in sendEvents'[c]
        BY <1>1, <2>1 DEF TypeInv, TypeOK, ClientTypeOK
      <3> QED BY <1>5, <3>1
    <2>3. t + delay <= t + Asked
      BY DelayBounds
    <2>4. ToSend(c, id, t)'
      BY <2>2, <2>3 DEF ToSend, Asked
    <2> QED BY <1>2, <2>4 DEF Pursued, ToSend, Asked
  <1> QED BY <1>2, <1>4, <1>5, RequestTimesStay

LEMMA PursuedInTime ==
    ASSUME HasLongest(ClientDelays), HasLongest(DeviceDelays), TypeInv, NothingOverdue,
           NEW c \in Clients, NEW id, NEW t \in Nat, Pursued(c, id, t)
    PROVE  now <= t + ResponseTime
  <1>1. /\ Asked \in Nat /\ LongestOf(DeviceDelays) \in Nat /\ MaxDelay \in Nat /\ now \in Nat
        /\ Returned = Asked + MaxDelay + LongestOf(DeviceDelays)
        /\ ResponseTime = Asked + LongestOf(DeviceDelays) + 2 * MaxDelay
    BY DelayBounds, EventTimes
  <1> HIDE DEF Asked, Returned
  <1>2. CASE ToSend(c, id, t)
    BY <1>1, <1>2, EventTimes DEF ToSend, NothingOverdue
  <1>3. CASE ToDevice(c, id, t)
    BY <1>1, <1>3, EventTimes DEF ToDevice, NothingOverdue
  <1>4. CASE AtDevice(c, id, t)
    BY <1>1, <1>4, EventTimes DEF AtDevice, NothingOverdue
  <1>5. CASE ToClient(c, id, t)
    BY <1>1, <1>5, EventTimes DEF ToClient, NothingOverdue
  <1> QED BY <1>2, <1>3, <1>4, <1>5 DEF Pursued

(* Every request is answered within the two longest processing times and   *)
(* two passages of the network, unless a message of it is lost, its client *)
(* stops or the program ends: no Send() is forgotten, whatever order the   *)
(* calls of the applications come in, and no reply goes to someone else.   *)
THEOREM RequestsAnsweredInTime ==
    ASSUME PeersAreNoClients, HasLongest(ClientDelays), HasLongest(DeviceDelays)
    PROVE  Spec => []AnsweredInTime
  <1> DEFINE Inv == TrafficExchangeInv /\ ProgressInv
  <1>1. Init => Inv
    <2> SUFFICES ASSUME Init PROVE Inv
      OBVIOUS
    <2>1. TrafficExchangeInv
      BY TypeInit, LedgerInit, TrafficInit DEF TrafficExchangeInv, ExchangeInv
    <2>2. ProgressInv
      BY DEF Init, SimulationInit, ClientInit, DeviceInit, ProgressInv, NothingOverdue,
             RequestsPursued
    <2> QED BY <2>1, <2>2
  <1>2. Inv /\ [Next]_vars => Inv'
    BY TrafficStep, OverdueStep, RequestsPursuedStep
    DEF ProgressInv, TrafficExchangeInv, ExchangeInv
  <1>3. Inv => AnsweredInTime
    <2> SUFFICES ASSUME Inv, NEW c \in Clients, NEW id \in DOMAIN sentPayloadIds[c],
                        ~Excused(c, id)
                 PROVE  now <= sendRequestTimestamps[c][sentPayloadIds[c][id]] + ResponseTime
      BY DEF AnsweredInTime, Excused
    <2>1. TypeInv
      BY DEF TrafficExchangeInv, ExchangeInv
    <2>2. PICK t \in Nat : t = sendRequestTimestamps[c][sentPayloadIds[c][id]]
      <3>1. sentPayloadIds[c][id] \in DOMAIN sendRequestTimestamps[c]
        BY <2>1 DEF TypeInv, TypeOK, ClientTypeOK, Slots
      <3>2. sendRequestTimestamps[c] \in Seq(Nat)
        BY <2>1 DEF TypeInv, TypeOK, ClientTypeOK, Time
      <3> QED BY <3>1, <3>2
    <2>3. Pursued(c, id, t)
      BY <2>2 DEF ProgressInv, RequestsPursued, Excused
    <2> QED BY <2>1, <2>2, <2>3, PursuedInTime DEF ProgressInv
  <1> HIDE DEF Inv
  <1>4. Spec => []Inv
    BY <1>1, <1>2, PTL DEF Spec
  <1> QED BY <1>3, <1>4, PTL

=============================================================================
