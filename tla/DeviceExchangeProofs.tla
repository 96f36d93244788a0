------------------------ MODULE DeviceExchangeProofs ------------------------
(***************************************************************************)
(* Proofs about DeviceExchange and ClientResults, for any number of        *)
(* clients and devices, any network and any bounds: type correctness, the  *)
(* FMUs the devices work on, the ledgers of the clients, which stay        *)
(* consistent under loss, reordering, late replies and stopped             *)
(* applications and implement RequestLedger, and the results that are      *)
(* computed from them.                                                     *)
(***************************************************************************)
EXTENDS ClientResults, Loops, FiniteSetTheorems, TLAPS

-----------------------------------------------------------------------------
(* Facts about the operators.                                              *)

(* Replacing an element keeps a sequence's type and length.                *)
LEMMA ExceptSeqType ==
    ASSUME NEW T, NEW s \in Seq(T), NEW i, NEW v \in T
    PROVE  /\ [s EXCEPT ![i] = v] \in Seq(T)
           /\ Len([s EXCEPT ![i] = v]) = Len(s)
  <1>1. DOMAIN s = 1 .. Len(s) /\ Len(s) \in Nat /\ \A j \in 1 .. Len(s) : s[j] \in T
    OBVIOUS
  <1>2. [s EXCEPT ![i] = v] \in [1 .. Len(s) -> T]
    BY <1>1
  <1> QED BY <1>1, <1>2, SMT

(* A payload id is followed by a larger one, or by the invalid one.        *)
LEMMA NextIdType ==
    ASSUME NEW id \in PayloadIds, id # INVALID
    PROVE  /\ NextId(id) \in PayloadIds
           /\ NextId(id) # INVALID => NextId(id) = id + 1
  <1>1. CASE id + 1 < IdSpace
    BY <1>1, SimulationAssumption DEF NextId, PayloadIds, INVALID
  <1>2. CASE id + 1 = IdSpace
    BY <1>2, SimulationAssumption DEF NextId, PayloadIds, INVALID
  <1> QED BY <1>1, <1>2, SimulationAssumption DEF PayloadIds

(* The do-step loop makes a step at least and ends at or after the time it *)
(* is called for.                                                          *)
LEMMA SteppedToReaches ==
    ASSUME NEW tt \in Time, NEW time \in Time
    PROVE  /\ SteppedTo(tt, time) \in Time
           /\ SteppedTo(tt, time) >= time
           /\ SteppedTo(tt, time) >= tt + CommStep
  <1>1. CASE tt + CommStep >= time
    BY <1>1, FmuDeviceAssumption DEF SteppedTo, Steps, Time
  <1>2. CASE tt + CommStep < time
    <2> DEFINE k == (time - tt + CommStep - 1) \div CommStep
    <2>1. k \in Nat \ {0} /\ tt + k * CommStep >= time
      BY <1>2, FmuDeviceAssumption DEF Time
    <2>2. SteppedTo(tt, time) = tt + k * CommStep
      BY <1>2, FmuDeviceAssumption DEF SteppedTo, Steps, Time
    <2>3. k * CommStep >= CommStep
      BY <2>1, FmuDeviceAssumption
    <2>4. k * CommStep \in Nat
      BY <2>1, FmuDeviceAssumption
    <2> HIDE DEF k
    <2> QED BY <2>1, <2>2, <2>3, <2>4, FmuDeviceAssumption DEF Time
  <1> QED BY <1>1, <1>2, FmuDeviceAssumption DEF Time

-----------------------------------------------------------------------------
(* Type correctness. TypeOK is not inductive by itself: a call of Process()*)
(* addresses its peer, and WriteData() reads the FMU of its device.        *)

TypeInv == TypeOK /\ CallsPrepared

LEMMA TypeInit == Init => TypeInv
  <1> SUFFICES ASSUME Init PROVE TypeInv
    OBVIOUS
  <1> USE DEF Init
  <1>1. SimulationTypeOK
    BY SimulationAssumption
    DEF SimulationInit, SimulationTypeOK, Time, FIRST, PayloadIds
  <1>2. ClientTypeOK
    BY SimulationAssumption
    DEF ClientInit, ClientTypeOK, Time, Never, INVALID, PayloadIds, DevicePort, Slots
  <1>3. DeviceTypeOK
    BY FmuDeviceAssumption DEF DeviceInit, DeviceTypeOK, Time, Never
  <1>4. CallsPrepared
    BY DEF ClientInit, DeviceInit, CallsPrepared, Started
  <1> QED BY <1>1, <1>2, <1>3, <1>4 DEF TypeInv, TypeOK

(* What a step of one side leaves of the other side's variables.           *)
LEMMA TypeOfTheOthers ==
    ASSUME TypeInv
    PROVE  /\ UNCHANGED deviceVars => DeviceTypeOK'
           /\ UNCHANGED clientVars => ClientTypeOK'
           /\ UNCHANGED simulationVars => SimulationTypeOK'
           /\ UNCHANGED <<processEvent, deviceState, fmu, dataEvent, writeDataEvent>>
                => CallsPrepared'
  <1>1. UNCHANGED deviceVars => DeviceTypeOK'
    BY DEF TypeInv, TypeOK, DeviceTypeOK, deviceVars
  <1>2. UNCHANGED clientVars => ClientTypeOK'
    BY DEF TypeInv, TypeOK, ClientTypeOK, clientVars, ledgerVars, Slots
  <1>3. UNCHANGED simulationVars => SimulationTypeOK'
    BY DEF TypeInv, TypeOK, SimulationTypeOK, simulationVars
  <1>4. UNCHANGED <<processEvent, deviceState, fmu, dataEvent, writeDataEvent>>
          => CallsPrepared'
    BY DEF TypeInv, CallsPrepared, Started
  <1> QED BY <1>1, <1>2, <1>3, <1>4

LEMMA TypeClientStart ==
    ASSUME TypeInv, NEW c \in Clients, ClientStart(c), UNCHANGED deviceVars
    PROVE  TypeInv'
  <1> USE DEF TypeInv, TypeOK, ClientStart
  <1>1. SimulationTypeOK'
    BY DeviceClientAssumption DEF SimulationTypeOK, ClientTypeOK, Address, Abort
  <1>2. ClientTypeOK'
    <2>1. /\ nextPort' \in Nat
          /\ clientState' \in [Clients -> {"installed", "up", "stopped"}]
          /\ port' \in [Clients -> Nat]
          /\ processEvent' \in [Clients -> Time \cup {Never}]
      <3>1. CASE [node |-> ClientNode[c], port |-> nextPort] \in bound
        BY <3>1 DEF ClientTypeOK
      <3>2. CASE [node |-> ClientNode[c], port |-> nextPort] \notin bound
        <4>1. /\ nextPort' = nextPort + 1
              /\ clientState' = [clientState EXCEPT ![c] = "up"]
              /\ port' = [port EXCEPT ![c] = nextPort]
              /\ \/ UNCHANGED processEvent
                 \/ processEvent' = [processEvent EXCEPT ![c] = now]
          BY <3>2
        <4>2. nextPort' \in Nat
          BY <4>1 DEF ClientTypeOK
        <4>3. clientState' \in [Clients -> {"installed", "up", "stopped"}]
          BY <4>1 DEF ClientTypeOK
        <4>4. port' \in [Clients -> Nat]
          BY <4>1 DEF ClientTypeOK
        <4>5. processEvent' \in [Clients -> Time \cup {Never}]
          BY <4>1 DEF SimulationTypeOK, ClientTypeOK
        <4> QED BY <4>2, <4>3, <4>4, <4>5
      <3> QED BY <3>1, <3>2
    <2>2. UNCHANGED <<sendEvents, sendEvent, ledgerVars>>
      OBVIOUS
    <2> QED BY <2>1, <2>2 DEF ClientTypeOK, ledgerVars, Slots
  <1>3. CallsPrepared'
    BY DEF CallsPrepared, ClientTypeOK, deviceVars, Started
  <1> QED BY <1>1, <1>2, <1>3, TypeOfTheOthers

LEMMA TypeClientStop ==
    ASSUME TypeInv, NEW c \in Clients, ClientStop(c), UNCHANGED deviceVars
    PROVE  TypeInv'
  <1> USE DEF TypeInv, TypeOK, ClientStop
  <1>1. SimulationTypeOK'
    BY DEF SimulationTypeOK
  <1>2. ClientTypeOK'
    BY DEF ClientTypeOK, ledgerVars, Slots
  <1>3. CallsPrepared'
    BY TypeOfTheOthers DEF deviceVars
  <1> QED BY <1>1, <1>2, <1>3, TypeOfTheOthers

LEMMA TypeClientProcess ==
    ASSUME TypeInv, NEW c \in Clients, ClientProcess(c), UNCHANGED deviceVars
    PROVE  TypeInv'
  <1> USE DEF TypeInv, TypeOK, ClientProcess
  <1> DEFINE id   == nextPayloadId
             slot == Len(sendRequestTimestamps[c]) + 1
  <1>1. id \in PayloadIds /\ id # INVALID /\ now \in Time
    BY DEF SimulationTypeOK, FreshIdLeft
  <1>2. SimulationTypeOK'
    BY <1>1, NextIdType DEF SimulationTypeOK
  <1>3. RequestPeer[c] \in Nodes
    BY <1>1, DeviceClientAssumption DEF CallsPrepared, Time, Never
  <1>4. PICK delay \in ClientDelays :
          sendEvents' = [sendEvents EXCEPT ![c] = ScheduleSend(@,
              [at |-> now + delay, seq |-> id, ts |-> now,
               dst |-> [node |-> RequestPeer[c], port |-> DevicePort]])]
    OBVIOUS
  <1>5. sendEvents' \in [Clients -> SUBSET SendEvent]
    <2> DEFINE e == [at |-> now + delay, seq |-> id, ts |-> now,
                     dst |-> [node |-> RequestPeer[c], port |-> DevicePort]]
    <2>1. e \in SendEvent
      BY <1>1, <1>3, DeviceClientAssumption DEF SendEvent, Address, Time, DevicePort
    <2> HIDE DEF e
    <2>2. sendEvents' = [sendEvents EXCEPT ![c] = ScheduleSend(@, e)]
      BY <1>4 DEF e
    <2> QED BY <2>1, <2>2 DEF ClientTypeOK, ScheduleSend
  <1>6. /\ sendRequestTimestamps' \in [Clients -> Seq(Time)]
        /\ replyTimestamps' \in [Clients -> Seq(Time \cup {Never})]
        /\ receiveReplyTimestamps' \in [Clients -> Seq(Time \cup {Never})]
    <2>1. sendRequestTimestamps' \in [Clients -> Seq(Time)]
      BY <1>1 DEF ClientTypeOK
    <2>2. replyTimestamps' \in [Clients -> Seq(Time \cup {Never})]
      BY DEF ClientTypeOK
    <2>3. receiveReplyTimestamps' \in [Clients -> Seq(Time \cup {Never})]
      BY DEF ClientTypeOK
    <2> QED BY <2>1, <2>2, <2>3
  <1>7. /\ \A x \in Clients : Slots(x) \subseteq Slots(x)'
        /\ slot \in Slots(c)'
    BY <1>1 DEF ClientTypeOK, Slots
  <1>8. /\ DOMAIN sentPayloadIds' = Clients
        /\ \A x \in Clients :
             /\ DOMAIN sentPayloadIds'[x] \subseteq PayloadIds
             /\ sentPayloadIds'[x] \in [DOMAIN sentPayloadIds'[x] -> Slots(x)']
    BY <1>1, <1>7 DEF ClientTypeOK, Put
  <1>9. processEvent' \in [Clients -> Time \cup {Never}] /\ sendEvent' \in [Clients -> PayloadIds]
    BY <1>1, DeviceClientAssumption DEF ClientTypeOK, Time
  <1>10. ClientTypeOK'
    BY <1>5, <1>6, <1>8, <1>9 DEF ClientTypeOK
  <1>11. CallsPrepared'
    BY <1>3, DeviceClientAssumption DEF CallsPrepared, deviceVars, Started, ClientTypeOK
  <1> QED BY <1>2, <1>10, <1>11, TypeOfTheOthers

(* A call of Send() puts a packet of the right type in the network.        *)
LEMMA PacketType ==
    ASSUME NEW e \in SendEvent, NEW src \in Address, now \in Time
    PROVE  PacketOf(e, src) \in Packet
  BY DEF PacketOf, SendEvent, Packet

LEMMA TypeClientSend ==
    ASSUME TypeInv, NEW c \in Clients, NEW e \in sendEvents[c], ClientSend(c, e),
           UNCHANGED deviceVars
    PROVE  TypeInv'
  <1> USE DEF TypeInv, TypeOK, ClientSend
  <1>1. PacketOf(e, ClientAddress(c)) \in Packet
    <2>1. ClientAddress(c) \in Address
      BY DeviceClientAssumption DEF ClientTypeOK, ClientAddress, Address
    <2>2. e \in SendEvent /\ now \in Time
      BY DEF ClientTypeOK, SimulationTypeOK
    <2> QED BY <2>1, <2>2, PacketType
  <1>2. SimulationTypeOK'
    BY <1>1 DEF SimulationTypeOK, Abort
  <1>3. ClientTypeOK'
    BY DEF ClientTypeOK, ledgerVars, Slots
  <1>4. CallsPrepared'
    BY TypeOfTheOthers DEF deviceVars
  <1> QED BY <1>2, <1>3, <1>4, TypeOfTheOthers

LEMMA TypeClientHandleRead ==
    ASSUME TypeInv, NEW c \in Clients, NEW p \in net, ClientHandleRead(c, p),
           UNCHANGED deviceVars
    PROVE  TypeInv'
  <1> USE DEF TypeInv, TypeOK, ClientHandleRead
  <1> DEFINE slot == SlotOf(c, p.seq)
  <1>1. SimulationTypeOK'
    BY DEF SimulationTypeOK
  <1>2. p.ts \in Time \cup {Never} /\ now \in Time \cup {Never}
    BY DEF SimulationTypeOK, Packet
  <1>3. ASSUME p.seq \in DOMAIN sentPayloadIds[c] PROVE ClientTypeOK'
    <2>1. /\ replyTimestamps' = [replyTimestamps EXCEPT ![c] = [@ EXCEPT ![slot] = p.ts]]
          /\ receiveReplyTimestamps' =
               [receiveReplyTimestamps EXCEPT ![c] = [@ EXCEPT ![slot] = now]]
          /\ sentPayloadIds' = [sentPayloadIds EXCEPT ![c] = Erase(@, p.seq)]
          /\ UNCHANGED sendRequestTimestamps
      BY <1>3
    <2>2. /\ replyTimestamps' \in [Clients -> Seq(Time \cup {Never})]
          /\ receiveReplyTimestamps' \in [Clients -> Seq(Time \cup {Never})]
      BY <1>2, <2>1, ExceptSeqType DEF ClientTypeOK
    <2>3. DOMAIN sentPayloadIds' = Clients
      BY <2>1 DEF ClientTypeOK
    <2>4. ASSUME NEW x \in Clients
          PROVE  /\ DOMAIN sentPayloadIds'[x] \subseteq PayloadIds
                 /\ sentPayloadIds'[x] \in [DOMAIN sentPayloadIds'[x] -> Slots(x)']
      <3>1. CASE x = c
        BY <2>1, <3>1 DEF ClientTypeOK, Erase, Slots
      <3>2. CASE x # c
        BY <2>1, <3>2 DEF ClientTypeOK, Slots
      <3> QED BY <3>1, <3>2
    <2> QED BY <2>1, <2>2, <2>3, <2>4 DEF ClientTypeOK
  <1>4. ASSUME p.seq \notin DOMAIN sentPayloadIds[c] PROVE ClientTypeOK'
    BY <1>4, TypeOfTheOthers DEF clientVars
  <1>5. CallsPrepared'
    BY TypeOfTheOthers DEF deviceVars
  <1> QED BY <1>1, <1>3, <1>4, <1>5, TypeOfTheOthers

(* What stepping an FMU does to the time and history variables.            *)
LEMMA TypeStepFmu ==
    ASSUME TypeInv, NEW d \in Devices, StepFmu(d)
    PROVE  fmuTime' \in [Devices -> Time] /\ lastStepped' \in [Devices -> Time]
  BY SteppedToReaches DEF TypeInv, TypeOK, StepFmu, DeviceTypeOK, SimulationTypeOK

LEMMA TypeDeviceStart ==
    ASSUME TypeInv, NEW d \in Devices, DeviceStart(d), UNCHANGED clientVars
    PROVE  TypeInv'
  <1> USE DEF TypeInv, TypeOK, DeviceStart
  <1>1. SimulationTypeOK'
    BY FmuDeviceAssumption DEF SimulationTypeOK, Address, DeviceAddress, DevicePort, Abort
  <1>2. CASE UNCHANGED deviceVars
    <2>1. CallsPrepared'
      BY <1>2, TypeOfTheOthers DEF deviceVars, clientVars
    <2> QED BY <1>1, <1>2, <2>1, TypeOfTheOthers
  <1>3. CASE /\ deviceState' = [deviceState EXCEPT ![d] = "up"]
             /\ InitFmu(d)
             /\ dataEvent' = IF DataPeer[d] = NoDataPeer THEN dataEvent
                             ELSE [dataEvent EXCEPT ![d] = now]
             /\ writeDataEvent' = IF d \notin Writers THEN writeDataEvent
                                  ELSE [writeDataEvent EXCEPT ![d] = now + now]
             /\ UNCHANGED <<status, replyEvents, rows, lastStepped>>
    <2>1. FmuOf(d) \in Devices
      BY FmuDeviceAssumption DEF DeviceTypeOK, FmuOf
    <2>2. /\ fmu' = [fmu EXCEPT ![d] = FmuOf(d)]
          /\ sharedFmus' = CollectionAfterInit(d)
          /\ fmuTime' \in {fmuTime, [fmuTime EXCEPT ![d] = FmuStart]}
      BY <1>3 DEF InitFmu
    <2>3. sharedFmus' \in [SharedNames -> Devices \cup {NoFmu}]
      BY <2>1, <2>2, FmuDeviceAssumption DEF DeviceTypeOK, CollectionAfterInit
    <2>4. /\ dataEvent' \in [Devices -> Time \cup {Never}]
          /\ writeDataEvent' \in [Devices -> Time \cup {Never}]
      BY <1>3 DEF DeviceTypeOK, SimulationTypeOK, Time
    <2>5. DeviceTypeOK'
      <3>1. deviceState' \in [Devices -> {"installed", "up", "stopped"}]
        BY <1>3 DEF DeviceTypeOK
      <3>2. fmu' \in [Devices -> Devices \cup {NoFmu}]
        BY <2>1, <2>2 DEF DeviceTypeOK
      <3>3. fmuTime' \in [Devices -> Time]
        <4>1. fmuTime \in [Devices -> Time]
          BY DEF DeviceTypeOK
        <4>2. FmuStart \in Time
          BY FmuDeviceAssumption DEF Time
        <4> QED BY <2>2, <4>1, <4>2
      <3>4. UNCHANGED <<replyEvents, rows, lastStepped>>
        BY <1>3
      <3> QED BY <2>3, <2>4, <3>1, <3>2, <3>3, <3>4 DEF DeviceTypeOK
    <2>6. CallsPrepared'
      BY <1>3, <2>1, <2>2, FmuDeviceAssumption
      DEF CallsPrepared, DeviceTypeOK, Started, clientVars
    <2> QED BY <1>1, <2>5, <2>6, TypeOfTheOthers
  <1> QED BY <1>2, <1>3

LEMMA TypeDeviceStop ==
    ASSUME TypeInv, NEW d \in Devices, DeviceStop(d), UNCHANGED clientVars
    PROVE  TypeInv'
  <1> USE DEF TypeInv, TypeOK, DeviceStop
  <1>1. SimulationTypeOK'
    BY DEF SimulationTypeOK
  <1>2. DeviceTypeOK'
    BY DEF DeviceTypeOK
  <1>3. CallsPrepared'
    BY DEF CallsPrepared, DeviceTypeOK, Started, clientVars
  <1> QED BY <1>1, <1>2, <1>3, TypeOfTheOthers

LEMMA TypeDeviceProcess ==
    ASSUME TypeInv, NEW d \in Devices, DeviceProcess(d), UNCHANGED clientVars
    PROVE  TypeInv'
  <1> USE DEF TypeInv, TypeOK, DeviceProcess
  <1>1. CASE /\ Abort
             /\ UNCHANGED <<nextPayloadId, fmuTime, lastStepped, replyEvents, dataEvent>>
    <2>1. SimulationTypeOK'
      BY <1>1 DEF SimulationTypeOK, Abort
    <2>2. DeviceTypeOK' /\ CallsPrepared'
      BY <1>1, TypeOfTheOthers DEF deviceVars, clientVars
    <2> QED BY <2>1, <2>2, TypeOfTheOthers
  <1>2. CASE /\ StepFmu(d)
             /\ \E fresh \in {FALSE} \cup {FreshIdLeft}, delay \in DeviceDelays :
                  /\ nextPayloadId' = IF fresh THEN NextId(nextPayloadId) ELSE nextPayloadId
                  /\ replyEvents' = [replyEvents EXCEPT ![d] = @ \cup {
                         [at  |-> now + delay, ts |-> now,
                          seq |-> IF fresh THEN nextPayloadId ELSE INVALID,
                          dst |-> [node |-> DataPeer[d], port |-> DevicePort]]}]
             /\ dataEvent' = [dataEvent EXCEPT ![d] = now + SendInterval]
             /\ UNCHANGED status
    <2>1. PICK fresh \in {FALSE} \cup {FreshIdLeft}, delay \in DeviceDelays :
            /\ nextPayloadId' = IF fresh THEN NextId(nextPayloadId) ELSE nextPayloadId
            /\ replyEvents' = [replyEvents EXCEPT ![d] = @ \cup {
                   [at  |-> now + delay, ts |-> now,
                    seq |-> IF fresh THEN nextPayloadId ELSE INVALID,
                    dst |-> [node |-> DataPeer[d], port |-> DevicePort]]}]
      BY <1>2
    <2>2. /\ now \in Time /\ nextPayloadId \in PayloadIds /\ delay \in Nat
          /\ INVALID \in PayloadIds
          /\ DataPeer[d] \in Nodes
          /\ fresh => nextPayloadId # INVALID
      <3>1. now \in Time /\ nextPayloadId \in PayloadIds
        BY DEF SimulationTypeOK
      <3>2. delay \in Nat
        BY FmuDeviceAssumption
      <3>3. INVALID \in PayloadIds
        BY SimulationAssumption DEF PayloadIds, INVALID
      <3>4. DataPeer[d] \in Nodes
        BY <3>1, FmuDeviceAssumption DEF CallsPrepared, Time, Never
      <3>5. fresh => nextPayloadId # INVALID
        BY DEF FreshIdLeft
      <3> QED BY <3>1, <3>2, <3>3, <3>4, <3>5
    <2>3. SimulationTypeOK'
      BY <2>1, <2>2, <1>2, NextIdType DEF SimulationTypeOK
    <2>4. replyEvents' \in [Devices -> SUBSET SendEvent]
      <3> DEFINE e == [at  |-> now + delay, ts |-> now,
                       seq |-> IF fresh THEN nextPayloadId ELSE INVALID,
                       dst |-> [node |-> DataPeer[d], port |-> DevicePort]]
      <3>1. e \in SendEvent
        BY <2>2 DEF SendEvent, Address, Time, DevicePort
      <3> HIDE DEF e
      <3>2. replyEvents' = [replyEvents EXCEPT ![d] = @ \cup {e}]
        BY <2>1 DEF e
      <3> QED BY <3>1, <3>2 DEF DeviceTypeOK
    <2>5. dataEvent' \in [Devices -> Time \cup {Never}]
      BY <1>2, <2>2, FmuDeviceAssumption DEF DeviceTypeOK, Time
    <2>6. DeviceTypeOK'
      BY <1>2, <2>4, <2>5, TypeStepFmu DEF DeviceTypeOK
    <2>7. CallsPrepared'
      BY <1>2, <2>2, FmuDeviceAssumption
      DEF CallsPrepared, DeviceTypeOK, Started, clientVars, Time, Never
    <2> QED BY <2>3, <2>6, <2>7, TypeOfTheOthers
  <1> QED BY <1>1, <1>2

LEMMA TypeDeviceHandleRead ==
    ASSUME TypeInv, NEW d \in Devices, NEW p \in net, DeviceHandleRead(d, p),
           UNCHANGED clientVars
    PROVE  TypeInv'
  <1> USE DEF TypeInv, TypeOK, DeviceHandleRead
  <1>1. CallsPrepared'
    BY TypeOfTheOthers DEF clientVars
  <1>2. CASE /\ Abort
             /\ UNCHANGED <<nextPayloadId, net, fmuTime, lastStepped, replyEvents>>
    <2>1. SimulationTypeOK'
      BY <1>2 DEF SimulationTypeOK, Abort
    <2>2. DeviceTypeOK'
      BY <1>2, TypeOfTheOthers DEF deviceVars
    <2> QED BY <1>1, <2>1, <2>2, TypeOfTheOthers
  <1>3. CASE /\ FreshIdLeft
             /\ net' = net \ {p}
             /\ StepFmu(d)
             /\ nextPayloadId' = NextId(nextPayloadId)
             /\ \E delay \in DeviceDelays :
                  replyEvents' = [replyEvents EXCEPT ![d] = @ \cup {
                      [at |-> now + delay, dst |-> p.src, seq |-> p.seq, ts |-> now]}]
             /\ UNCHANGED status
    <2>1. PICK delay \in DeviceDelays :
            replyEvents' = [replyEvents EXCEPT ![d] = @ \cup {
                [at |-> now + delay, dst |-> p.src, seq |-> p.seq, ts |-> now]}]
      BY <1>3
    <2>2. SimulationTypeOK'
      BY <1>3, NextIdType DEF SimulationTypeOK, FreshIdLeft
    <2>3. replyEvents' \in [Devices -> SUBSET SendEvent]
      <3> DEFINE e == [at |-> now + delay, dst |-> p.src, seq |-> p.seq, ts |-> now]
      <3>1. p \in Packet /\ now \in Nat /\ delay \in Nat
        BY FmuDeviceAssumption DEF SimulationTypeOK, Time
      <3>2. e \in SendEvent
        BY <3>1 DEF SendEvent, Packet, Time
      <3> HIDE DEF e
      <3>3. replyEvents' = [replyEvents EXCEPT ![d] = @ \cup {e}]
        BY <2>1 DEF e
      <3> QED BY <3>2, <3>3 DEF DeviceTypeOK
    <2>4. DeviceTypeOK'
      BY <1>3, <2>3, TypeStepFmu DEF DeviceTypeOK
    <2> QED BY <1>1, <2>2, <2>4, TypeOfTheOthers
  <1> QED BY <1>2, <1>3

LEMMA TypeDeviceSend ==
    ASSUME TypeInv, NEW d \in Devices, NEW e \in replyEvents[d], DeviceSend(d, e),
           UNCHANGED clientVars
    PROVE  TypeInv'
  <1> USE DEF TypeInv, TypeOK, DeviceSend
  <1>1. DeviceAddress(d) \in Address
    BY FmuDeviceAssumption DEF DeviceAddress, Address, DevicePort
  <1>2. e \in SendEvent /\ now \in Time
    BY DEF DeviceTypeOK, SimulationTypeOK
  <1>3. PacketOf(e, DeviceAddress(d)) \in Packet /\ e.seq \in PayloadIds
    BY <1>1, <1>2, PacketType DEF SendEvent
  <1>4. SimulationTypeOK'
    BY <1>3 DEF SimulationTypeOK
  <1>5. DeviceTypeOK'
    BY DEF DeviceTypeOK
  <1>6. CallsPrepared'
    BY TypeOfTheOthers DEF clientVars
  <1> QED BY <1>4, <1>5, <1>6, TypeOfTheOthers

LEMMA TypeWriteData ==
    ASSUME TypeInv, NEW d \in Devices, WriteData(d), UNCHANGED clientVars
    PROVE  TypeInv'
  <1> USE DEF TypeInv, TypeOK, WriteData
  <1>1. SimulationTypeOK'
    BY DEF SimulationTypeOK, Abort
  <1>2. now \in Time /\ writeDataEvent[d] # Never /\ fmu[d] \in Devices
    BY DEF SimulationTypeOK, CallsPrepared, DeviceTypeOK, Time, Never
  <1>3. TimeOfRow(d) \in Time
    BY <1>2, SteppedToReaches DEF DeviceTypeOK, TimeOfRow
  <1>4. CASE /\ Abort
             /\ UNCHANGED <<fmuTime, lastStepped, rows, writeDataEvent>>
    <2>1. DeviceTypeOK' /\ CallsPrepared'
      BY <1>4, TypeOfTheOthers DEF deviceVars, clientVars
    <2> QED BY <1>1, <2>1, TypeOfTheOthers
  <1>5. CASE /\ IF fmuTime[fmu[d]] < now THEN StepFmu(d)
                                         ELSE UNCHANGED <<fmuTime, lastStepped>>
             /\ rows' = [rows EXCEPT ![d] = Append(@, [fmu |-> TimeOfRow(d), at |-> now])]
             /\ writeDataEvent' = [writeDataEvent EXCEPT ![d] = now + WritePeriod]
    <2>1. fmuTime' \in [Devices -> Time] /\ lastStepped' \in [Devices -> Time]
      BY <1>5, TypeStepFmu DEF DeviceTypeOK
    <2>2. [fmu |-> TimeOfRow(d), at |-> now] \in [fmu : Time, at : Time]
      BY <1>2, <1>3
    <2>3. rows' \in [Devices -> Seq([fmu : Time, at : Time])]
      <3> DEFINE R == [fmu : Time, at : Time]
                 row == [fmu |-> TimeOfRow(d), at |-> now]
      <3>1. rows \in [Devices -> Seq(R)] /\ row \in R
        BY <2>2 DEF DeviceTypeOK
      <3>2. rows' = [rows EXCEPT ![d] = Append(@, row)]
        BY <1>5
      <3> HIDE DEF R, row
      <3>3. rows' \in [Devices -> Seq(R)]
        BY <3>1, <3>2
      <3> QED BY <3>3 DEF R
    <2>4. writeDataEvent' \in [Devices -> Time \cup {Never}]
      BY <1>2, <1>5, FmuDeviceAssumption DEF DeviceTypeOK, Time
    <2>5. DeviceTypeOK'
      BY <2>1, <2>3, <2>4 DEF DeviceTypeOK
    <2>6. CallsPrepared'
      BY <1>2, <1>5 DEF CallsPrepared, Started, DeviceTypeOK, clientVars
    <2> QED BY <1>1, <2>5, <2>6, TypeOfTheOthers
  <1> QED BY <1>4, <1>5

LEMMA TypeDropPacket ==
    ASSUME TypeInv, NEW p \in net, DropPacket(p), UNCHANGED <<clientVars, deviceVars>>
    PROVE  TypeInv'
  <1>1. SimulationTypeOK'
    BY DEF TypeInv, TypeOK, SimulationTypeOK, DropPacket, Packet
  <1>2. CallsPrepared'
    BY TypeOfTheOthers DEF clientVars, deviceVars
  <1> QED BY <1>1, <1>2, TypeOfTheOthers DEF TypeInv, TypeOK

LEMMA TypeTick ==
    ASSUME TypeInv, Tick
    PROVE  TypeInv'
  <1>1. SimulationTypeOK'
    BY DEF TypeInv, TypeOK, SimulationTypeOK, Tick, Time
  <1>2. CallsPrepared'
    BY TypeOfTheOthers DEF clientVars, deviceVars, Tick
  <1> QED BY <1>1, <1>2, TypeOfTheOthers DEF TypeInv, TypeOK, Tick

LEMMA TypeStep == TypeInv /\ [Next]_vars => TypeInv'
  <1> SUFFICES ASSUME TypeInv, [Next]_vars PROVE TypeInv'
    OBVIOUS
  <1>1. CASE ClientNext /\ UNCHANGED deviceVars
    BY <1>1, TypeClientStart, TypeClientStop, TypeClientProcess, TypeClientSend,
       TypeClientHandleRead
    DEF ClientNext
  <1>2. CASE DeviceNext /\ UNCHANGED clientVars
    BY <1>2, TypeDeviceStart, TypeDeviceStop, TypeDeviceProcess, TypeDeviceHandleRead,
       TypeDeviceSend, TypeWriteData
    DEF DeviceNext
  <1>3. CASE (\E p \in net : DropPacket(p)) /\ UNCHANGED <<clientVars, deviceVars>>
    BY <1>3, TypeDropPacket
  <1>4. CASE Tick
    BY <1>4, TypeTick
  <1>5. CASE UNCHANGED vars
    <2>1. CallsPrepared'
      BY <1>5, TypeOfTheOthers DEF vars, clientVars, deviceVars
    <2> QED BY <1>5, <2>1, TypeOfTheOthers DEF TypeInv, TypeOK, vars
  <1> QED BY <1>1, <1>2, <1>3, <1>4, <1>5 DEF Next, Ended

(* Every value an application keeps has its type in every reachable state: *)
(* a request has a slot, a packet two addresses of the topology.           *)
THEOREM TypeCorrect == Spec => []TypeOK
  <1>1. Spec => []TypeInv
    BY TypeInit, TypeStep, PTL DEF Spec
  <1>2. TypeInv => TypeOK
    BY DEF TypeInv
  <1> QED BY <1>1, <1>2, PTL

-----------------------------------------------------------------------------
(* The FMUs of the devices: which device works on which one, and how far   *)
(* their times are, for any number of devices and names.                    *)

SharedFmuInv == TypeInv /\ FmuInv

-----------------------------------------------------------------------------
(* Facts about instances.                                                  *)

LEMMA FmuTypes ==
    ASSUME TypeInv
    PROVE  /\ now \in Time
           /\ deviceState \in [Devices -> {"installed", "up", "stopped"}]
           /\ fmu \in [Devices -> Devices \cup {NoFmu}]
           /\ sharedFmus \in [SharedNames -> Devices \cup {NoFmu}]
           /\ fmuTime \in [Devices -> Time]
           /\ lastStepped \in [Devices -> Time]
           /\ rows \in [Devices -> Seq([fmu : Time, at : Time])]
           /\ \A d \in Devices : Started(d) <=> fmu[d] \in Devices
           /\ \A d \in Devices : dataEvent[d] = now \/ writeDataEvent[d] = now => Started(d)
  BY FmuDeviceAssumption
  DEF TypeInv, TypeOK, SimulationTypeOK, DeviceTypeOK, CallsPrepared, Time, Never

LEMMA RowTypes ==
    ASSUME TypeInv, NEW d \in Devices, NEW i \in DOMAIN rows[d]
    PROVE  rows[d][i].fmu \in Time /\ rows[d][i].at \in Time
  <1> DEFINE R == [fmu : Time, at : Time]
  <1>1. rows[d] \in Seq(R)
    BY FmuTypes
  <1> HIDE DEF R
  <1>2. rows[d][i] \in R
    BY <1>1
  <1> QED BY <1>2 DEF R

(* An instance some device works on was created by a started device, which *)
(* works on it itself.                                                     *)
LEMMA CreatorStarted ==
    ASSUME SharedFmuInv, NEW d \in Devices, Started(d)
    PROVE  fmu[d] \in Devices /\ Started(fmu[d]) /\ fmu[fmu[d]] = fmu[d]
  <1>1. fmu[d] \in Devices
    BY FmuTypes DEF SharedFmuInv
  <1>2. CASE SharedName[d] = NoName
    BY <1>1, <1>2 DEF SharedFmuInv, FmuInv, FmusByName
  <1>3. CASE SharedName[d] # NoName
    BY <1>1, <1>3, FmuTypes, FmuDeviceAssumption DEF SharedFmuInv, FmuInv, FmusByName
  <1> QED BY <1>1, <1>2, <1>3

(* One step of a device's FMU: that instance gets on, the others stay.     *)
LEMMA StepGetsOn ==
    ASSUME TypeInv, NEW d \in Devices, Started(d), StepFmu(d)
    PROVE  /\ fmuTime'[fmu[d]] = SteppedTo(fmuTime[fmu[d]], now)
           /\ fmuTime'[fmu[d]] \in Time
           /\ fmuTime'[fmu[d]] >= now
           /\ fmuTime'[fmu[d]] >= fmuTime[fmu[d]]
           /\ lastStepped'[fmu[d]] = now
           /\ \A x \in Devices : x # fmu[d] => /\ fmuTime'[x] = fmuTime[x]
                                               /\ lastStepped'[x] = lastStepped[x]
  <1>1. fmu[d] \in Devices /\ fmuTime[fmu[d]] \in Time /\ now \in Time
    BY FmuTypes
  <1>2. /\ fmuTime'[fmu[d]] = SteppedTo(fmuTime[fmu[d]], now)
        /\ lastStepped'[fmu[d]] = now
        /\ \A x \in Devices : x # fmu[d] => /\ fmuTime'[x] = fmuTime[x]
                                            /\ lastStepped'[x] = lastStepped[x]
    BY <1>1, FmuTypes DEF StepFmu
  <1>3. /\ SteppedTo(fmuTime[fmu[d]], now) \in Time
        /\ SteppedTo(fmuTime[fmu[d]], now) >= now
        /\ SteppedTo(fmuTime[fmu[d]], now) >= fmuTime[fmu[d]] + CommStep
    BY <1>1, SteppedToReaches
  <1> QED BY <1>1, <1>2, <1>3, FmuDeviceAssumption DEF Time

-----------------------------------------------------------------------------
(* The inductive invariant, action by action.                              *)

LEMMA FmuInit == Init => FmuInv
  BY FmuDeviceAssumption
  DEF Init, DeviceInit, FmuInv, FmusByName, FmuReachesNow, Started

LEMMA FmuUntouched ==
    ASSUME FmuInv, UNCHANGED <<fmu, sharedFmus, fmuTime, rows, lastStepped>>,
           \A d \in Devices : Started(d)' <=> Started(d)
    PROVE  FmuInv'
  BY DEF FmuInv, FmusByName, FmuReachesNow

(* The calls of an application that do not touch FMUs leave Started alone. *)
LEMMA StartedKept ==
    ASSUME UNCHANGED deviceState
    PROVE  \A d \in Devices : Started(d)' <=> Started(d)
  BY DEF Started

LEMMA FmuStepped ==
    ASSUME SharedFmuInv, NEW d \in Devices, Started(d), StepFmu(d),
           UNCHANGED <<deviceState, fmu, sharedFmus, rows>>
    PROVE  FmuInv'
  <1>1. FmusByName'
    <2>1. Started(fmu[d]) /\ fmu[d] \in Devices
      BY CreatorStarted
    <2>2. \A x \in Devices : ~Started(x) => lastStepped'[x] = 0
      BY <2>1, StepGetsOn DEF SharedFmuInv, FmuInv, FmusByName
    <2>3. ASSUME NEW x \in Devices, Started(x), NEW i \in DOMAIN rows[x]
          PROVE  rows[x][i].fmu <= fmuTime'[fmu[x]]
      <3>1. /\ rows[x][i].fmu \in Time /\ fmuTime[fmu[x]] \in Time
            /\ fmu[x] \in Devices
            /\ rows[x][i].fmu <= fmuTime[fmu[x]]
        BY <2>3, FmuTypes, RowTypes DEF SharedFmuInv, FmuInv, FmusByName
      <3> QED BY <3>1, StepGetsOn DEF SharedFmuInv, Time
    <2> QED BY <2>2, <2>3 DEF SharedFmuInv, FmuInv, FmusByName, Started
  <1>2. FmuReachesNow'
    <2>1. ASSUME NEW x \in Devices, fmu[x] # NoFmu
          PROVE  fmuTime'[fmu[x]] >= lastStepped'[fmu[x]]
      BY <2>1, StepGetsOn, FmuTypes DEF SharedFmuInv, FmuInv, FmuReachesNow
    <2> QED BY <2>1 DEF SharedFmuInv, FmuInv, FmuReachesNow
  <1> QED BY <1>1, <1>2 DEF FmuInv

(* StartApplication(): the device creates an instance nobody works on yet, *)
(* or takes the one of its name.                                           *)
LEMMA FmuDeviceStart ==
    ASSUME SharedFmuInv, TypeInv', NEW d \in Devices, DeviceStart(d)
    PROVE  /\ FmuInv'
           /\ \A x \in Devices : fmu[x] # NoFmu => fmuTime'[fmu[x]] = fmuTime[fmu[x]]
  <1> USE DEF SharedFmuInv
  <1>1. CASE UNCHANGED deviceVars
    BY <1>1, FmuUntouched, StartedKept DEF deviceVars
  <1>2. CASE /\ deviceState' = [deviceState EXCEPT ![d] = "up"]
             /\ InitFmu(d)
             /\ UNCHANGED <<rows, lastStepped>>
    <2>1. ~Started(d)
      BY DEF DeviceStart, Started
    <2>2. /\ Started(d)'
          /\ \A x \in Devices : x # d => (Started(x)' <=> Started(x))
      BY <1>2, FmuTypes DEF Started
    <2>3. FmuOf(d) \in Devices
      BY FmuTypes, FmuDeviceAssumption DEF FmuOf
    <2>4. /\ fmu' = [fmu EXCEPT ![d] = FmuOf(d)]
          /\ sharedFmus' = CollectionAfterInit(d)
          /\ fmuTime' = IF FmuOf(d) = d THEN [fmuTime EXCEPT ![d] = FmuStart] ELSE fmuTime
      BY <1>2 DEF InitFmu
    <2>5. \A x \in Devices : Started(x) => fmu[x] # d /\ fmu[x] \in Devices
      BY <2>1, CreatorStarted
    <2>6. \A x \in Devices : fmu[x] # NoFmu => fmuTime'[fmu[x]] = fmuTime[fmu[x]]
      BY <2>4, <2>5, FmuTypes
    <2>7. \A x \in Devices : x # d => fmu'[x] = fmu[x]
      BY <2>4, FmuTypes
    <2>8. fmu'[d] = FmuOf(d)
      BY <2>4, FmuTypes
    <2>9. FmusByName'
      <3>1. ASSUME NEW x \in Devices, Started(x)'
            PROVE  fmu'[x] = IF SharedName[x] = NoName THEN x ELSE sharedFmus'[SharedName[x]]
        <4>1. CASE x = d
          BY <2>3, <2>4, <2>8, <4>1, FmuTypes, FmuDeviceAssumption
          DEF FmuOf, CollectionAfterInit
        <4>2. CASE x # d
          <5>1. /\ Started(x) /\ fmu[x] \in Devices
                /\ fmu[x] = IF SharedName[x] = NoName THEN x ELSE sharedFmus[SharedName[x]]
            BY <3>1, <4>2, <2>2, <2>5 DEF FmuInv, FmusByName
          <5>2. SharedName[x] # NoName => sharedFmus'[SharedName[x]] = sharedFmus[SharedName[x]]
            BY <5>1, <2>4, FmuTypes, FmuDeviceAssumption DEF FmuOf, CollectionAfterInit
          <5> QED BY <5>1, <5>2, <2>7, <4>2
        <4> QED BY <4>1, <4>2
      <3>2. ASSUME NEW n \in SharedNames, sharedFmus'[n] # NoFmu
            PROVE  SharedName[sharedFmus'[n]] = n /\ fmu'[sharedFmus'[n]] = sharedFmus'[n]
        <4>1. CASE SharedName[d] = n /\ sharedFmus[n] = NoFmu
          <5>1. sharedFmus'[n] = d /\ FmuOf(d) = d
            BY <4>1, <2>4, FmuTypes, FmuDeviceAssumption DEF FmuOf, CollectionAfterInit
          <5> QED BY <4>1, <5>1, <2>8
        <4>2. CASE ~(SharedName[d] = n /\ sharedFmus[n] = NoFmu)
          <5>1. sharedFmus'[n] = sharedFmus[n]
            BY <4>2, <2>4, FmuTypes, FmuDeviceAssumption DEF FmuOf, CollectionAfterInit
          <5>2. /\ sharedFmus[n] \in Devices
                /\ SharedName[sharedFmus[n]] = n
                /\ fmu[sharedFmus[n]] = sharedFmus[n]
            BY <5>1, <3>2, FmuTypes DEF FmuInv, FmusByName
          <5>3. sharedFmus[n] # d
            BY <5>2, <2>1, FmuTypes
          <5> QED BY <5>1, <5>2, <5>3, <2>7
        <4> QED BY <4>1, <4>2
      <3>3. ASSUME NEW x \in Devices
            PROVE  /\ ~Started(x)' => lastStepped'[x] = 0 /\ rows'[x] = <<>>
                   /\ Started(x)' => \A i \in DOMAIN rows'[x] : rows'[x][i].fmu <= fmuTime'[fmu'[x]]
        <4>1. CASE x = d
          <5>1. rows'[d] = <<>>
            BY <1>2, <2>1 DEF FmuInv, FmusByName
          <5>2. DOMAIN rows'[d] = {}
            BY <5>1
          <5> QED BY <4>1, <5>2, <2>2
        <4>2. CASE x # d
          <5>1. Started(x)' <=> Started(x)
            BY <4>2, <2>2
          <5>2. Started(x) => fmuTime'[fmu'[x]] = fmuTime[fmu[x]]
            BY <4>2, <2>6, <2>7, FmuTypes, FmuDeviceAssumption
          <5> QED BY <1>2, <5>1, <5>2 DEF FmuInv, FmusByName
        <4> QED BY <4>1, <4>2
      <3> QED BY <3>1, <3>2, <3>3 DEF FmusByName
    <2>10. FmuReachesNow'
      <3>1. ASSUME NEW x \in Devices, x # d, fmu'[x] # NoFmu
            PROVE  fmuTime'[fmu'[x]] >= lastStepped'[fmu'[x]]
        BY <3>1, <1>2, <2>6, <2>7 DEF FmuInv, FmuReachesNow
      <3>2. fmuTime'[fmu'[d]] >= lastStepped'[fmu'[d]]
        <4>1. CASE FmuOf(d) = d
          BY <4>1, <1>2, <2>1, <2>4, <2>8, FmuTypes, FmuDeviceAssumption
          DEF FmuInv, FmusByName, Time
        <4>2. CASE FmuOf(d) # d
          <5>1. /\ FmuOf(d) = sharedFmus[SharedName[d]]
                /\ SharedName[d] \in SharedNames
            BY <4>2, FmuDeviceAssumption DEF FmuOf
          <5>2. fmu[FmuOf(d)] = FmuOf(d)
            BY <2>3, <5>1, FmuDeviceAssumption DEF FmuInv, FmusByName
          <5>3. FmuOf(d) # NoFmu
            BY <2>3, FmuDeviceAssumption
          <5>4. fmuTime[FmuOf(d)] >= lastStepped[FmuOf(d)]
            BY <2>3, <5>2, <5>3 DEF FmuInv, FmuReachesNow
          <5> QED BY <4>2, <5>4, <1>2, <2>4, <2>8
        <4> QED BY <4>1, <4>2
      <3> QED BY <1>2, <3>1, <3>2 DEF FmuInv, FmuReachesNow
    <2> QED BY <2>6, <2>9, <2>10 DEF FmuInv
  <1> QED BY <1>1, <1>2 DEF DeviceStart

(* WriteData(): the row has the time of the FMU after the step, if any.    *)
LEMMA FmuWriteData ==
    ASSUME SharedFmuInv, NEW d \in Devices, WriteData(d)
    PROVE  /\ FmuInv'
           /\ \A x \in Devices : fmu[x] # NoFmu => fmuTime'[fmu[x]] >= fmuTime[fmu[x]]
  <1> USE DEF SharedFmuInv
  <1> DEFINE f   == fmu[d]
             row == [fmu |-> TimeOfRow(d), at |-> now]
  <1>1. /\ Started(d) /\ f \in Devices /\ fmuTime[f] \in Time /\ now \in Time
        /\ UNCHANGED <<deviceState, fmu, sharedFmus>>
    BY FmuTypes DEF WriteData
  <1>2. CASE UNCHANGED <<fmuTime, lastStepped, rows>>
    <2>1. FmuInv'
      BY <1>1, <1>2, FmuUntouched, StartedKept
    <2> QED BY <1>2, <2>1, FmuTypes DEF Time
  <1>3. CASE /\ IF fmuTime[f] < now THEN StepFmu(d) ELSE UNCHANGED <<fmuTime, lastStepped>>
             /\ rows' = [rows EXCEPT ![d] = Append(@, row)]
    <2>1. /\ TimeOfRow(d) = fmuTime'[f]
          /\ fmuTime'[f] \in Time
          /\ fmuTime'[f] >= now
          /\ fmuTime'[f] >= fmuTime[f]
          /\ \A x \in Devices : x # f => fmuTime'[x] = fmuTime[x]
      <3>1. CASE fmuTime[f] < now
        BY <1>1, <1>3, <3>1, StepGetsOn DEF TimeOfRow
      <3>2. CASE ~(fmuTime[f] < now)
        BY <1>1, <1>3, <3>2 DEF TimeOfRow, Time
      <3> QED BY <3>1, <3>2
    <2>2. \A x \in Devices : fmu[x] # NoFmu => fmuTime'[fmu[x]] >= fmuTime[fmu[x]]
      <3> SUFFICES ASSUME NEW x \in Devices, fmu[x] # NoFmu
                   PROVE  fmuTime'[fmu[x]] >= fmuTime[fmu[x]]
        OBVIOUS
      <3>1. fmu[x] \in Devices /\ fmuTime[fmu[x]] \in Time
        BY FmuTypes
      <3> QED BY <2>1, <3>1 DEF Time
    <2>3. \A x \in Devices : /\ ~Started(x) => lastStepped'[x] = 0
                             /\ fmu[x] # NoFmu => fmuTime'[fmu[x]] >= lastStepped'[fmu[x]]
      <3>1. CASE fmuTime[f] < now
        <4>1. /\ fmuTime'[f] >= lastStepped'[f]
              /\ \A x \in Devices : x # f => /\ fmuTime'[x] = fmuTime[x]
                                             /\ lastStepped'[x] = lastStepped[x]
          BY <1>1, <1>3, <3>1, StepGetsOn
        <4>2. Started(f)
          BY <1>1, CreatorStarted
        <4>3. ASSUME NEW x \in Devices, ~Started(x) PROVE lastStepped'[x] = 0
          BY <4>1, <4>2, <4>3 DEF FmuInv, FmusByName
        <4>4. ASSUME NEW x \in Devices, fmu[x] # NoFmu
              PROVE  fmuTime'[fmu[x]] >= lastStepped'[fmu[x]]
          <5>1. fmu[x] \in Devices /\ fmuTime[fmu[x]] >= lastStepped[fmu[x]]
            BY <4>4, FmuTypes DEF FmuInv, FmuReachesNow
          <5> QED BY <4>1, <5>1
        <4> QED BY <4>3, <4>4
      <3>2. CASE ~(fmuTime[f] < now)
        BY <1>3, <3>2 DEF FmuInv, FmusByName, FmuReachesNow
      <3> QED BY <3>1, <3>2
    <2>4. /\ rows'[d] = Append(rows[d], row)
          /\ Len(rows[d]) \in Nat
          /\ DOMAIN rows'[d] = 1 .. Len(rows[d]) + 1
          /\ DOMAIN rows[d] = 1 .. Len(rows[d])
          /\ rows'[d][Len(rows[d]) + 1] = row
          /\ \A i \in 1 .. Len(rows[d]) : rows'[d][i] = rows[d][i]
          /\ \A x \in Devices : x # d => rows'[x] = rows[x]
      <3> DEFINE R == [fmu : Time, at : Time]
      <3>1. row \in R
        BY <1>1, <2>1
      <3>2. rows \in [Devices -> Seq(R)]
        BY FmuTypes
      <3> HIDE DEF R, row
      <3> QED BY <1>3, <3>1, <3>2
    <2>5. row.fmu = fmuTime'[f] /\ row.at = now
      BY <2>1
    <2>6. ASSUME NEW x \in Devices, NEW i \in DOMAIN rows[x]
          PROVE  Started(x) => rows[x][i].fmu <= fmuTime'[fmu[x]]
      <3>1. rows[x][i].fmu \in Time /\ (Started(x) => rows[x][i].fmu <= fmuTime[fmu[x]])
        BY <2>6, RowTypes DEF FmuInv, FmusByName
      <3>2. Started(x) => fmuTime[fmu[x]] \in Time /\ fmu[x] \in Devices
        BY FmuTypes
      <3>3. Started(x) => fmuTime'[fmu[x]] \in Time /\ fmuTime'[fmu[x]] >= fmuTime[fmu[x]]
        BY <2>1, <2>2, <3>2, FmuDeviceAssumption DEF Time
      <3> QED BY <3>1, <3>2, <3>3 DEF Time
    <2> HIDE DEF row
    <2>7. FmusByName'
      <3>1. ASSUME NEW x \in Devices, Started(x), NEW i \in DOMAIN rows'[x]
            PROVE  rows'[x][i].fmu <= fmuTime'[fmu[x]]
        <4>1. CASE x = d /\ i = Len(rows[d]) + 1
          BY <4>1, <2>1, <2>4, <2>5 DEF Time
        <4>2. CASE ~(x = d /\ i = Len(rows[d]) + 1)
          BY <3>1, <4>2, <2>4, <2>6
        <4> QED BY <4>1, <4>2
      <3>2. \A x \in Devices : ~Started(x) => rows'[x] = <<>>
        BY <1>1, <2>4 DEF FmuInv, FmusByName
      <3> QED BY <1>1, <2>3, <3>1, <3>2 DEF FmuInv, FmusByName, Started
    <2>8. FmuReachesNow'
      <3>1. ASSUME NEW x \in Devices, NEW i \in DOMAIN rows'[x]
            PROVE  /\ rows'[x][i].fmu >= rows'[x][i].at
                   /\ i > 1 => rows'[x][i].fmu >= rows'[x][i - 1].fmu
        <4>1. CASE x = d /\ i = Len(rows[d]) + 1
          <5>1. rows'[x][i] = row /\ row.fmu >= row.at
            BY <4>1, <2>1, <2>4, <2>5
          <5>2. i > 1 => i - 1 \in DOMAIN rows[d] /\ rows'[d][i - 1] = rows[d][i - 1]
            BY <4>1, <2>4
          <5>3. i > 1 => rows[d][i - 1].fmu <= fmuTime'[f] /\ rows[d][i - 1].fmu \in Time
            BY <5>2, <2>6, <1>1, RowTypes
          <5> QED BY <4>1, <5>1, <5>2, <5>3, <2>1, <2>5 DEF Time
        <4>2. CASE ~(x = d /\ i = Len(rows[d]) + 1)
          <5>1. i \in DOMAIN rows[x] /\ rows'[x][i] = rows[x][i]
            BY <3>1, <4>2, <2>4
          <5>2. i > 1 => rows'[x][i - 1] = rows[x][i - 1]
            BY <5>1, <2>4
          <5> QED BY <5>1, <5>2 DEF FmuInv, FmuReachesNow
        <4> QED BY <4>1, <4>2
      <3> QED BY <1>1, <2>3, <3>1 DEF FmuReachesNow
    <2> QED BY <2>2, <2>7, <2>8 DEF FmuInv
  <1> QED BY <1>2, <1>3 DEF WriteData

LEMMA FmuStep ==
    ASSUME SharedFmuInv, [Next]_vars
    PROVE  /\ SharedFmuInv'
           /\ \A x \in Devices : fmu[x] # NoFmu => fmuTime'[fmu[x]] >= fmuTime[fmu[x]]
  <1> DEFINE NeverBack == \A x \in Devices : fmu[x] # NoFmu => fmuTime'[fmu[x]] >= fmuTime[fmu[x]]
  <1>1. TypeInv'
    BY TypeStep DEF SharedFmuInv
  <1>2. UNCHANGED fmuTime => NeverBack
    BY FmuTypes DEF SharedFmuInv, Time
  <1>3. ASSUME UNCHANGED <<fmu, sharedFmus, fmuTime, rows, lastStepped>>,
               \A d \in Devices : Started(d)' <=> Started(d)
        PROVE  FmuInv' /\ NeverBack
    BY <1>2, <1>3, FmuUntouched DEF SharedFmuInv
  <1>4. ASSUME NEW d \in Devices, Started(d), StepFmu(d),
               UNCHANGED <<deviceState, fmu, sharedFmus, rows>>
        PROVE  FmuInv' /\ NeverBack
    <2>1. FmuInv'
      BY <1>4, FmuStepped
    <2>2. ASSUME NEW x \in Devices, fmu[x] # NoFmu
          PROVE  fmuTime'[fmu[x]] >= fmuTime[fmu[x]]
      <3>1. fmu[x] \in Devices /\ fmuTime[fmu[x]] \in Time
        BY <2>2, FmuTypes DEF SharedFmuInv
      <3> QED BY <1>4, <3>1, StepGetsOn DEF SharedFmuInv, Time
    <2> QED BY <2>1, <2>2
  <1>5. ASSUME UNCHANGED deviceVars PROVE FmuInv' /\ NeverBack
    BY <1>3, <1>5, StartedKept DEF deviceVars
  <1>6. ASSUME NEW d \in Devices, DeviceStart(d) PROVE FmuInv' /\ NeverBack
    <2>1. /\ FmuInv'
          /\ \A x \in Devices : fmu[x] # NoFmu => fmuTime'[fmu[x]] = fmuTime[fmu[x]]
      BY <1>1, <1>6, FmuDeviceStart
    <2>2. \A x \in Devices : fmu[x] # NoFmu => fmuTime[fmu[x]] \in Time
      BY FmuTypes DEF SharedFmuInv
    <2> QED BY <2>1, <2>2 DEF Time
  <1>7. ASSUME NEW d \in Devices, DeviceStop(d) PROVE FmuInv' /\ NeverBack
    <2>1. \A x \in Devices : Started(x)' <=> Started(x)
      BY <1>7, FmuTypes DEF DeviceStop, Started, SharedFmuInv
    <2> QED BY <1>3, <1>7, <2>1 DEF DeviceStop
  <1>8. ASSUME NEW d \in Devices, DeviceProcess(d) PROVE FmuInv' /\ NeverBack
    <2>1. Started(d) /\ UNCHANGED <<deviceState, fmu, sharedFmus, rows>>
      BY <1>8, FmuTypes DEF DeviceProcess, SharedFmuInv
    <2>2. CASE UNCHANGED <<fmuTime, lastStepped>>
      BY <1>3, <2>1, <2>2, StartedKept
    <2> QED BY <1>4, <1>8, <2>1, <2>2 DEF DeviceProcess
  <1>9. ASSUME NEW d \in Devices, NEW p \in net, DeviceHandleRead(d, p)
        PROVE  FmuInv' /\ NeverBack
    <2>1. Started(d) /\ UNCHANGED <<deviceState, fmu, sharedFmus, rows>>
      BY <1>9 DEF DeviceHandleRead, Started
    <2>2. CASE UNCHANGED <<fmuTime, lastStepped>>
      BY <1>3, <2>1, <2>2, StartedKept
    <2> QED BY <1>4, <1>9, <2>1, <2>2 DEF DeviceHandleRead
  <1>10. ASSUME NEW d \in Devices, NEW e \in replyEvents[d], DeviceSend(d, e)
         PROVE  FmuInv' /\ NeverBack
    BY <1>3, <1>10, StartedKept DEF DeviceSend
  <1>11. ASSUME NEW d \in Devices, WriteData(d) PROVE FmuInv' /\ NeverBack
    BY <1>11, FmuWriteData
  <1> HIDE DEF NeverBack
  <1>12. ASSUME DeviceNext PROVE FmuInv' /\ NeverBack
    BY <1>6, <1>7, <1>8, <1>9, <1>10, <1>11, <1>12 DEF DeviceNext
  <1>13. FmuInv' /\ NeverBack
    BY <1>5, <1>12 DEF Next, Ended, Tick, vars
  <1> QED BY <1>1, <1>13 DEF SharedFmuInv, NeverBack

LEMMA SharedFmuInvariant == Spec => []SharedFmuInv
  <1>1. Init => SharedFmuInv
    BY TypeInit, FmuInit DEF SharedFmuInv
  <1>2. SharedFmuInv /\ [Next]_vars => SharedFmuInv'
    BY FmuStep
  <1> QED BY <1>1, <1>2, PTL DEF Spec

-----------------------------------------------------------------------------
(* Devices of one shared name, and no others, work on one FMU, whatever    *)
(* the order FmuSharedDevice::initFmu() runs in.                           *)
THEOREM NamesShareOneFmu == Spec => []OneFmuPerName
  <1>1. ASSUME SharedFmuInv PROVE OneFmuPerName
    <2> SUFFICES ASSUME NEW x \in Devices, NEW y \in Devices, Started(x), Started(y)
                 PROVE  OneFmuPerName!(x, y)!2
      BY DEF OneFmuPerName
    <2>1. /\ fmu[x] = IF SharedName[x] = NoName THEN x ELSE sharedFmus[SharedName[x]]
          /\ fmu[y] = IF SharedName[y] = NoName THEN y ELSE sharedFmus[SharedName[y]]
          /\ fmu[x] \in Devices /\ fmu[y] \in Devices
      BY <1>1, FmuTypes DEF SharedFmuInv, FmuInv, FmusByName
    <2>2. /\ SharedName[x] # NoName => SharedName[fmu[x]] = SharedName[x]
          /\ SharedName[y] # NoName => SharedName[fmu[y]] = SharedName[y]
      BY <1>1, <2>1, FmuDeviceAssumption DEF SharedFmuInv, FmuInv, FmusByName
    <2> QED BY <2>1, <2>2
  <1> QED BY <1>1, SharedFmuInvariant, PTL

(* A message or a result row finds its FMU at the time it is about, or     *)
(* later, also when other devices step the same FMU.                       *)
THEOREM FmuIsNeverLate == Spec => []FmuReachesNow
  <1>1. SharedFmuInv => FmuReachesNow
    BY DEF SharedFmuInv, FmuInv
  <1> QED BY <1>1, SharedFmuInvariant, PTL

(* No call takes the time of an FMU in use back: it is initialized once.   *)
THEOREM FmuTimeGoesOn == Spec => FmuTimeNeverBack
  <1>1. SharedFmuInv /\ [Next]_vars =>
          [\A d \in Devices : fmu[d] # NoFmu => fmuTime'[fmu[d]] >= fmuTime[fmu[d]]]_vars
    BY FmuStep
  <1> QED BY <1>1, SharedFmuInvariant, PTL DEF Spec, FmuTimeNeverBack

-----------------------------------------------------------------------------
(* The payload ids.                                                        *)

IdsGoOn == \/ UNCHANGED nextPayloadId
           \/ FreshIdLeft /\ nextPayloadId' = NextId(nextPayloadId)

(* An id that was handed out stays so.                                     *)
LEMMA IssuedStays ==
    ASSUME TypeInv, IdsGoOn, NEW id \in PayloadIds, Issued(id)
    PROVE  Issued(id)'
  <1>1. CASE UNCHANGED nextPayloadId
    BY <1>1 DEF Issued
  <1>2. CASE FreshIdLeft /\ nextPayloadId' = NextId(nextPayloadId)
    <2>1. nextPayloadId \in PayloadIds /\ nextPayloadId # INVALID
      BY <1>2 DEF TypeInv, TypeOK, SimulationTypeOK, FreshIdLeft
    <2>2. nextPayloadId' = INVALID \/ nextPayloadId' = nextPayloadId + 1
      BY <1>2, <2>1, NextIdType
    <2> QED BY <2>1, <2>2, SimulationAssumption DEF Issued, PayloadIds, INVALID
  <1> QED BY <1>1, <1>2 DEF IdsGoOn

(* The next id is handed out by the step that takes it, and not before.    *)
LEMMA NextIdIssued ==
    ASSUME TypeInv, FreshIdLeft, nextPayloadId' = NextId(nextPayloadId),
           NEW id \in PayloadIds, id = nextPayloadId
    PROVE  id # INVALID /\ ~Issued(id) /\ Issued(id)'
  <1>1. id # INVALID
    BY DEF FreshIdLeft
  <1>2. nextPayloadId' = INVALID \/ nextPayloadId' = id + 1
    BY <1>1, NextIdType
  <1>3. ~Issued(id)
    BY <1>1, SimulationAssumption DEF Issued, PayloadIds
  <1>4. Issued(id)'
    BY <1>1, <1>2, SimulationAssumption DEF Issued, PayloadIds, INVALID
  <1> QED BY <1>1, <1>3, <1>4

-----------------------------------------------------------------------------
(* What a step does to the messages.                                       *)

LEMMA UnionMembers ==
    ASSUME NEW N, NEW C, NEW f, NEW D, NEW g, NEW m
    PROVE  m \in N \cup (UNION {f[c] : c \in C}) \cup (UNION {g[d] : d \in D}) <=>
               \/ m \in N
               \/ \E c \in C : m \in f[c]
               \/ \E d \in D : m \in g[d]
  <1>1. m \in UNION {f[c] : c \in C} <=> \E c \in C : m \in f[c]
    BY Zenon
  <1>2. m \in UNION {g[d] : d \in D} <=> \E d \in D : m \in g[d]
    BY Zenon
  <1> DEFINE F == UNION {f[c] : c \in C}
             G == UNION {g[d] : d \in D}
  <1> HIDE DEF F, G
  <1>3. m \in N \cup F \cup G <=> m \in N \/ m \in F \/ m \in G
    OBVIOUS
  <1> QED BY <1>1, <1>2, <1>3, Zenon DEF F, G

LEMMA MessagesMembers ==
    /\ \A m : m \in Messages <=>
        \/ m \in net
        \/ \E c \in Clients : m \in sendEvents[c]
        \/ \E d \in Devices : m \in replyEvents[d]
    /\ \A m : m \in Messages' <=>
        \/ m \in net'
        \/ \E c \in Clients : m \in sendEvents'[c]
        \/ \E d \in Devices : m \in replyEvents'[d]
  <1>1. ASSUME NEW m
        PROVE  m \in Messages <=>
                 \/ m \in net
                 \/ \E c \in Clients : m \in sendEvents[c]
                 \/ \E d \in Devices : m \in replyEvents[d]
    BY ONLY UnionMembers DEF Messages, Replies
  <1>2. ASSUME NEW m
        PROVE  m \in Messages' <=>
                 \/ m \in net'
                 \/ \E c \in Clients : m \in sendEvents'[c]
                 \/ \E d \in Devices : m \in replyEvents'[d]
    BY ONLY UnionMembers DEF Messages, Replies
  <1> QED BY <1>1, <1>2

LEMMA MessagesType ==
    ASSUME TypeInv, NEW m \in Messages
    PROVE  m.seq \in PayloadIds /\ m.ts \in Time
  <1>1. CASE m \in net
    BY <1>1 DEF TypeInv, TypeOK, SimulationTypeOK, Packet
  <1>2. CASE \E c \in Clients : m \in sendEvents[c]
    BY <1>2 DEF TypeInv, TypeOK, ClientTypeOK, SendEvent
  <1>3. CASE \E d \in Devices : m \in replyEvents[d]
    BY <1>3 DEF TypeInv, TypeOK, DeviceTypeOK, SendEvent
  <1> QED BY <1>1, <1>2, <1>3, MessagesMembers

(* A request that is open after the step under an id handed out before was *)
(* open before, in the same slot.                                          *)
RequestsKept ==
    \A c \in Clients : \A id \in DOMAIN sentPayloadIds'[c] :
        (id = INVALID \/ Issued(id)) =>
            /\ id \in DOMAIN sentPayloadIds[c]
            /\ sendRequestTimestamps'[c][sentPayloadIds'[c][id]]
                 = sendRequestTimestamps[c][sentPayloadIds[c][id]]

LEMMA TimelyStays ==
    ASSUME TypeInv, TypeInv', IdsGoOn, RequestsKept, now <= now',
           NEW seq \in PayloadIds, NEW ts \in Time, Timely(seq, ts)
    PROVE  Timely(seq, ts)'
  <1>1. seq = INVALID \/ Issued(seq)'
    BY IssuedStays DEF Timely
  <1>2. ts <= now'
    BY DEF Timely, TypeInv, TypeOK, SimulationTypeOK, Time
  <1>3. ASSUME NEW c \in Clients, seq \in DOMAIN sentPayloadIds'[c]
        PROVE  sendRequestTimestamps'[c][sentPayloadIds'[c][seq]] <= ts
    BY <1>3 DEF Timely, RequestsKept
  <1> QED BY <1>1, <1>2, <1>3 DEF Timely

(* Messages stay timely when each one is as old as one that was there, or  *)
(* is timely itself.                                                       *)
LEMMA MessagesStayTimely ==
    ASSUME TypeInv, TypeInv', LedgerInv, IdsGoOn, RequestsKept, now <= now',
           \A m \in Messages' :
             \/ \E m0 \in Messages : m0.seq = m.seq /\ m0.ts = m.ts
             \/ Timely(m.seq, m.ts)'
    PROVE  MessagesTimely'
  <1> SUFFICES ASSUME NEW m \in Messages' PROVE Timely(m.seq, m.ts)'
    BY DEF MessagesTimely
  <1>1. CASE \E m0 \in Messages : m0.seq = m.seq /\ m0.ts = m.ts
    <2>1. PICK m0 \in Messages : m0.seq = m.seq /\ m0.ts = m.ts
      BY <1>1
    <2>2. m0.seq \in PayloadIds /\ m0.ts \in Time /\ Timely(m0.seq, m0.ts)
      BY MessagesType DEF LedgerInv, MessagesTimely
    <2> QED BY <2>1, <2>2, TimelyStays
  <1> QED BY <1>1

(* Steps that leave the ledgers alone.                                     *)
LEMMA LedgerUntouched ==
    ASSUME TypeInv, LedgerInv, UNCHANGED ledgerVars, IdsGoOn
    PROVE  /\ LedgerConsistent'
           /\ AnswersComplete'
           /\ RequestsKept
  <1>1. LedgerConsistent'
    BY DEF LedgerInv, LedgerConsistent, ledgerVars, Answered, Slots
  <1>2. \A c \in Clients : \A id \in DOMAIN sentPayloadIds'[c] : Issued(id)'
    BY IssuedStays
    DEF LedgerInv, AnswersComplete, ledgerVars, TypeInv, TypeOK, ClientTypeOK
  <1>3. AnswersComplete'
    BY <1>2 DEF LedgerInv, AnswersComplete, ledgerVars, Answered, Slots
  <1>4. RequestsKept
    BY DEF RequestsKept, ledgerVars
  <1> QED BY <1>1, <1>3, <1>4

-----------------------------------------------------------------------------
(* The inductive invariant, action by action.                              *)

ExchangeInv == TypeInv /\ LedgerInv

LEMMA LedgerInit == Init => LedgerInv
  <1> SUFFICES ASSUME Init PROVE LedgerInv
    OBVIOUS
  <1>1. LedgerConsistent
    BY DEF Init, ClientInit, LedgerConsistent, Slots
  <1>2. AnswersComplete
    BY DEF Init, ClientInit, AnswersComplete, Slots
  <1>3. \A m : m \notin Messages
    BY MessagesMembers DEF Init, SimulationInit, ClientInit, DeviceInit
  <1> QED BY <1>1, <1>2, <1>3 DEF LedgerInv, MessagesTimely

(* A step that neither opens nor closes a slot keeps the invariant when it *)
(* only moves, delays or drops messages.                                   *)
LEMMA LedgerQuiet ==
    ASSUME ExchangeInv, TypeInv', UNCHANGED ledgerVars, UNCHANGED nextPayloadId,
           now <= now',
           \A m \in Messages' : \E m0 \in Messages : m0.seq = m.seq /\ m0.ts = m.ts
    PROVE  LedgerInv'
  <1>1. IdsGoOn
    BY DEF IdsGoOn
  <1>2. LedgerConsistent' /\ AnswersComplete' /\ RequestsKept
    BY <1>1, LedgerUntouched DEF ExchangeInv
  <1>3. MessagesTimely'
    BY <1>1, <1>2, MessagesStayTimely DEF ExchangeInv
  <1> QED BY <1>2, <1>3 DEF LedgerInv

LEMMA NowKept == ASSUME TypeInv, UNCHANGED now PROVE now <= now'
  BY DEF TypeInv, TypeOK, SimulationTypeOK, Time

LEMMA LedgerClientStart ==
    ASSUME ExchangeInv, TypeInv', NEW c \in Clients, ClientStart(c), UNCHANGED deviceVars
    PROVE  LedgerInv'
  <1>1. \A m : m \in Messages' => m \in Messages
    BY DEF Messages, Replies, ClientStart, deviceVars
  <1> QED BY <1>1, LedgerQuiet, NowKept DEF ExchangeInv, ClientStart

LEMMA LedgerClientStop ==
    ASSUME ExchangeInv, TypeInv', NEW c \in Clients, ClientStop(c), UNCHANGED deviceVars
    PROVE  LedgerInv'
  <1>1. \A x \in Clients : sendEvents'[x] \subseteq sendEvents[x]
    BY DEF ExchangeInv, TypeInv, TypeOK, ClientTypeOK, ClientStop
  <1>2. \A m : m \in Messages' => m \in Messages
    BY <1>1, MessagesMembers DEF ClientStop, deviceVars
  <1> QED BY <1>2, LedgerQuiet, NowKept DEF ExchangeInv, ClientStop

LEMMA LedgerClientSend ==
    ASSUME ExchangeInv, TypeInv', NEW c \in Clients, NEW e \in sendEvents[c],
           ClientSend(c, e), UNCHANGED deviceVars
    PROVE  LedgerInv'
  <1>1. \A x \in Clients : sendEvents'[x] \subseteq sendEvents[x]
    BY DEF ExchangeInv, TypeInv, TypeOK, ClientTypeOK, ClientSend
  <1>2. \A m \in net' : m \in net \/ (m.seq = e.seq /\ m.ts = e.ts)
    BY DEF ClientSend, PacketOf
  <1>3. e \in Messages
    BY MessagesMembers
  <1>4. \A m \in Messages' : m \in net' \/ m \in Messages
    BY <1>1, MessagesMembers DEF ClientSend, deviceVars
  <1>5. \A m \in Messages' : \E m0 \in Messages : m0.seq = m.seq /\ m0.ts = m.ts
    BY <1>2, <1>3, <1>4, MessagesMembers
  <1> QED BY <1>5, LedgerQuiet, NowKept DEF ExchangeInv, ClientSend

(* Process() opens one slot, under an id that nothing else carries.        *)
LEMMA LedgerClientProcess ==
    ASSUME ExchangeInv, TypeInv', NEW c \in Clients, ClientProcess(c), UNCHANGED deviceVars
    PROVE  LedgerInv'
  <1> DEFINE n == Len(sendRequestTimestamps[c])
  <1>1. PICK id \in PayloadIds : id = nextPayloadId
    BY DEF ExchangeInv, TypeInv, TypeOK, SimulationTypeOK
  <1>2. id # INVALID /\ ~Issued(id) /\ Issued(id)'
    BY <1>1, NextIdIssued DEF ExchangeInv, ClientProcess
  <1>3. IdsGoOn
    BY DEF IdsGoOn, ClientProcess
  <1>4. /\ now \in Time /\ n \in Nat
        /\ sentPayloadIds' = [sentPayloadIds EXCEPT ![c] = Put(@, id, n + 1)]
        /\ sendRequestTimestamps' = [sendRequestTimestamps EXCEPT ![c] = Append(@, now)]
        /\ replyTimestamps' = [replyTimestamps EXCEPT ![c] = Append(@, Never)]
        /\ receiveReplyTimestamps' = [receiveReplyTimestamps EXCEPT ![c] = Append(@, Never)]
    BY <1>1 DEF ClientProcess, ExchangeInv, TypeInv, TypeOK, SimulationTypeOK, ClientTypeOK
  <1>5. /\ sendRequestTimestamps \in [Clients -> Seq(Time)]
        /\ replyTimestamps \in [Clients -> Seq(Time \cup {Never})]
        /\ receiveReplyTimestamps \in [Clients -> Seq(Time \cup {Never})]
        /\ DOMAIN sentPayloadIds = Clients
        /\ \A x \in Clients : sentPayloadIds[x] \in [DOMAIN sentPayloadIds[x] -> Slots(x)]
        /\ \A x \in Clients : DOMAIN sentPayloadIds[x] \subseteq PayloadIds
    BY DEF ExchangeInv, TypeInv, TypeOK, ClientTypeOK
  <1>6. /\ Len(replyTimestamps[c]) = n
        /\ Len(receiveReplyTimestamps[c]) = n
        /\ Slots(c) = 1 .. n
    BY <1>5 DEF ExchangeInv, LedgerInv, LedgerConsistent, Slots
  <1>7. /\ sendRequestTimestamps'[c] = Append(sendRequestTimestamps[c], now)
        /\ replyTimestamps'[c] = Append(replyTimestamps[c], Never)
        /\ receiveReplyTimestamps'[c] = Append(receiveReplyTimestamps[c], Never)
        /\ Slots(c)' = 1 .. n + 1
        /\ Len(sendRequestTimestamps'[c]) = n + 1
        /\ Len(replyTimestamps'[c]) = n + 1
        /\ Len(receiveReplyTimestamps'[c]) = n + 1
    BY <1>4, <1>5, <1>6 DEF Slots
  <1>8. /\ \A i \in 1 .. n : /\ sendRequestTimestamps'[c][i] = sendRequestTimestamps[c][i]
                             /\ replyTimestamps'[c][i] = replyTimestamps[c][i]
                             /\ receiveReplyTimestamps'[c][i] = receiveReplyTimestamps[c][i]
        /\ sendRequestTimestamps'[c][n + 1] = now
        /\ replyTimestamps'[c][n + 1] = Never
        /\ receiveReplyTimestamps'[c][n + 1] = Never
    BY <1>4, <1>5, <1>6, <1>7
  <1>9. /\ id \notin DOMAIN sentPayloadIds[c]
        /\ DOMAIN sentPayloadIds'[c] = DOMAIN sentPayloadIds[c] \cup {id}
        /\ sentPayloadIds'[c][id] = n + 1
        /\ \A x \in DOMAIN sentPayloadIds[c] : /\ sentPayloadIds[c][x] \in 1 .. n
                                               /\ sentPayloadIds'[c][x] = sentPayloadIds[c][x]
    BY <1>2, <1>4, <1>5, <1>6 DEF Put, ExchangeInv, LedgerInv, AnswersComplete
  <1>10. \A x \in Clients : x # c =>
           /\ sentPayloadIds'[x] = sentPayloadIds[x]
           /\ sendRequestTimestamps'[x] = sendRequestTimestamps[x]
           /\ replyTimestamps'[x] = replyTimestamps[x]
           /\ receiveReplyTimestamps'[x] = receiveReplyTimestamps[x]
    BY <1>4, <1>5
  <1> USE DEF Answered
  <1>11. LedgerConsistent'
    <2> SUFFICES ASSUME NEW x \in Clients
                 PROVE  LedgerConsistent!(x)'
      BY DEF LedgerConsistent
    <2>1. CASE x # c
      BY <2>1, <1>10 DEF ExchangeInv, LedgerInv, LedgerConsistent, Slots
    <2>2. CASE x = c
      <3>1. \A y \in DOMAIN sentPayloadIds'[c] :
              receiveReplyTimestamps'[c][sentPayloadIds'[c][y]] = Never
        BY <1>8, <1>9 DEF ExchangeInv, LedgerInv, LedgerConsistent
      <3>2. \A slot \in 1 .. n + 1 : receiveReplyTimestamps'[c][slot] = Never =>
              \E y \in DOMAIN sentPayloadIds'[c] : sentPayloadIds'[c][y] = slot
        <4> SUFFICES ASSUME NEW slot \in 1 .. n + 1, receiveReplyTimestamps'[c][slot] = Never
                     PROVE  \E y \in DOMAIN sentPayloadIds'[c] : sentPayloadIds'[c][y] = slot
          OBVIOUS
        <4>1. CASE slot = n + 1
          BY <4>1, <1>9
        <4>2. CASE slot \in 1 .. n
          BY <4>2, <1>6, <1>8, <1>9 DEF ExchangeInv, LedgerInv, LedgerConsistent
        <4> QED BY <4>1, <4>2, <1>4
      <3>3. \A y, z \in DOMAIN sentPayloadIds'[c] :
              sentPayloadIds'[c][y] = sentPayloadIds'[c][z] => y = z
        BY <1>4, <1>9 DEF ExchangeInv, LedgerInv, LedgerConsistent
      <3> QED BY <2>2, <3>1, <3>2, <3>3, <1>7
    <2> QED BY <2>1, <2>2
  <1>12. AnswersComplete'
    <2>1. ASSUME NEW x \in Clients, NEW y \in DOMAIN sentPayloadIds'[x] PROVE Issued(y)'
      <3>1. ASSUME NEW z \in DOMAIN sentPayloadIds[x] PROVE Issued(z)'
        <4>1. Issued(z)
          BY <3>1 DEF ExchangeInv, LedgerInv, AnswersComplete
        <4>2. z \in PayloadIds
          BY <1>5, <3>1
        <4>3. TypeInv
          BY DEF ExchangeInv
        <4> QED BY <1>3, <4>1, <4>2, <4>3, IssuedStays
      <3>2. CASE x # c
        BY <1>10, <3>1, <3>2
      <3>3. CASE x = c
        BY <1>2, <1>9, <3>1, <3>3
      <3> QED BY <3>2, <3>3
    <2>2. \A i \in 1 .. n + 1 : replyTimestamps'[c][i] = Never <=> ~Answered(c, i)'
      BY <1>4, <1>6, <1>8 DEF ExchangeInv, LedgerInv, AnswersComplete
    <2>3. \A x \in Clients : x # c => \A i \in Slots(x)' :
            replyTimestamps'[x][i] = Never <=> ~Answered(x, i)'
      BY <1>10 DEF ExchangeInv, LedgerInv, AnswersComplete, Slots
    <2> QED BY <1>7, <2>1, <2>2, <2>3 DEF AnswersComplete
  <1>13. RequestsKept
    BY <1>2, <1>8, <1>9, <1>10 DEF RequestsKept
  <1>14. Timely(id, now)'
    <2>1. \A x \in Clients : id \in DOMAIN sentPayloadIds'[x] => x = c
      BY <1>2, <1>10 DEF ExchangeInv, LedgerInv, AnswersComplete
    <2>2. now' = now
      BY DEF ClientProcess
    <2> QED BY <1>2, <1>4, <1>8, <1>9, <2>1, <2>2 DEF Timely, Time
  <1>15. \A m \in Messages' : m \in Messages \/ (m.seq = id /\ m.ts = now)
    <2>1. PICK delay \in ClientDelays :
            sendEvents' = [sendEvents EXCEPT ![c] = @ \cup
              {[at |-> now + delay, seq |-> id, ts |-> now,
                dst |-> [node |-> RequestPeer[c], port |-> DevicePort]]}]
      BY <1>1 DEF ClientProcess, ScheduleSend
    <2>2. \A x \in Clients : \A m \in sendEvents'[x] :
            m \in sendEvents[x] \/ (m.seq = id /\ m.ts = now)
      BY <2>1 DEF ExchangeInv, TypeInv, TypeOK, ClientTypeOK
    <2> QED BY <2>2, MessagesMembers DEF ClientProcess, deviceVars
  <1>16. MessagesTimely'
    BY <1>3, <1>13, <1>14, <1>15, MessagesStayTimely, NowKept DEF ExchangeInv, ClientProcess
  <1> QED BY <1>11, <1>12, <1>16 DEF LedgerInv

(* HandleRead() of a client closes the slot of the id, and no other.       *)
LEMMA LedgerClientHandleRead ==
    ASSUME ExchangeInv, TypeInv', NEW c \in Clients, NEW p \in net, ClientHandleRead(c, p),
           UNCHANGED deviceVars
    PROVE  LedgerInv'
  <1> DEFINE slot == sentPayloadIds[c][p.seq]
  <1>1. IdsGoOn
    BY DEF IdsGoOn, ClientHandleRead
  <1>2. \A m : m \in Messages' => m \in Messages
    BY MessagesMembers DEF ClientHandleRead, deviceVars
  <1>3. ASSUME p.seq \notin DOMAIN sentPayloadIds[c] PROVE LedgerInv'
    BY <1>2, <1>3, LedgerQuiet, NowKept DEF ExchangeInv, ClientHandleRead
  <1>4. ASSUME p.seq \in DOMAIN sentPayloadIds[c] PROVE LedgerInv'
    <2>1. /\ replyTimestamps' = [replyTimestamps EXCEPT ![c][slot] = p.ts]
          /\ receiveReplyTimestamps' = [receiveReplyTimestamps EXCEPT ![c][slot] = now]
          /\ sentPayloadIds' = [sentPayloadIds EXCEPT ![c] = Erase(@, p.seq)]
          /\ UNCHANGED sendRequestTimestamps
      BY <1>4 DEF ClientHandleRead, SlotOf
    <2>2. /\ sendRequestTimestamps \in [Clients -> Seq(Time)]
          /\ replyTimestamps \in [Clients -> Seq(Time \cup {Never})]
          /\ receiveReplyTimestamps \in [Clients -> Seq(Time \cup {Never})]
          /\ DOMAIN sentPayloadIds = Clients
          /\ \A x \in Clients : sentPayloadIds[x] \in [DOMAIN sentPayloadIds[x] -> Slots(x)]
          /\ \A x \in Clients : DOMAIN sentPayloadIds[x] \subseteq PayloadIds
      BY DEF ExchangeInv, TypeInv, TypeOK, ClientTypeOK
    <2>3. slot \in Slots(c) /\ now \in Time /\ p.ts \in Time
      BY <1>4, <2>2 DEF ExchangeInv, TypeInv, TypeOK, SimulationTypeOK, Packet
    <2>4. /\ replyTimestamps'[c] = [replyTimestamps[c] EXCEPT ![slot] = p.ts]
          /\ receiveReplyTimestamps'[c] = [receiveReplyTimestamps[c] EXCEPT ![slot] = now]
          /\ sentPayloadIds'[c] = Erase(sentPayloadIds[c], p.seq)
      BY <2>1, <2>2
    <2>5. /\ Len(replyTimestamps'[c]) = Len(replyTimestamps[c])
          /\ Len(receiveReplyTimestamps'[c]) = Len(receiveReplyTimestamps[c])
          /\ Slots(c) = 1 .. Len(replyTimestamps[c])
          /\ Slots(c) = 1 .. Len(receiveReplyTimestamps[c])
          /\ Slots(c)' = Slots(c)
      BY <2>1, <2>2, <2>3, <2>4, ExceptSeqType
      DEF Slots, ExchangeInv, LedgerInv, LedgerConsistent
    <2>6. \A i \in Slots(c) :
            /\ replyTimestamps'[c][i] = IF i = slot THEN p.ts ELSE replyTimestamps[c][i]
            /\ receiveReplyTimestamps'[c][i]
                 = IF i = slot THEN now ELSE receiveReplyTimestamps[c][i]
      BY <2>2, <2>4, <2>5
    <2>7. /\ DOMAIN sentPayloadIds'[c] = DOMAIN sentPayloadIds[c] \ {p.seq}
          /\ \A y \in DOMAIN sentPayloadIds'[c] :
               /\ sentPayloadIds'[c][y] = sentPayloadIds[c][y]
               /\ sentPayloadIds'[c][y] \in Slots(c) /\ sentPayloadIds'[c][y] # slot
      BY <1>4, <2>2, <2>4 DEF Erase, ExchangeInv, LedgerInv, LedgerConsistent
    <2>8. \A x \in Clients : x # c =>
            /\ sentPayloadIds'[x] = sentPayloadIds[x]
            /\ replyTimestamps'[x] = replyTimestamps[x]
            /\ receiveReplyTimestamps'[x] = receiveReplyTimestamps[x]
      BY <2>1, <2>2
    <2> USE DEF Answered
    <2>9. LedgerConsistent'
      <3> SUFFICES ASSUME NEW x \in Clients
                   PROVE  LedgerConsistent!(x)'
        BY DEF LedgerConsistent
      <3>1. CASE x # c
        BY <3>1, <2>1, <2>8 DEF ExchangeInv, LedgerInv, LedgerConsistent, Slots
      <3>2. CASE x = c
        <4>1. \A y \in DOMAIN sentPayloadIds'[c] :
                receiveReplyTimestamps'[c][sentPayloadIds'[c][y]] = Never
          BY <2>6, <2>7 DEF ExchangeInv, LedgerInv, LedgerConsistent
        <4>2. \A i \in Slots(c)' : receiveReplyTimestamps'[c][i] = Never =>
                \E y \in DOMAIN sentPayloadIds'[c] : sentPayloadIds'[c][y] = i
          <5> SUFFICES ASSUME NEW i \in Slots(c), receiveReplyTimestamps'[c][i] = Never
                       PROVE  \E y \in DOMAIN sentPayloadIds'[c] : sentPayloadIds'[c][y] = i
            BY <2>5
          <5>1. i # slot /\ receiveReplyTimestamps[c][i] = Never
            BY <2>3, <2>6 DEF Time, Never
          <5>2. PICK y \in DOMAIN sentPayloadIds[c] : sentPayloadIds[c][y] = i
            BY <5>1 DEF ExchangeInv, LedgerInv, LedgerConsistent
          <5> QED BY <5>1, <5>2, <2>7
        <4>3. \A y, z \in DOMAIN sentPayloadIds'[c] :
                sentPayloadIds'[c][y] = sentPayloadIds'[c][z] => y = z
          BY <2>7 DEF ExchangeInv, LedgerInv, LedgerConsistent
        <4>4. /\ Len(replyTimestamps'[c]) = Len(sendRequestTimestamps'[c])
              /\ Len(receiveReplyTimestamps'[c]) = Len(sendRequestTimestamps'[c])
          BY <2>1, <2>5 DEF ExchangeInv, LedgerInv, LedgerConsistent
        <4> QED BY <3>2, <4>1, <4>2, <4>3, <4>4
      <3> QED BY <3>1, <3>2
    <2>10. AnswersComplete'
      <3>1. \A x \in Clients : \A y \in DOMAIN sentPayloadIds'[x] : Issued(y)'
        BY <1>1, <2>2, <2>7, <2>8, IssuedStays DEF ExchangeInv, LedgerInv, AnswersComplete
      <3>2. \A i \in Slots(c)' : replyTimestamps'[c][i] = Never <=> ~Answered(c, i)'
        BY <2>3, <2>5, <2>6 DEF ExchangeInv, LedgerInv, AnswersComplete, Time, Never
      <3>3. \A x \in Clients : x # c => \A i \in Slots(x)' :
              replyTimestamps'[x][i] = Never <=> ~Answered(x, i)'
        BY <2>1, <2>8 DEF ExchangeInv, LedgerInv, AnswersComplete, Slots
      <3> QED BY <3>1, <3>2, <3>3 DEF AnswersComplete
    <2>11. RequestsKept
      BY <2>1, <2>7, <2>8 DEF RequestsKept
    <2>12. MessagesTimely'
      BY <1>1, <1>2, <2>11, MessagesStayTimely, NowKept DEF ExchangeInv, ClientHandleRead
    <2> QED BY <2>9, <2>10, <2>12 DEF LedgerInv
  <1> QED BY <1>3, <1>4

(* The devices keep the ids of the requests they answer, and number their  *)
(* own data with the invalid id or a fresh one.                            *)
LEMMA LedgerDeviceProcess ==
    ASSUME ExchangeInv, TypeInv', NEW d \in Devices, DeviceProcess(d), UNCHANGED clientVars
    PROVE  LedgerInv'
  <1> USE DEF ExchangeInv
  <1>1. CASE UNCHANGED <<nextPayloadId, net, replyEvents>>
    <2>1. \A m : m \in Messages' => m \in Messages
      BY <1>1, MessagesMembers DEF clientVars
    <2> QED BY <2>1, <1>1, LedgerQuiet, NowKept DEF DeviceProcess, clientVars
  <1>2. ASSUME NEW fresh \in {FALSE} \cup {FreshIdLeft}, NEW delay \in DeviceDelays,
               nextPayloadId' = IF fresh THEN NextId(nextPayloadId) ELSE nextPayloadId,
               replyEvents' = [replyEvents EXCEPT ![d] = @ \cup {
                   [at  |-> now + delay, ts |-> now,
                    seq |-> IF fresh THEN nextPayloadId ELSE INVALID,
                    dst |-> [node |-> DataPeer[d], port |-> DevicePort]]}]
        PROVE  LedgerInv'
    <2>1. PICK seq \in PayloadIds : seq = IF fresh THEN nextPayloadId ELSE INVALID
      BY SimulationAssumption
      DEF TypeInv, TypeOK, SimulationTypeOK, PayloadIds, INVALID
    <2> HIDE DEF ExchangeInv
    <2>a. \/ fresh /\ FreshIdLeft /\ nextPayloadId' = NextId(nextPayloadId) /\ seq = nextPayloadId
          \/ ~fresh /\ UNCHANGED nextPayloadId /\ seq = INVALID
      <3>1. (fresh = TRUE \/ fresh = FALSE) /\ (fresh => FreshIdLeft)
        BY DEF FreshIdLeft
      <3> QED BY <1>2, <2>1, <3>1
    <2>2. IdsGoOn
      BY <2>a, Zenon DEF IdsGoOn
    <2> USE DEF ExchangeInv
    <2>3. UNCHANGED <<ledgerVars, now, net, sendEvents>>
      BY DEF DeviceProcess, clientVars
    <2>4. LedgerConsistent' /\ AnswersComplete' /\ RequestsKept
      BY <2>2, <2>3, LedgerUntouched
    <2>5. seq = INVALID \/ (~Issued(seq) /\ Issued(seq)')
      BY <2>a, NextIdIssued
    <2>6. \A c \in Clients : seq \notin DOMAIN sentPayloadIds'[c]
      BY <2>3, <2>5 DEF LedgerInv, AnswersComplete, ledgerVars, Issued
    <2>7. Timely(seq, now)'
      BY <2>3, <2>5, <2>6 DEF Timely, TypeInv, TypeOK, SimulationTypeOK, Time
    <2>8. \A x \in Devices : \A m \in replyEvents'[x] :
            m \in replyEvents[x] \/ (m.seq = seq /\ m.ts = now)
      BY <1>2, <2>1 DEF TypeInv, TypeOK, DeviceTypeOK
    <2>9. \A m \in Messages' : m \in Messages \/ Timely(m.seq, m.ts)'
      BY <2>3, <2>7, <2>8, MessagesMembers
    <2>10. MessagesTimely'
      BY <2>2, <2>3, <2>4, <2>9, MessagesStayTimely, NowKept
    <2> QED BY <2>4, <2>10 DEF LedgerInv
  <1> QED BY <1>1, <1>2 DEF DeviceProcess

LEMMA LedgerDeviceHandleRead ==
    ASSUME ExchangeInv, TypeInv', NEW d \in Devices, NEW p \in net, DeviceHandleRead(d, p),
           UNCHANGED clientVars
    PROVE  LedgerInv'
  <1> USE DEF ExchangeInv
  <1>1. CASE UNCHANGED <<nextPayloadId, net, replyEvents>>
    <2>1. \A m : m \in Messages' => m \in Messages
      BY <1>1, MessagesMembers DEF clientVars
    <2> QED BY <2>1, <1>1, LedgerQuiet, NowKept DEF DeviceHandleRead, clientVars
  <1>2. ASSUME FreshIdLeft, nextPayloadId' = NextId(nextPayloadId), net' = net \ {p},
               NEW delay \in DeviceDelays,
               replyEvents' = [replyEvents EXCEPT ![d] = @ \cup {
                   [at |-> now + delay, dst |-> p.src, seq |-> p.seq, ts |-> now]}]
        PROVE  LedgerInv'
    <2>1. IdsGoOn
      BY <1>2 DEF IdsGoOn
    <2>2. UNCHANGED <<ledgerVars, now, sendEvents>>
      BY DEF DeviceHandleRead, clientVars
    <2>3. LedgerConsistent' /\ AnswersComplete' /\ RequestsKept
      BY <2>1, <2>2, LedgerUntouched
    <2>4. /\ p.seq \in PayloadIds /\ p.ts \in Time /\ now \in Time
          /\ Timely(p.seq, p.ts)
      BY MessagesMembers DEF LedgerInv, MessagesTimely, TypeInv, TypeOK, SimulationTypeOK, Packet
    <2>5. Timely(p.seq, p.ts)'
      BY <2>1, <2>2, <2>3, <2>4, TimelyStays, NowKept
    <2>6. Timely(p.seq, now)'
      <3>1. ASSUME NEW c \in Clients, p.seq \in DOMAIN sentPayloadIds'[c]
            PROVE  sendRequestTimestamps'[c][sentPayloadIds'[c][p.seq]] <= now
        <4>1. sentPayloadIds'[c][p.seq] \in DOMAIN sendRequestTimestamps'[c]
          BY <3>1 DEF TypeInv, TypeOK, ClientTypeOK, Slots
        <4>2. sendRequestTimestamps'[c][sentPayloadIds'[c][p.seq]] \in Time
          BY <4>1 DEF TypeInv, TypeOK, ClientTypeOK
        <4>3. sendRequestTimestamps'[c][sentPayloadIds'[c][p.seq]] <= p.ts /\ p.ts <= now
          BY <2>4, <2>5, <3>1 DEF Timely
        <4> QED BY <2>4, <4>2, <4>3 DEF Time
      <3> QED BY <2>2, <2>4, <2>5, <3>1 DEF Timely, Time
    <2>7. \A x \in Devices : \A m \in replyEvents'[x] :
            m \in replyEvents[x] \/ (m.seq = p.seq /\ m.ts = now)
      BY <1>2 DEF TypeInv, TypeOK, DeviceTypeOK
    <2>8. \A m \in Messages' : m \in Messages \/ Timely(m.seq, m.ts)'
      BY <1>2, <2>2, <2>6, <2>7, MessagesMembers
    <2>9. MessagesTimely'
      BY <2>1, <2>2, <2>3, <2>8, MessagesStayTimely, NowKept
    <2> QED BY <2>3, <2>9 DEF LedgerInv
  <1> QED BY <1>1, <1>2 DEF DeviceHandleRead

LEMMA LedgerDeviceSend ==
    ASSUME ExchangeInv, TypeInv', NEW d \in Devices, NEW e \in replyEvents[d],
           DeviceSend(d, e), UNCHANGED clientVars
    PROVE  LedgerInv'
  <1>1. \A x \in Devices : replyEvents'[x] \subseteq replyEvents[x]
    BY DEF ExchangeInv, TypeInv, TypeOK, DeviceTypeOK, DeviceSend
  <1>2. \A m \in net' : m \in net \/ (m.seq = e.seq /\ m.ts = e.ts)
    BY DEF DeviceSend, PacketOf
  <1>3. e \in Messages
    BY MessagesMembers
  <1>4. \A m \in Messages' : m \in net' \/ m \in Messages
    BY <1>1, MessagesMembers DEF DeviceSend, clientVars
  <1>5. \A m \in Messages' : \E m0 \in Messages : m0.seq = m.seq /\ m0.ts = m.ts
    BY <1>2, <1>3, <1>4, MessagesMembers
  <1> QED BY <1>5, LedgerQuiet, NowKept DEF ExchangeInv, DeviceSend, clientVars

(* Every other step of a device leaves ledgers and messages as they are.   *)
LEMMA LedgerDeviceOther ==
    ASSUME ExchangeInv, TypeInv', NEW d \in Devices,
           DeviceStart(d) \/ DeviceStop(d) \/ WriteData(d), UNCHANGED clientVars
    PROVE  LedgerInv'
  <1>1. UNCHANGED <<now, nextPayloadId, net, replyEvents>>
    BY DEF DeviceStart, DeviceStop, WriteData, deviceVars
  <1>2. \A m : m \in Messages' => m \in Messages
    BY <1>1, MessagesMembers DEF clientVars
  <1> QED BY <1>1, <1>2, LedgerQuiet, NowKept DEF ExchangeInv, clientVars

LEMMA LedgerStep == ExchangeInv /\ [Next]_vars => ExchangeInv'
  <1> SUFFICES ASSUME ExchangeInv, [Next]_vars PROVE ExchangeInv'
    OBVIOUS
  <1>1. TypeInv'
    BY TypeStep DEF ExchangeInv
  <1>2. CASE ClientNext /\ UNCHANGED deviceVars
    BY <1>1, <1>2, LedgerClientStart, LedgerClientStop, LedgerClientProcess,
       LedgerClientSend, LedgerClientHandleRead
    DEF ClientNext, ExchangeInv
  <1>3. CASE DeviceNext /\ UNCHANGED clientVars
    BY <1>1, <1>3, LedgerDeviceOther, LedgerDeviceProcess, LedgerDeviceHandleRead,
       LedgerDeviceSend
    DEF DeviceNext, ExchangeInv
  <1>4. ASSUME NEW p \in net, DropPacket(p), UNCHANGED <<clientVars, deviceVars>>
        PROVE  ExchangeInv'
    <2>1. \A m : m \in Messages' => m \in Messages
      BY <1>4, MessagesMembers DEF DropPacket, clientVars, deviceVars
    <2> QED BY <1>1, <1>4, <2>1, LedgerQuiet, NowKept DEF DropPacket, ExchangeInv, clientVars
  <1>5. ASSUME Tick \/ UNCHANGED vars PROVE ExchangeInv'
    <2>1. now <= now' /\ UNCHANGED <<nextPayloadId, net, clientVars, deviceVars>>
      BY <1>5, NowKept
      DEF Tick, vars, simulationVars, ExchangeInv, TypeInv, TypeOK, SimulationTypeOK, Time
    <2>2. \A m : m \in Messages' => m \in Messages
      BY <2>1, MessagesMembers DEF clientVars, deviceVars
    <2> QED BY <1>1, <2>1, <2>2, LedgerQuiet DEF ExchangeInv, clientVars
  <1> QED BY <1>2, <1>3, <1>4, <1>5 DEF Next, Ended

LEMMA ExchangeInvariant == Spec => []ExchangeInv
  <1>1. Init => ExchangeInv
    BY TypeInit, LedgerInit DEF ExchangeInv
  <1> QED BY <1>1, LedgerStep, PTL DEF Spec

(* HandleRead() can match the reply to every unanswered request and takes  *)
(* none for another's: for any number of clients and devices, with loss,   *)
(* reordering, late replies and stopped applications.                      *)
THEOREM LedgerIsConsistent == Spec => []LedgerConsistent
  <1>1. ExchangeInv => LedgerConsistent
    BY DEF ExchangeInv, LedgerInv
  <1> QED BY <1>1, ExchangeInvariant, PTL

-----------------------------------------------------------------------------
(* The clients implement RequestLedger.                                    *)

LedgerNow == [c \in Clients |-> SlotsOf(c)]

LEMMA LedgerStartsEmpty == Init => Ledger!Init
  BY DEF Init, SimulationInit, ClientInit, Ledger!Init, SlotsOf, Slots

LEMMA LedgerStutters ==
    ASSUME UNCHANGED <<sendRequestTimestamps, replyTimestamps, receiveReplyTimestamps>>
    PROVE  LedgerNow' = LedgerNow
  BY DEF LedgerNow, SlotsOf, Slots

(* Process() is a Request of the ledger.                                   *)
LEMMA ProcessRequests ==
    ASSUME ExchangeInv, NEW c \in Clients, ClientProcess(c)
    PROVE  Ledger!Request(c)
  <1> DEFINE n == Len(sendRequestTimestamps[c])
             new == [requested |-> now, answer |-> [answered |-> Never, received |-> Never]]
  <1>1. /\ sendRequestTimestamps \in [Clients -> Seq(Time)]
        /\ replyTimestamps \in [Clients -> Seq(Time \cup {Never})]
        /\ receiveReplyTimestamps \in [Clients -> Seq(Time \cup {Never})]
        /\ Len(replyTimestamps[c]) = n
        /\ Len(receiveReplyTimestamps[c]) = n
        /\ now \in Time
    BY DEF ExchangeInv, TypeInv, TypeOK, SimulationTypeOK, ClientTypeOK, LedgerInv,
           LedgerConsistent
  <1>2. /\ sendRequestTimestamps' = [sendRequestTimestamps EXCEPT ![c] = Append(@, now)]
        /\ replyTimestamps' = [replyTimestamps EXCEPT ![c] = Append(@, Never)]
        /\ receiveReplyTimestamps' = [receiveReplyTimestamps EXCEPT ![c] = Append(@, Never)]
        /\ UNCHANGED now
    BY DEF ClientProcess
  <1>3. SlotsOf(c)' = Append(SlotsOf(c), new)
    <2>1. /\ Slots(c)' = 1 .. n + 1 /\ n \in Nat
          /\ \A i \in 1 .. n : /\ sendRequestTimestamps'[c][i] = sendRequestTimestamps[c][i]
                               /\ replyTimestamps'[c][i] = replyTimestamps[c][i]
                               /\ receiveReplyTimestamps'[c][i] = receiveReplyTimestamps[c][i]
          /\ sendRequestTimestamps'[c][n + 1] = now
          /\ replyTimestamps'[c][n + 1] = Never
          /\ receiveReplyTimestamps'[c][n + 1] = Never
      BY <1>1, <1>2 DEF Slots
    <2>2. Slots(c) = 1 .. n
      BY <1>1 DEF Slots
    <2>3. Len(SlotsOf(c)) = n
      BY <2>1, <2>2 DEF SlotsOf
    <2>4. Append(SlotsOf(c), new)
            = [i \in 1 .. n + 1 |-> IF i = n + 1 THEN new ELSE SlotsOf(c)[i]]
      BY <2>1, <2>2, <2>3 DEF SlotsOf
    <2> QED BY <2>1, <2>2, <2>4 DEF SlotsOf
  <1>4. \A x \in Clients : x # c => SlotsOf(x)' = SlotsOf(x)
    BY <1>1, <1>2 DEF SlotsOf, Slots
  <1>5. LedgerNow' = [LedgerNow EXCEPT ![c] = Append(@, new)]
    BY <1>3, <1>4 DEF LedgerNow
  <1> QED BY <1>2, <1>5 DEF LedgerNow, Ledger!Request, Ledger!Open, Never

(* HandleRead() of a reply is an Answer of the ledger: the slot is open,   *)
(* and the device answered after the request and not in the future.        *)
LEMMA HandleReadAnswers ==
    ASSUME ExchangeInv, NEW c \in Clients, NEW p \in net, ClientHandleRead(c, p),
           p.seq \in DOMAIN sentPayloadIds[c]
    PROVE  /\ sentPayloadIds[c][p.seq] \in DOMAIN LedgerNow[c]
           /\ p.ts \in 0 .. now
           /\ Ledger!Answer(c, sentPayloadIds[c][p.seq], p.ts)
  <1> DEFINE slot   == sentPayloadIds[c][p.seq]
             answer == [answered |-> p.ts, received |-> now]
  <1>1. /\ replyTimestamps' = [replyTimestamps EXCEPT ![c][slot] = p.ts]
        /\ receiveReplyTimestamps' = [receiveReplyTimestamps EXCEPT ![c][slot] = now]
        /\ UNCHANGED <<sendRequestTimestamps, now>>
    BY DEF ClientHandleRead, SlotOf
  <1>2. /\ sendRequestTimestamps \in [Clients -> Seq(Time)]
        /\ replyTimestamps \in [Clients -> Seq(Time \cup {Never})]
        /\ receiveReplyTimestamps \in [Clients -> Seq(Time \cup {Never})]
        /\ Len(replyTimestamps[c]) = Len(sendRequestTimestamps[c])
        /\ Len(receiveReplyTimestamps[c]) = Len(sendRequestTimestamps[c])
        /\ slot \in Slots(c) /\ now \in Time /\ p.ts \in Time
    BY DEF ExchangeInv, TypeInv, TypeOK, SimulationTypeOK, ClientTypeOK, LedgerInv,
           LedgerConsistent, Packet
  <1>3. sendRequestTimestamps[c][slot] <= p.ts /\ p.ts <= now
    <2>1. p \in Messages
      BY MessagesMembers
    <2> QED BY <2>1 DEF ExchangeInv, LedgerInv, MessagesTimely, Timely
  <1>4. replyTimestamps[c][slot] = Never /\ receiveReplyTimestamps[c][slot] = Never
    BY <1>2 DEF ExchangeInv, LedgerInv, LedgerConsistent, AnswersComplete, Answered
  <1>5. p.ts \in 0 .. now /\ slot \in DOMAIN LedgerNow[c]
    BY <1>2, <1>3 DEF LedgerNow, SlotsOf, Time
  <1>6. SlotsOf(c)' = [SlotsOf(c) EXCEPT ![slot].answer = answer]
    <2>1. \A i \in Slots(c) :
            /\ replyTimestamps'[c][i] = IF i = slot THEN p.ts ELSE replyTimestamps[c][i]
            /\ receiveReplyTimestamps'[c][i]
                 = IF i = slot THEN now ELSE receiveReplyTimestamps[c][i]
      BY <1>1, <1>2 DEF Slots
    <2>2. Slots(c)' = Slots(c) /\ sendRequestTimestamps'[c] = sendRequestTimestamps[c]
      BY <1>1 DEF Slots
    <2>3. SlotsOf(c)' = [i \in Slots(c) |->
            [requested |-> sendRequestTimestamps[c][i],
             answer    |-> IF i = slot THEN answer
                           ELSE [answered |-> replyTimestamps[c][i],
                                 received |-> receiveReplyTimestamps[c][i]]]]
      BY <2>1, <2>2 DEF SlotsOf
    <2> QED BY <1>2, <2>3 DEF SlotsOf
  <1>7. \A x \in Clients : x # c => SlotsOf(x)' = SlotsOf(x)
    BY <1>1, <1>2 DEF SlotsOf, Slots
  <1>8. LedgerNow' = [LedgerNow EXCEPT ![c][slot].answer = answer]
    BY <1>6, <1>7 DEF LedgerNow
  <1>9. /\ LedgerNow[c][slot].answer = [answered |-> Never, received |-> Never]
        /\ LedgerNow[c][slot].requested <= p.ts
    BY <1>2, <1>3, <1>4 DEF LedgerNow, SlotsOf
  <1>10. Ledger!Answer(c, slot, p.ts)
    BY <1>1, <1>3, <1>8, <1>9
    DEF LedgerNow, Ledger!Answer, Ledger!IsOpen, Ledger!Open, Never
  <1> QED BY <1>5, <1>10

LEMMA LedgerSteps ==
    ASSUME ExchangeInv, [Next]_vars
    PROVE  [Ledger!Next]_<<now, LedgerNow>>
  <1>1. ASSUME NEW c \in Clients, ClientProcess(c)
        PROVE  Ledger!Next
    BY <1>1, ProcessRequests DEF Ledger!Next
  <1>2. ASSUME NEW c \in Clients, NEW p \in net, ClientHandleRead(c, p)
        PROVE  [Ledger!Next]_<<now, LedgerNow>>
    <2>1. CASE p.seq \in DOMAIN sentPayloadIds[c]
      BY <1>2, <2>1, HandleReadAnswers DEF Ledger!Next, LedgerNow
    <2>2. CASE p.seq \notin DOMAIN sentPayloadIds[c]
      BY <1>2, <2>2, LedgerStutters DEF ClientHandleRead, ledgerVars
    <2> QED BY <2>1, <2>2
  <1>3. ASSUME Tick PROVE Ledger!Next
    BY <1>3, LedgerStutters DEF Tick, clientVars, ledgerVars, Ledger!Next, Ledger!Elapse, LedgerNow
  <1>4. ASSUME UNCHANGED <<now, ledgerVars>>
        PROVE  UNCHANGED <<now, LedgerNow>>
    BY <1>4, LedgerStutters DEF ledgerVars
  <1>5. CASE ClientNext /\ UNCHANGED deviceVars
    <2>1. ASSUME NEW c \in Clients,
                 \/ ClientStart(c) \/ ClientStop(c)
                 \/ \E e \in sendEvents[c] : ClientSend(c, e)
          PROVE  UNCHANGED <<now, ledgerVars>>
      BY <2>1 DEF ClientStart, ClientStop, ClientSend
    <2> QED BY <1>1, <1>2, <1>4, <1>5, <2>1 DEF ClientNext
  <1>6. CASE DeviceNext /\ UNCHANGED clientVars
    <2>1. UNCHANGED <<now, ledgerVars>>
      BY <1>6 DEF DeviceNext, DeviceStart, DeviceStop, DeviceProcess, DeviceHandleRead,
                  DeviceSend, WriteData, clientVars
    <2> QED BY <1>4, <2>1
  <1>7. CASE (\E p \in net : DropPacket(p)) /\ UNCHANGED <<clientVars, deviceVars>>
    BY <1>4, <1>7 DEF DropPacket, clientVars
  <1>8. CASE UNCHANGED vars
    BY <1>4, <1>8 DEF vars, simulationVars, clientVars
  <1> QED BY <1>3, <1>5, <1>6, <1>7, <1>8 DEF Next, Ended

(* What Process() and HandleRead() write is a behaviour of RequestLedger:  *)
(* a slot is closed once, by an answer made between its request and now.   *)
THEOREM ClientsImplementLedger == Spec => LedgerSpec
  <1>1. Init => Ledger!Init
    BY LedgerStartsEmpty
  <1>2. ExchangeInv /\ [Next]_vars => [Ledger!Next]_<<now, [c \in Clients |-> SlotsOf(c)]>>
    BY LedgerSteps DEF LedgerNow
  <1> QED BY <1>1, <1>2, ExchangeInvariant, PTL DEF Spec, LedgerSpec, Ledger!Spec

-----------------------------------------------------------------------------
(* The results (DeviceClientFactory::WriteResults).                        *)

LEMMA TimesClientProcess ==
    ASSUME ExchangeInv, TypeInv', TimesInOrder, NEW c \in Clients, ClientProcess(c)
    PROVE  TimesInOrder'
  <1> DEFINE n == Len(sendRequestTimestamps[c])
  <1>1. /\ sendRequestTimestamps' = [sendRequestTimestamps EXCEPT ![c] = Append(@, now)]
        /\ replyTimestamps' = [replyTimestamps EXCEPT ![c] = Append(@, Never)]
        /\ receiveReplyTimestamps' = [receiveReplyTimestamps EXCEPT ![c] = Append(@, Never)]
    BY DEF ClientProcess
  <1>2. /\ sendRequestTimestamps \in [Clients -> Seq(Time)]
        /\ replyTimestamps \in [Clients -> Seq(Time \cup {Never})]
        /\ receiveReplyTimestamps \in [Clients -> Seq(Time \cup {Never})]
        /\ n \in Nat
        /\ Len(replyTimestamps[c]) = n /\ Len(receiveReplyTimestamps[c]) = n
    <2>1. ClientTypeOK /\ LedgerConsistent
      BY DEF ExchangeInv, TypeInv, TypeOK, LedgerInv
    <2>2. /\ sendRequestTimestamps \in [Clients -> Seq(Time)]
          /\ replyTimestamps \in [Clients -> Seq(Time \cup {Never})]
          /\ receiveReplyTimestamps \in [Clients -> Seq(Time \cup {Never})]
      BY <2>1 DEF ClientTypeOK
    <2>3. Len(replyTimestamps[c]) = n /\ Len(receiveReplyTimestamps[c]) = n
      BY <2>1 DEF LedgerConsistent
    <2> QED BY <2>2, <2>3
  <1>3. /\ Slots(c) = 1 .. n /\ Slots(c)' = 1 .. n + 1
        /\ receiveReplyTimestamps'[c][n + 1] = Never
        /\ \A i \in 1 .. n : /\ sendRequestTimestamps'[c][i] = sendRequestTimestamps[c][i]
                             /\ replyTimestamps'[c][i] = replyTimestamps[c][i]
                             /\ receiveReplyTimestamps'[c][i] = receiveReplyTimestamps[c][i]
    BY <1>1, <1>2 DEF Slots
  <1>4. \A x \in Clients : x # c =>
           /\ sendRequestTimestamps'[x] = sendRequestTimestamps[x]
           /\ replyTimestamps'[x] = replyTimestamps[x]
           /\ receiveReplyTimestamps'[x] = receiveReplyTimestamps[x]
    BY <1>1, <1>2
  <1>5. \A i \in 1 .. n + 1 : i = n + 1 \/ i \in 1 .. n
    BY <1>2
  <1> SUFFICES ASSUME NEW x \in Clients, NEW i \in Slots(x)', Answered(x, i)'
               PROVE  /\ sendRequestTimestamps'[x][i] <= replyTimestamps'[x][i]
                      /\ replyTimestamps'[x][i] <= receiveReplyTimestamps'[x][i]
    BY DEF TimesInOrder
  <1>6. CASE x = c
    BY <1>3, <1>5, <1>6 DEF TimesInOrder, Answered
  <1>7. CASE x # c
    BY <1>4, <1>7 DEF TimesInOrder, Answered, Slots
  <1> QED BY <1>6, <1>7

(* The reply that closes a slot is not older than its request, and comes   *)
(* from no future.                                                         *)
LEMMA TimesClientHandleRead ==
    ASSUME ExchangeInv, TypeInv', TimesInOrder, NEW c \in Clients, NEW p \in net,
           ClientHandleRead(c, p), p.seq \in DOMAIN sentPayloadIds[c]
    PROVE  TimesInOrder'
  <1> DEFINE slot == sentPayloadIds[c][p.seq]
  <1>1. /\ replyTimestamps' = [replyTimestamps EXCEPT ![c][slot] = p.ts]
        /\ receiveReplyTimestamps' = [receiveReplyTimestamps EXCEPT ![c][slot] = now]
        /\ UNCHANGED sendRequestTimestamps
    BY DEF ClientHandleRead, SlotOf
  <1>2. /\ sendRequestTimestamps \in [Clients -> Seq(Time)]
        /\ replyTimestamps \in [Clients -> Seq(Time \cup {Never})]
        /\ receiveReplyTimestamps \in [Clients -> Seq(Time \cup {Never})]
        /\ Len(replyTimestamps[c]) = Len(sendRequestTimestamps[c])
        /\ Len(receiveReplyTimestamps[c]) = Len(sendRequestTimestamps[c])
    BY DEF ExchangeInv, TypeInv, TypeOK, ClientTypeOK, LedgerInv, LedgerConsistent
  <1>3. p \in Messages
    BY MessagesMembers
  <1>4. sendRequestTimestamps[c][slot] <= p.ts /\ p.ts <= now
    BY <1>3 DEF ExchangeInv, LedgerInv, MessagesTimely, Timely
  <1>5. /\ \A i \in Slots(c) : i # slot =>
             /\ replyTimestamps'[c][i] = replyTimestamps[c][i]
             /\ receiveReplyTimestamps'[c][i] = receiveReplyTimestamps[c][i]
        /\ slot \in Slots(c) =>
             /\ replyTimestamps'[c][slot] = p.ts
             /\ receiveReplyTimestamps'[c][slot] = now
    BY <1>1, <1>2 DEF Slots
  <1>6. \A x \in Clients : x # c =>
           /\ replyTimestamps'[x] = replyTimestamps[x]
           /\ receiveReplyTimestamps'[x] = receiveReplyTimestamps[x]
    BY <1>1, <1>2
  <1> SUFFICES ASSUME NEW x \in Clients, NEW i \in Slots(x), Answered(x, i)'
               PROVE  /\ sendRequestTimestamps[x][i] <= replyTimestamps'[x][i]
                      /\ replyTimestamps'[x][i] <= receiveReplyTimestamps'[x][i]
    BY <1>1 DEF TimesInOrder, Slots
  <1>7. CASE x = c /\ i = slot
    BY <1>4, <1>5, <1>7
  <1>8. CASE x = c /\ i # slot
    BY <1>5, <1>8 DEF TimesInOrder, Answered
  <1>9. CASE x # c
    BY <1>6, <1>9 DEF TimesInOrder, Answered
  <1> QED BY <1>7, <1>8, <1>9

LEMMA TimesStep ==
    ASSUME ExchangeInv, TypeInv', TimesInOrder, [Next]_vars
    PROVE  TimesInOrder'
  <1>1. ASSUME UNCHANGED ledgerVars PROVE TimesInOrder'
    BY <1>1 DEF ledgerVars, TimesInOrder, Slots, Answered
  <1>2. CASE ClientNext /\ UNCHANGED deviceVars
    <2>1. ASSUME NEW c \in Clients,
                 \/ ClientStart(c) \/ ClientStop(c)
                 \/ \E e \in sendEvents[c] : ClientSend(c, e)
          PROVE  UNCHANGED ledgerVars
      BY <2>1 DEF ClientStart, ClientStop, ClientSend
    <2>2. ASSUME NEW c \in Clients, NEW p \in net, ClientHandleRead(c, p)
          PROVE  TimesInOrder'
      <3>1. CASE p.seq \in DOMAIN sentPayloadIds[c]
        BY <2>2, <3>1, TimesClientHandleRead
      <3>2. CASE p.seq \notin DOMAIN sentPayloadIds[c]
        BY <1>1, <2>2, <3>2 DEF ClientHandleRead
      <3> QED BY <3>1, <3>2
    <2> QED BY <1>1, <1>2, <2>1, <2>2, TimesClientProcess DEF ClientNext
  <1>3. CASE UNCHANGED clientVars
    BY <1>1, <1>3 DEF clientVars
  <1> QED BY <1>2, <1>3 DEF Next, Tick, Ended, vars

-----------------------------------------------------------------------------
(* What a pass of the loop over the slots adds.                            *)

Sums == [total : Nat, there : Int, back : Int, minRtt : Int, maxRtt : Int]

MeanBetween(s) ==
    /\ s.minRtt * s.total <= s.there + s.back
    /\ s.there + s.back <= s.maxRtt * s.total

LEMMA ProductsOrdered ==
    ASSUME NEW a \in Int, NEW b \in Int, NEW k \in Nat, a <= b
    PROVE  a * k <= b * k
  <1>1. (b - a) * k >= 0
    OBVIOUS
  <1>2. (b - a) * k = b * k - a * k
    OBVIOUS
  <1>3. a * k \in Int /\ b * k \in Int
    OBVIOUS
  <1> QED BY <1>1, <1>2, <1>3

LEMMA AddGives ==
    ASSUME NEW s \in Sums, NEW row, row.there \in Int, row.back \in Int,
           row.rtt = row.there + row.back
    PROVE  /\ Add(s, row) \in Sums
           /\ Add(s, row).total = s.total + 1
           /\ MeanBetween(s) => MeanBetween(Add(s, row))
  <1>1. PICK k \in Nat, m \in Int, h \in Int, u \in Int, v \in Int :
           s.total = k /\ s.minRtt = m /\ s.maxRtt = h /\ s.there = u /\ s.back = v
    BY DEF Sums
  <1>2. PICK p \in Int, q \in Int, r \in Int :
           row.there = p /\ row.back = q /\ row.rtt = r /\ r = p + q
    OBVIOUS
  <1>3. PICK l \in Int : l = Lower(m, r) /\ l <= m /\ l <= r
    BY DEF Lower
  <1>4. PICK g \in Int : g = Higher(h, r) /\ h <= g /\ r <= g
    BY DEF Higher
  <1>5. PICK n \in Nat : n = k + 1
    OBVIOUS
  <1>6. PICK w \in Int, y \in Int : w = u + p /\ y = v + q
    OBVIOUS
  <1>7. Add(s, row) = [total |-> n, there |-> w, back |-> y, minRtt |-> l, maxRtt |-> g]
    BY <1>1, <1>2, <1>3, <1>4, <1>5, <1>6 DEF Add
  <1>8. Add(s, row) \in Sums /\ Add(s, row).total = s.total + 1
    BY <1>1, <1>5, <1>7 DEF Sums
  <1>9. ASSUME MeanBetween(s) PROVE MeanBetween(Add(s, row))
    <2>1. m * k <= u + v /\ u + v <= h * k
      BY <1>1, <1>9 DEF MeanBetween
    <2>2. l * k <= m * k /\ h * k <= g * k
      BY <1>3, <1>4, ProductsOrdered
    <2>3. l * n = l * k + l /\ g * n = g * k + g
      BY <1>5
    <2>4. /\ m * k \in Int /\ l * k \in Int /\ h * k \in Int /\ g * k \in Int
          /\ l * n \in Int /\ g * n \in Int
      OBVIOUS
    <2>5. w + y = (u + v) + r
      BY <1>2, <1>6
    <2>6. l * n <= w + y /\ w + y <= g * n
      BY <1>3, <1>4, <2>1, <2>2, <2>3, <2>4, <2>5
    <2> QED BY <1>7, <2>6 DEF MeanBetween
  <1> QED BY <1>8, <1>9

(* The rows whose reply arrived are those of the answered slots.           *)
LEMMA RowGives ==
    ASSUME TypeInv, NEW c \in Clients, NEW j \in Slots(c), ReplyArrived(c, j),
           j \in DOMAIN replyTimestamps[c], j \in DOMAIN receiveReplyTimestamps[c]
    PROVE  /\ Row(c, j).there \in Int /\ Row(c, j).back \in Int
           /\ Row(c, j).rtt = Row(c, j).there + Row(c, j).back
           /\ Row(c, j).there = replyTimestamps[c][j] - sendRequestTimestamps[c][j]
           /\ Row(c, j).back = receiveReplyTimestamps[c][j] - replyTimestamps[c][j]
  <1>1. /\ sendRequestTimestamps[c][j] \in Int
        /\ replyTimestamps[c][j] \in Int
        /\ receiveReplyTimestamps[c][j] \in Int
    BY DEF TypeInv, TypeOK, ClientTypeOK, Slots, Time, Never
  <1>2. PICK u \in Int, v \in Int :
           /\ u = replyTimestamps[c][j] - sendRequestTimestamps[c][j]
           /\ v = receiveReplyTimestamps[c][j] - replyTimestamps[c][j]
    BY <1>1
  <1>3. Row(c, j) = [there |-> u, back |-> v, rtt |-> u + v]
    BY <1>2 DEF Row
  <1> QED BY <1>2, <1>3

(* The rows counted after the first n slots.                               *)
Counted(c, n) == {j \in 1 .. n : ReplyArrived(c, j)}

LEMMA CountedGrows ==
    ASSUME NEW c, NEW n \in Nat \ {0}
    PROVE  /\ IsFiniteSet(Counted(c, n - 1))
           /\ Cardinality(Counted(c, n - 1)) \in Nat
           /\ Cardinality(Counted(c, n))
                = Cardinality(Counted(c, n - 1)) + (IF ReplyArrived(c, n) THEN 1 ELSE 0)
  <1>1. IsFiniteSet(1 .. n - 1)
    BY FS_Interval
  <1>2. IsFiniteSet(Counted(c, n - 1))
    BY <1>1, FS_Subset DEF Counted
  <1>3. \A j \in 1 .. n : j = n \/ j \in 1 .. n - 1
    OBVIOUS
  <1>4. n \in 1 .. n /\ n \notin 1 .. n - 1 /\ 1 .. n - 1 \subseteq 1 .. n
    OBVIOUS
  <1>5. CASE ReplyArrived(c, n)
    <2>1. Counted(c, n) = Counted(c, n - 1) \cup {n} /\ n \notin Counted(c, n - 1)
      BY <1>3, <1>4, <1>5 DEF Counted
    <2> QED BY <1>2, <1>5, <2>1, FS_AddElement, FS_CardinalityType
  <1>6. CASE ~ReplyArrived(c, n)
    <2>1. Counted(c, n) = Counted(c, n - 1)
      BY <1>3, <1>4, <1>6 DEF Counted
    <2> QED BY <1>2, <1>6, <2>1, FS_CardinalityType
  <1> QED BY <1>5, <1>6

LEMMA StatisticsGive ==
    ASSUME ExchangeInv, NEW c \in Clients
    PROVE  /\ Statistics(c) \in Sums
           /\ MeanBetween(Statistics(c))
           /\ Statistics(c).total
                = Cardinality(Counted(c, Len(sendRequestTimestamps[c])))
  <1> DEFINE N == Len(sendRequestTimestamps[c])
             Pass(j, s) == IF ReplyArrived(c, j) THEN Add(s, Row(c, j)) ELSE s
             Is(f) == f = [j \in 0 .. N |->
                        IF j = 0 THEN Nothing
                        ELSE IF ReplyArrived(c, j) THEN Add(f[j - 1], Row(c, j))
                        ELSE f[j - 1]]
             upTo == CHOOSE f : Is(f)
  <1>1. Statistics(c) = upTo[N]
    BY DEF Statistics
  <1>2. /\ N \in Nat /\ Slots(c) = 1 .. N
        /\ DOMAIN replyTimestamps[c] = 1 .. N
        /\ DOMAIN receiveReplyTimestamps[c] = 1 .. N
    BY DEF ExchangeInv, TypeInv, TypeOK, ClientTypeOK, LedgerInv, LedgerConsistent, Slots
  <1> HIDE DEF N
  <1>3. Nothing \in Sums /\ MeanBetween(Nothing) /\ Nothing.total = 0
    <2>1. PICK zero \in Nat, m \in Int, h \in Int : zero = 0 /\ m = MinRttStart /\ h = -1
      BY ClientResultsAssumption
    <2>2. Nothing = [total |-> zero, there |-> zero, back |-> zero, minRtt |-> m, maxRtt |-> h]
      BY <2>1 DEF Nothing
    <2>3. m * zero = 0 /\ h * zero = 0
      BY <2>1
    <2> QED BY <2>1, <2>2, <2>3 DEF Sums, MeanBetween
  <1>4. ASSUME NEW j \in 1 .. N, NEW s \in Sums
        PROVE  /\ Pass(j, s) \in Sums
               /\ MeanBetween(s) => MeanBetween(Pass(j, s))
               /\ Pass(j, s).total = s.total + (IF ReplyArrived(c, j) THEN 1 ELSE 0)
    <2>1. CASE ReplyArrived(c, j)
      <3>1. /\ Row(c, j).there \in Int /\ Row(c, j).back \in Int
            /\ Row(c, j).rtt = Row(c, j).there + Row(c, j).back
        BY <1>2, <2>1, RowGives DEF ExchangeInv
      <3> QED BY <2>1, <3>1, AddGives
    <2>2. CASE ~ReplyArrived(c, j)
      BY <2>2 DEF Sums
    <2> QED BY <2>1, <2>2
  <1>5. \E f : Is(f)
    <2> DEFINE G == [p \in (1 .. N) \X Sums |-> Pass(p[1], p[2])]
    <2> HIDE DEF Pass
    <2>1. G \in [(1 .. N) \X Sums -> Sums]
      BY <1>4
    <2> HIDE DEF G
    <2>2. Runs(N, Sums, Nothing, G) # {}
      BY <1>2, <1>3, <2>1, Recursion
    <2>3. PICK f \in [0 .. N -> Sums] :
             f[0] = Nothing /\ \A j \in 1 .. N : f[j] = G[<<j, f[j - 1]>>]
      BY <2>2 DEF Runs
    <2>4. ASSUME NEW j \in 0 .. N
          PROVE  f[j] = IF j = 0 THEN Nothing ELSE Pass(j, f[j - 1])
      <3>1. CASE j = 0
        BY <2>3, <3>1
      <3>2. CASE j # 0
        <4>1. j \in 1 .. N /\ j - 1 \in 0 .. N
          BY <1>2, <3>2
        <4>2. <<j, f[j - 1]>> \in (1 .. N) \X Sums
          BY <4>1
        <4>3. G[<<j, f[j - 1]>>] = Pass(j, f[j - 1])
          BY <4>2 DEF G
        <4> QED BY <2>3, <3>2, <4>1, <4>3
      <3> QED BY <3>1, <3>2
    <2> QED BY <2>4, Zenon DEF Pass
  <1>6. Is(upTo)
    BY <1>5
  <1> HIDE DEF upTo
  <1>7. \A j \in 1 .. N : upTo[j] = Pass(j, upTo[j - 1])
    BY <1>2, <1>6
  <1>8. upTo[0] = Nothing
    BY <1>2, <1>6
  <1> HIDE DEF Pass, Is
  <1> DEFINE S == {n \in 0 .. N : /\ upTo[n] \in Sums
                                  /\ MeanBetween(upTo[n])
                                  /\ upTo[n].total = Cardinality(Counted(c, n))}
  <1>9. 0 \in S
    <2>1. Counted(c, 0) = {}
      BY DEF Counted
    <2>2. Cardinality(Counted(c, 0)) = 0
      BY <2>1, FS_EmptySet
    <2>3. /\ upTo[0] \in Sums /\ MeanBetween(upTo[0])
          /\ upTo[0].total = Cardinality(Counted(c, 0))
      <3> HIDE DEF Nothing
      <3> QED BY <1>3, <1>8, <2>2
    <2> HIDE DEF upTo
    <2> QED BY <1>2, <2>3
  <1>10. ASSUME NEW n \in 1 .. N, n - 1 \in S PROVE n \in S
    <2>1. /\ n \in 0 .. N /\ n \in Nat \ {0}
          /\ upTo[n - 1] \in Sums /\ MeanBetween(upTo[n - 1])
          /\ upTo[n - 1].total = Cardinality(Counted(c, n - 1))
      BY <1>2, <1>10
    <2>2. upTo[n] = Pass(n, upTo[n - 1])
      BY <1>7
    <2>3. upTo[n] \in Sums /\ MeanBetween(upTo[n])
      BY <1>4, <2>1, <2>2
    <2>4. upTo[n].total = upTo[n - 1].total + (IF ReplyArrived(c, n) THEN 1 ELSE 0)
      BY <1>4, <2>1, <2>2
    <2>5. upTo[n].total = Cardinality(Counted(c, n))
      BY <2>1, <2>4, CountedGrows
    <2> QED BY <2>1, <2>3, <2>5
  <1> HIDE DEF S
  <1>11. \A n \in 0 .. N : n \in S
    BY <1>2, <1>9, <1>10, LoopKeeps
  <1>12. N \in S
    BY <1>2, <1>11
  <1> QED BY <1>1, <1>12 DEF S, N

LEMMA ResultsFromTimes ==
    ASSUME ExchangeInv, TimesInOrder
    PROVE  ResultsConsistent
  <1> SUFFICES ASSUME NEW c \in Clients
               PROVE  ResultsConsistent!(c)
    BY DEF ResultsConsistent
  <1> DEFINE N == Len(sendRequestTimestamps[c])
             s == Statistics(c)
  <1>1. /\ N \in Nat /\ Slots(c) = 1 .. N
        /\ DOMAIN replyTimestamps[c] = 1 .. N
        /\ DOMAIN receiveReplyTimestamps[c] = 1 .. N
        /\ sendRequestTimestamps[c] \in Seq(Time)
        /\ replyTimestamps[c] \in Seq(Time \cup {Never})
        /\ receiveReplyTimestamps[c] \in Seq(Time \cup {Never})
    BY DEF ExchangeInv, TypeInv, TypeOK, ClientTypeOK, LedgerInv, LedgerConsistent, Slots
  <1>2. \A j \in Slots(c) : ReplyArrived(c, j) <=> Answered(c, j)
    BY DEF ReplyArrived, Answered, ExchangeInv, LedgerInv, AnswersComplete
  <1>3. s \in Sums /\ MeanBetween(s) /\ s.total = Cardinality(Counted(c, N))
    BY StatisticsGive
  <1>4. Counted(c, N) = {j \in Slots(c) : Answered(c, j)}
    BY <1>1, <1>2 DEF Counted
  <1>5. ASSUME NEW j \in Slots(c), Answered(c, j)
        PROVE  /\ Row(c, j).there >= 0
               /\ Row(c, j).back >= 0
               /\ Row(c, j).rtt = receiveReplyTimestamps[c][j] - sendRequestTimestamps[c][j]
    <2>1. PICK u \in Int, v \in Int, w \in Int :
             /\ sendRequestTimestamps[c][j] = u
             /\ replyTimestamps[c][j] = v
             /\ receiveReplyTimestamps[c][j] = w
      <3>1. /\ sendRequestTimestamps[c][j] \in Time
            /\ replyTimestamps[c][j] \in Time \cup {Never}
            /\ receiveReplyTimestamps[c][j] \in Time \cup {Never}
        BY <1>1
      <3> QED BY <3>1 DEF Time, Never
    <2>2. u <= v /\ v <= w
      BY <1>5, <2>1 DEF TimesInOrder
    <2>3. /\ Row(c, j).there \in Int /\ Row(c, j).back \in Int
          /\ Row(c, j).rtt = Row(c, j).there + Row(c, j).back
          /\ Row(c, j).there = v - u /\ Row(c, j).back = w - v
      BY <1>1, <1>2, <1>5, <2>1, RowGives DEF ExchangeInv
    <2> QED BY <2>1, <2>2, <2>3
  <1> HIDE DEF s, N
  <1>6. CASE s.total = 0
    <2>1. Summary(c) = NoSummary
      BY <1>6 DEF Summary, s
    <2>2. Summary(c).total = 0
      BY <2>1 DEF NoSummary
    <2> QED BY <1>3, <1>4, <1>5, <1>6, <2>2
  <1>7. CASE s.total # 0
    <2>1. Summary(c) = s
      BY <1>7 DEF Summary, s
    <2> QED BY <1>3, <1>4, <1>5, <2>1 DEF MeanBetween
  <1> QED BY <1>6, <1>7

(* Whenever the run ends, what WriteResults() prints of a client agrees    *)
(* with what happened, whatever was lost or overtaken: it counts the       *)
(* replies that were received, its latencies are not negative, and its     *)
(* mean lies between its minimum and its maximum.                          *)
THEOREM ResultsAreConsistent == Spec => []ResultsConsistent
  <1>1. Init => TimesInOrder
    BY DEF Init, ClientInit, TimesInOrder, Slots
  <1>2. ExchangeInv /\ TypeInv' /\ TimesInOrder /\ [Next]_vars => TimesInOrder'
    BY TimesStep
  <1>3. ExchangeInv /\ TimesInOrder => ResultsConsistent
    BY ResultsFromTimes
  <1>4. ExchangeInv => TypeInv
    BY DEF ExchangeInv
  <1> QED BY <1>1, <1>2, <1>3, <1>4, ExchangeInvariant, PTL DEF Spec

=============================================================================
