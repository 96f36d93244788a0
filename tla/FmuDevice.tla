----------------------------- MODULE FmuDevice ------------------------------
(***************************************************************************)
(* model/fmu-attached-device.cc and model/fmu-shared-device.cc: the        *)
(* application that answers messages with the state of an FMU, sends data  *)
(* on its own in an interval, and writes rows of results. A device with a  *)
(* SharedName is an FmuSharedDevice: the devices of one name step one FMU. *)
(* An FMU instance is named by the device whose initFmu() created it.      *)
(***************************************************************************)
EXTENDS Simulation

CONSTANTS
    Devices,         \* installed FmuAttachedDevice and FmuSharedDevice applications
    DeviceNode,      \* [Devices -> Nodes]
    SharedName,      \* [Devices -> SharedNames \cup {NoName}]
    SharedNames,
    NoName,          \* the device has an FMU of its own
    DataPeer,        \* [Devices -> Nodes \cup {NoDataPeer}], the peer of m_sendData
    NoDataPeer,
    SendInterval,    \* m_sendInterval, in ticks
    Writers,         \* devices with m_resWrite
    WritePeriod,     \* m_resWritePeriodInS, in ticks
    DeviceDelays,    \* values of m_processingTime->GetValue(), in ticks
    CommStep,        \* m_commStepSizeInS, in ticks
    FmuStart,        \* m_startTimeInS, in ticks
    FmuMayFail,      \* TRUE iff a call of an FMU may return another status than fmippOK
    StoppingDevices, \* devices with a stop time
    NoFmu

ASSUME FmuDeviceAssumption ==
    /\ DeviceNode \in [Devices -> Nodes]
    /\ SharedName \in [Devices -> SharedNames \cup {NoName}]
    /\ NoName \notin SharedNames
    /\ DataPeer \in [Devices -> Nodes \cup {NoDataPeer}]
    /\ NoDataPeer \notin Nodes
    /\ SendInterval \in Nat \ {0}
    /\ Writers \subseteq Devices
    /\ WritePeriod \in Nat \ {0}
    /\ DeviceDelays \subseteq Nat
    /\ CommStep \in Nat \ {0}
    /\ FmuStart \in Nat
    /\ FmuMayFail \in BOOLEAN
    /\ StoppingDevices \subseteq Devices
    /\ NoFmu \notin Devices

VARIABLES
    deviceState,        \* "installed", "up" or "stopped"
    fmu,                \* m_fmu: the device that created the instance, or NoFmu
    sharedFmus,         \* m_sharedFmuCollection: name -> instance or NoFmu
    fmuTime,            \* FMUCoSimulation::time_ of every instance
    dataEvent,          \* time of the pending Process() call, or Never
    replyEvents,        \* pending Send() calls
    writeDataEvent,     \* time of the pending WriteData() call, or Never
    rows,               \* the results file: FMU time and simulation time of each row
    lastStepped         \* history: simulation time at which an FMU was stepped last

deviceVars == <<deviceState, fmu, sharedFmus, fmuTime, dataEvent, replyEvents,
                writeDataEvent, rows, lastStepped>>

DeviceAddress(d) == [node |-> DeviceNode[d], port |-> DevicePort]

-----------------------------------------------------------------------------
(* defaultDoStepCallbackImpl(): do { doStep } while (tt < time). The loop  *)
(* runs Steps(tt, time) times, once at least.                              *)

Steps(tt, time) ==
    IF tt + CommStep >= time THEN 1 ELSE (time - tt + CommStep - 1) \div CommStep

SteppedOnce(tt, time) == tt + CommStep
SteppedTo(tt, time) == tt + Steps(tt, time) * CommStep

(* One call of the do-step callback by device d.                           *)
StepFmu(d) ==
    /\ fmuTime' = [fmuTime EXCEPT ![fmu[d]] = SteppedTo(@, now)]
    /\ lastStepped' = [lastStepped EXCEPT ![fmu[d]] = now]

-----------------------------------------------------------------------------
(* initFmu(): an FmuSharedDevice takes the instance of its name from the   *)
(* collection and creates, initializes and inserts it when there is none.  *)
(* The instance's time is the start time once it is initialized.           *)

FmuOf(d) ==
    IF SharedName[d] # NoName /\ sharedFmus[SharedName[d]] # NoFmu
    THEN sharedFmus[SharedName[d]]
    ELSE d

CollectionKept(d) == sharedFmus
CollectionAfterInit(d) ==
    IF SharedName[d] = NoName THEN sharedFmus
    ELSE [sharedFmus EXCEPT ![SharedName[d]] = FmuOf(d)]

InitFmuEachTime(d) ==
    /\ fmu' = [fmu EXCEPT ![d] = FmuOf(d)]
    /\ sharedFmus' = CollectionAfterInit(d)
    /\ fmuTime' = [fmuTime EXCEPT ![FmuOf(d)] = FmuStart]

InitFmu(d) ==
    /\ fmu' = [fmu EXCEPT ![d] = FmuOf(d)]
    /\ sharedFmus' = CollectionAfterInit(d)
    /\ fmuTime' = IF FmuOf(d) = d THEN [fmuTime EXCEPT ![d] = FmuStart] ELSE fmuTime

-----------------------------------------------------------------------------
(* StartApplication(): the init callback aborts the program when the FMU   *)
(* cannot be instantiated or initialized. The first WriteData() is         *)
(* scheduled with the current time as its delay.                           *)
DeviceStart(d) ==
    LET fails == DeviceAddress(d) \in bound IN
    /\ Running
    /\ deviceState[d] = "installed"
    /\ \/ /\ fails \/ (FmuMayFail /\ FmuOf(d) = d)
          /\ Abort
          /\ UNCHANGED <<bound, deviceVars>>
       \/ /\ ~fails
          /\ bound' = bound \cup {DeviceAddress(d)}
          /\ deviceState' = [deviceState EXCEPT ![d] = "up"]
          /\ InitFmu(d)
          /\ dataEvent' = IF DataPeer[d] = NoDataPeer THEN dataEvent
                          ELSE [dataEvent EXCEPT ![d] = now]
          /\ writeDataEvent' = IF d \notin Writers THEN writeDataEvent
                               ELSE [writeDataEvent EXCEPT ![d] = now + now]
          /\ UNCHANGED <<status, replyEvents, rows, lastStepped>>
    /\ UNCHANGED <<now, nextPayloadId, net, dropped>>

(* StopApplication(): the socket is closed and WriteData() cancelled;      *)
(* Process() and Send() stay scheduled.                                    *)
DeviceStop(d) ==
    /\ Running
    /\ d \in StoppingDevices
    /\ deviceState[d] = "up"
    /\ deviceState' = [deviceState EXCEPT ![d] = "stopped"]
    /\ bound' = bound \ {DeviceAddress(d)}
    /\ writeDataEvent' = [writeDataEvent EXCEPT ![d] = Never]
    /\ UNCHANGED <<now, status, nextPayloadId, net, dropped>>
    /\ UNCHANGED <<fmu, sharedFmus, fmuTime, dataEvent, replyEvents, rows, lastStepped>>

(* Process(): send the FMU's state to the client of m_sendData. The        *)
(* default callback returns the invalid payload, a callback of the user    *)
(* may return one with a fresh id.                                         *)
DeviceProcess(d) ==
    /\ Running
    /\ dataEvent[d] = now
    /\ \/ /\ FmuMayFail
          /\ Abort
          /\ UNCHANGED <<nextPayloadId, fmuTime, lastStepped, replyEvents, dataEvent>>
       \/ /\ StepFmu(d)
          /\ \E fresh \in {FALSE} \cup {FreshIdLeft}, delay \in DeviceDelays :
               /\ nextPayloadId' = IF fresh THEN NextId(nextPayloadId) ELSE nextPayloadId
               /\ replyEvents' = [replyEvents EXCEPT ![d] = @ \cup {
                      [at  |-> now + delay, ts |-> now,
                       seq |-> IF fresh THEN nextPayloadId ELSE INVALID,
                       dst |-> [node |-> DataPeer[d], port |-> DevicePort]]}]
          /\ dataEvent' = [dataEvent EXCEPT ![d] = now + SendInterval]
          /\ UNCHANGED status
    /\ UNCHANGED <<now, bound, net, dropped, deviceState, fmu, sharedFmus,
                   writeDataEvent, rows>>

(* HandleRead(), for one packet: step the FMU and schedule the reply, with *)
(* the request's sequence number and the current time in its header. The   *)
(* payload of the default reply consumes an id.                            *)
DeviceHandleRead(d, p) ==
    /\ Running
    /\ p \in net
    /\ deviceState[d] = "up"
    /\ p.dst = DeviceAddress(d)
    /\ \/ /\ FmuMayFail
          /\ Abort
          /\ UNCHANGED <<nextPayloadId, net, fmuTime, lastStepped, replyEvents>>
       \/ /\ FreshIdLeft
          /\ net' = net \ {p}
          /\ StepFmu(d)
          /\ nextPayloadId' = NextId(nextPayloadId)
          /\ \E delay \in DeviceDelays :
               replyEvents' = [replyEvents EXCEPT ![d] = @ \cup {
                   [at |-> now + delay, dst |-> p.src, seq |-> p.seq, ts |-> now]}]
          /\ UNCHANGED status
    /\ UNCHANGED <<now, bound, dropped, deviceState, fmu, sharedFmus, dataEvent,
                   writeDataEvent, rows>>

(* Send(): SendTo() on a closed socket fails, and the packet is gone.      *)
DeviceSend(d, e) ==
    /\ Running
    /\ e \in replyEvents[d]
    /\ e.at = now
    /\ replyEvents' = [replyEvents EXCEPT ![d] = @ \ {e}]
    /\ IF deviceState[d] = "up"
       THEN net' = net \cup {PacketOf(e, DeviceAddress(d))} /\ UNCHANGED dropped
       ELSE dropped' = dropped \cup {e.seq} /\ UNCHANGED net
    /\ UNCHANGED <<now, status, nextPayloadId, bound>>
    /\ UNCHANGED <<deviceState, fmu, sharedFmus, fmuTime, dataEvent, writeDataEvent,
                   rows, lastStepped>>

(* WriteData(): step the FMU with the default callback if it lags, and     *)
(* append a row that carries the FMU's time after that. The payload the    *)
(* callback returns here is the invalid one, which consumes no id.         *)
TimeOfRow(d) ==
    LET tt == fmuTime[fmu[d]] IN IF tt < now THEN SteppedTo(tt, now) ELSE tt

WriteData(d) ==
    LET tt == TimeOfRow(d) IN
    /\ Running
    /\ writeDataEvent[d] = now
    /\ \/ /\ FmuMayFail /\ fmuTime[fmu[d]] < now
          /\ Abort
          /\ UNCHANGED <<fmuTime, lastStepped, rows, writeDataEvent>>
       \/ /\ IF fmuTime[fmu[d]] < now THEN StepFmu(d)
                                       ELSE UNCHANGED <<fmuTime, lastStepped>>
          /\ rows' = [rows EXCEPT ![d] = Append(@, [fmu |-> tt, at |-> now])]
          /\ writeDataEvent' = [writeDataEvent EXCEPT ![d] = now + WritePeriod]
          /\ UNCHANGED status
    /\ UNCHANGED <<now, nextPayloadId, bound, net, dropped, deviceState, fmu,
                   sharedFmus, dataEvent, replyEvents>>

DeviceInit ==
    /\ deviceState = [d \in Devices |-> "installed"]
    /\ fmu = [d \in Devices |-> NoFmu]
    /\ sharedFmus = [n \in SharedNames |-> NoFmu]
    /\ fmuTime = [d \in Devices |-> 0]
    /\ dataEvent = [d \in Devices |-> Never]
    /\ replyEvents = [d \in Devices |-> {}]
    /\ writeDataEvent = [d \in Devices |-> Never]
    /\ rows = [d \in Devices |-> <<>>]
    /\ lastStepped = [d \in Devices |-> 0]

DeviceNext ==
    \E d \in Devices :
        \/ DeviceStart(d)
        \/ DeviceStop(d)
        \/ DeviceProcess(d)
        \/ \E p \in net : DeviceHandleRead(d, p)
        \/ \E e \in replyEvents[d] : DeviceSend(d, e)
        \/ WriteData(d)

(* The clock stands still while a call of this device is due.              *)
DeviceIdle(d) ==
    /\ deviceState[d] # "installed"
    /\ dataEvent[d] # now
    /\ writeDataEvent[d] # now
    /\ \A e \in replyEvents[d] : e.at # now

DeviceTypeOK ==
    /\ deviceState \in [Devices -> {"installed", "up", "stopped"}]
    /\ fmu \in [Devices -> Devices \cup {NoFmu}]
    /\ sharedFmus \in [SharedNames -> Devices \cup {NoFmu}]
    /\ fmuTime \in [Devices -> Time]
    /\ dataEvent \in [Devices -> Time \cup {Never}]
    /\ replyEvents \in [Devices -> SUBSET SendEvent]
    /\ writeDataEvent \in [Devices -> Time \cup {Never}]
    /\ rows \in [Devices -> Seq([fmu : Time, at : Time])]
    /\ lastStepped \in [Devices -> Time]

=============================================================================
