---------------------------- MODULE DeviceClient ----------------------------
(***************************************************************************)
(* model/device-client.cc: the application that sends requests to a device *)
(* in a regular interval and keeps, for each request, the times at which   *)
(* it was made, the device answered it and the answer arrived. Variables   *)
(* are named after the members (without m_); m_sent is the length of       *)
(* sendRequestTimestamps, and slots count from 1.                          *)
(***************************************************************************)
EXTENDS Simulation

CONSTANTS
    Clients,          \* installed DeviceClient applications
    ClientNode,       \* [Clients -> Nodes], the node a client is installed on
    RequestPeer,      \* [Clients -> Nodes \cup {NoPeer}], NoPeer: listen-only client
    NoPeer,
    Interval,         \* m_interval, in ticks
    ClientDelays,     \* values of m_processingTime->GetValue(), in ticks
    StoppingClients   \* clients with a stop time: StopApplication() may run

ASSUME DeviceClientAssumption ==
    /\ ClientNode \in [Clients -> Nodes]
    /\ RequestPeer \in [Clients -> Nodes \cup {NoPeer}]
    /\ NoPeer \notin Nodes
    /\ Interval \in Nat \ {0}
    /\ ClientDelays \subseteq Nat
    /\ StoppingClients \subseteq Clients

VARIABLES
    nextPort,                \* the function-static port of StartApplication()
    clientState,             \* "installed", "up" (m_socket # 0) or "stopped"
    port,                    \* local port of m_socket
    processEvent,            \* time of the pending Process() call, or Never
    sendEvents,              \* pending Send() calls
    sendEvent,               \* sequence number of the call m_sendEvent refers to
    sentPayloadIds,          \* payload id -> slot, of the unanswered requests
    sendRequestTimestamps,
    replyTimestamps,
    receiveReplyTimestamps

ledgerVars == <<sentPayloadIds, sendRequestTimestamps, replyTimestamps,
                receiveReplyTimestamps>>
clientVars == <<nextPort, clientState, port, processEvent, sendEvents, sendEvent,
                ledgerVars>>

ClientAddress(c) == [node |-> ClientNode[c], port |-> port[c]]

(* Slots of the requests a client has made so far.                         *)
Slots(c) == DOMAIN sendRequestTimestamps[c]

Answered(c, slot) == receiveReplyTimestamps[c][slot] # Never

-----------------------------------------------------------------------------
(* std::map operations on sentPayloadIds.                                  *)

PutNext(map, id, slot) ==
    [x \in DOMAIN map \cup {id} |-> IF x = id THEN slot + 1 ELSE map[x]]
Put(map, id, slot) ==
    [x \in DOMAIN map \cup {id} |-> IF x = id THEN slot ELSE map[x]]

EraseNothing(map, id) == map
Erase(map, id) == [x \in DOMAIN map \ {id} |-> map[x]]

-----------------------------------------------------------------------------
(* StartApplication(): Bind() to the next port of the process fails, and   *)
(* ns-3 stops the program, when another application of the node has it.    *)
ClientStart(c) ==
    LET address == [node |-> ClientNode[c], port |-> nextPort] IN
    /\ Running
    /\ clientState[c] = "installed"
    /\ nextPort' = nextPort + 1
    /\ IF address \in bound
       THEN /\ Abort
            /\ UNCHANGED <<bound, clientState, port, processEvent>>
       ELSE /\ bound' = bound \cup {address}
            /\ clientState' = [clientState EXCEPT ![c] = "up"]
            /\ port' = [port EXCEPT ![c] = nextPort]
            /\ processEvent' = IF RequestPeer[c] = NoPeer THEN processEvent
                               ELSE [processEvent EXCEPT ![c] = now]
            /\ UNCHANGED status
    /\ UNCHANGED <<now, nextPayloadId, net, dropped, sendEvents, sendEvent, ledgerVars>>

(* StopApplication(): only the latest Send() is cancelled; an earlier one  *)
(* and the pending Process() stay scheduled.                               *)
ClientStop(c) ==
    /\ Running
    /\ c \in StoppingClients
    /\ clientState[c] = "up"
    /\ clientState' = [clientState EXCEPT ![c] = "stopped"]
    /\ bound' = bound \ {ClientAddress(c)}
    /\ sendEvents' = [sendEvents EXCEPT ![c] = {e \in @ : e.seq # sendEvent[c]}]
    /\ UNCHANGED <<now, status, nextPayloadId, net, dropped>>
    /\ UNCHANGED <<nextPort, port, processEvent, sendEvent, ledgerVars>>

(* When Send() of the request made now is due: m_sendEvent is overwritten, *)
(* an earlier Send() that has not run yet stays scheduled.                 *)
ScheduleReplacing(pending, e) == {e}
ScheduleSend(pending, e) == pending \cup {e}

(* Process(): make the next request, and schedule sending it and the next  *)
(* call. The default send callback returns a payload with a fresh id.      *)
ClientProcess(c) ==
    LET id   == nextPayloadId
        slot == Len(sendRequestTimestamps[c]) + 1
    IN
    /\ Running
    /\ processEvent[c] = now
    /\ FreshIdLeft
    /\ nextPayloadId' = NextId(id)
    /\ sentPayloadIds' = [sentPayloadIds EXCEPT ![c] = Put(@, id, slot)]
    /\ sendRequestTimestamps' = [sendRequestTimestamps EXCEPT ![c] = Append(@, now)]
    /\ replyTimestamps' = [replyTimestamps EXCEPT ![c] = Append(@, Never)]
    /\ receiveReplyTimestamps' = [receiveReplyTimestamps EXCEPT ![c] = Append(@, Never)]
    /\ \E delay \in ClientDelays :
         sendEvents' = [sendEvents EXCEPT ![c] = ScheduleSend(@,
             [at |-> now + delay, seq |-> id, ts |-> now,
              dst |-> [node |-> RequestPeer[c], port |-> DevicePort]])]
    /\ sendEvent' = [sendEvent EXCEPT ![c] = id]
    /\ processEvent' = [processEvent EXCEPT ![c] = now + Interval]
    /\ UNCHANGED <<now, status, bound, net, dropped, nextPort, clientState, port>>

(* Send(): after StopApplication() m_socket is null, and the call crashes. *)
ClientSend(c, e) ==
    /\ Running
    /\ e \in sendEvents[c]
    /\ e.at = now
    /\ sendEvents' = [sendEvents EXCEPT ![c] = @ \ {e}]
    /\ IF clientState[c] = "up"
       THEN net' = net \cup {PacketOf(e, ClientAddress(c))} /\ UNCHANGED status
       ELSE Abort /\ UNCHANGED net
    /\ UNCHANGED <<now, nextPayloadId, bound, dropped>>
    /\ UNCHANGED <<nextPort, clientState, port, processEvent, sendEvent, ledgerVars>>

(* The slot a reply is recorded in.                                        *)
LatestSlot(c, id) == Len(sendRequestTimestamps[c])
SlotOf(c, id) == sentPayloadIds[c][id]

(* HandleRead(), for one packet of the socket: a reply is recognised by    *)
(* its payload id and closes its slot, any other message only reaches the  *)
(* receive callback.                                                       *)
ClientHandleRead(c, p) ==
    LET isReply == p.seq \in DOMAIN sentPayloadIds[c]
        slot    == SlotOf(c, p.seq)
    IN
    /\ Running
    /\ p \in net
    /\ clientState[c] = "up"
    /\ p.dst = ClientAddress(c)
    /\ net' = net \ {p}
    /\ IF isReply
       THEN /\ replyTimestamps' = [replyTimestamps EXCEPT ![c][slot] = p.ts]
            /\ receiveReplyTimestamps' = [receiveReplyTimestamps EXCEPT ![c][slot] = now]
            /\ sentPayloadIds' = [sentPayloadIds EXCEPT ![c] = Erase(@, p.seq)]
            /\ UNCHANGED sendRequestTimestamps
       ELSE UNCHANGED ledgerVars
    /\ UNCHANGED <<now, status, nextPayloadId, bound, dropped>>
    /\ UNCHANGED <<nextPort, clientState, port, processEvent, sendEvents, sendEvent>>

ClientInit ==
    /\ nextPort = DevicePort
    /\ clientState = [c \in Clients |-> "installed"]
    /\ port = [c \in Clients |-> 0]
    /\ processEvent = [c \in Clients |-> Never]
    /\ sendEvents = [c \in Clients |-> {}]
    /\ sendEvent = [c \in Clients |-> INVALID]
    /\ sentPayloadIds = [c \in Clients |-> <<>>]
    /\ sendRequestTimestamps = [c \in Clients |-> <<>>]
    /\ replyTimestamps = [c \in Clients |-> <<>>]
    /\ receiveReplyTimestamps = [c \in Clients |-> <<>>]

ClientNext ==
    \E c \in Clients :
        \/ ClientStart(c)
        \/ ClientStop(c)
        \/ ClientProcess(c)
        \/ \E e \in sendEvents[c] : ClientSend(c, e)
        \/ \E p \in net : ClientHandleRead(c, p)

(* The clock stands still while a call of this client is due.              *)
ClientIdle(c) ==
    /\ clientState[c] # "installed"
    /\ processEvent[c] # now
    /\ \A e \in sendEvents[c] : e.at # now

ClientTypeOK ==
    /\ nextPort \in Nat
    /\ clientState \in [Clients -> {"installed", "up", "stopped"}]
    /\ port \in [Clients -> Nat]
    /\ processEvent \in [Clients -> Time \cup {Never}]
    /\ sendEvents \in [Clients -> SUBSET SendEvent]
    /\ sendEvent \in [Clients -> PayloadIds]
    /\ sendRequestTimestamps \in [Clients -> Seq(Time)]
    /\ replyTimestamps \in [Clients -> Seq(Time \cup {Never})]
    /\ receiveReplyTimestamps \in [Clients -> Seq(Time \cup {Never})]
    /\ DOMAIN sentPayloadIds = Clients
    /\ \A c \in Clients :
         /\ DOMAIN sentPayloadIds[c] \subseteq PayloadIds
         /\ sentPayloadIds[c] \in [DOMAIN sentPayloadIds[c] -> Slots(c)]

=============================================================================
