---------------------------- MODULE ModelExchange ----------------------------
(***************************************************************************)
(* integrate() of an FMUModelExchange object of FMI 1.0 or 2.0. A call     *)
(* goes through the steppers and the event search of Integration, and      *)
(* through the event iteration of the FMU, before or after them.           *)
(***************************************************************************)
EXTENDS Integration

CONSTANTS
    MaxEventIterations     \* maxEventIterations_

ASSUME ModelExchangeAssumption == MaxEventIterations \in Nat \ {0}

VARIABLE call     \* the call under way: tend, what follows the event iteration
                  \* and, a history, what the FMU was like when it began

HandleRecord ==
    [version : {1, 2}, stopBeforeEvent_ : BOOLEAN, time_ : Int, tend_ : Int, tnextevent_ : Int,
     saved : {-1, 0, 1}, blind : BOOLEAN, timeEvent_ : BOOLEAN, stateEvent_ : BOOLEAN,
     upcomingEvent_ : BOOLEAN, eventFlag_ : BOOLEAN, enterEventMode_ : BOOLEAN]

(* What a caller can tell of the FMU: the time, the far side of an event   *)
(* it stopped before, and whether there was an event.                      *)
Outlook ==
    [time |-> me.time_, until |-> IF fmu.stateless THEN me.time_ ELSE me.tend_, upcoming |-> me.upcomingEvent_,
     event |-> \/ me.eventFlag_
               \/ fmu.stateless /\ (me.timeEvent_ \/ me.stateEvent_ \/ me.enterEventMode_)]

CallRecord ==
    [tend : Int, dt : StepSizes, iterations : 0 .. MaxEventIterations,
     before : [time : Int, until : Int, upcoming : BOOLEAN, event : BOOLEAN],
     then : {"start", "step", "event", "arrived", "rolled", "restored", "over"}]

SomeStep == CHOOSE dt \in StepSizes : TRUE

NoCall ==
    [tend |-> 0, dt |-> SomeStep, iterations |-> 0, then |-> "start",
     before |-> [time |-> 0, until |-> 0, upcoming |-> FALSE, event |-> FALSE]]

Return ==
    /\ pc' = "idle"
    /\ call' = NoCall
    /\ ig' = AtRest(ig.type, ig.info.stepEvent, SomeStep)

-----------------------------------------------------------------------------
(* handleEvents(): the event iteration. What follows it depends on where   *)
(* it was called.                                                          *)

EnterEventMode(f) ==
    [f EXCEPT !.mode = IF me.version = 2 THEN "event" ELSE @, !.more = TRUE]

HandleEvents(f, m, c, then) ==
    /\ fmu' = EnterEventMode(f)
    /\ me' = m
    /\ call' = [c EXCEPT !.then = then, !.iterations = 0]
    /\ pc' = "iterating"

(* FMI 2.0 gives up after a number of iterations, FMI 1.0 never does.      *)
GoesOnWhileNeeded == fmu.more     \* mutant
GoesOn == fmu.more /\ (me.version = 2 => call.iterations < MaxEventIterations)

Iterate ==
    /\ pc = "iterating" /\ GoesOn
    /\ fmu' \in NewDiscreteStates(fmu)
    /\ call' = [call EXCEPT !.iterations = IF me.version = 2 THEN @ + 1 ELSE @]
    /\ UNCHANGED <<me, ig, pc, crossings>>

Iterated == pc = "iterating" /\ ~GoesOn

Continuous == [fmu EXCEPT !.mode = "continuous"]

(* stepOverEvent(), once there is an event: one step of the explicit Euler *)
(* method to tend_, where the event is handled.                            *)
CompletedIntegratorStep(m, stepEvent) == [m EXCEPT !.enterEventMode_ = stepEvent]

StepOver(f, m, c, then, stepEvent) ==
    HandleEvents(PutAt(f, m.tend_, f.state + (m.tend_ - m.time_)),
                 CompletedIntegratorStep([m EXCEPT !.time_ = m.tend_], stepEvent), c, then)

SteppedOverAgain(f) == SaveEventIndicators(me, f)     \* mutant
SteppedOver(f) == SaveEventIndicators([me EXCEPT !.upcomingEvent_ = FALSE], f)

-----------------------------------------------------------------------------
(* integrate(), once an event it had stopped before is handled.            *)

HasEarlierTimeEvent(f, tend) == f.next < tend     \* mutant
HasTimeEvent(f, tend) == f.next # Infinity /\ f.next <= tend

IntegrateStates(f, m, tend, dt) ==
    LET timeEvent == HasTimeEvent(f, tend)
        n == [m EXCEPT !.timeEvent_ = timeEvent, !.tnextevent_ = f.next]
        to == IF timeEvent THEN f.next - Half ELSE tend
    IN  /\ fmu' = f
        /\ me' = SaveEventIndicators(n, f)
        /\ ig' = Begin(f, m.time_, to - m.time_, dt)
        /\ pc' = "stepping"

(* Without continuous states the FMU is put to tend, or to its time event. *)
Arrive(f, m, tend) ==
    LET timeEvent == HasTimeEvent(f, tend)
        to == IF timeEvent THEN f.next ELSE tend
        g == SetTime(f, to)
        stateEvent == CheckStateEvent(m, g)
    IN  /\ fmu' = g
        /\ me' = [m EXCEPT !.time_ = to, !.timeEvent_ = timeEvent, !.stateEvent_ = stateEvent,
                           !.eventFlag_ = @ \/ stateEvent]
        /\ ig' = ig
        /\ pc' = "arrived"

Start(f, m, tend, dt) ==
    IF f.stateless THEN Arrive(f, m, tend) ELSE IntegrateStates(f, m, tend, dt)

(* What integrate() does first.                                            *)
Integrate(f, m, c, stepEvent) ==
    LET n == IF f.stateless /\ m.stopBeforeEvent_ THEN CompletedIntegratorStep(m, stepEvent) ELSE m
        d == [c EXCEPT !.then = "start", !.before = Outlook]
    IN  IF m.stopBeforeEvent_ /\ m.upcomingEvent_
        THEN /\ IF f.stateless THEN HandleEvents(f, n, d, "start")
                ELSE StepOver(f, m, d, "start", stepEvent)
             /\ UNCHANGED ig
        ELSE Start(f, n, d.tend, d.dt) /\ call' = d

StartAfterEvent ==
    /\ Iterated /\ call.then = "start"
    /\ Start(Continuous, SteppedOver(Continuous), call.tend, call.dt)
    /\ UNCHANGED <<crossings, call>>

(* Without continuous states: events are handled at once or at the         *)
(* beginning of the next call.                                             *)
HandleArrival(stepEvent) ==
    LET m == IF me.stopBeforeEvent_ THEN me ELSE CompletedIntegratorStep(me, stepEvent)
        event == m.timeEvent_ \/ m.enterEventMode_ \/ m.stateEvent_
    IN  /\ pc = "arrived"
        /\ IF event /\ ~m.stopBeforeEvent_
           THEN HandleEvents(fmu, m, call, "arrived") /\ UNCHANGED ig
           ELSE /\ me' = [m EXCEPT !.upcomingEvent_ = @ \/ event]
                /\ Return
                /\ UNCHANGED fmu
        /\ UNCHANGED crossings

Arrived ==
    /\ Iterated /\ call.then = "arrived"
    /\ fmu' = Continuous
    /\ me' = SaveEventIndicators(me, Continuous)
    /\ Return
    /\ UNCHANGED crossings

(* What integrate() does with the events the Integrator found: a step      *)
(* event comes before a state event, that before a time event.             *)
EventFlagUntimed(m) == m.stateEvent_ \/ m.upcomingEvent_ \/ ig.info.stepEvent     \* mutant
EventFlag(m) ==
    m.timeEvent_ \/ m.stateEvent_ \/ m.upcomingEvent_ \/ ig.info.stepEvent

StopBefore(m) ==
    LET n == [m EXCEPT !.upcomingEvent_ = TRUE]
    IN  /\ me' = [n EXCEPT !.eventFlag_ = EventFlag(n)]
        /\ Return
        /\ UNCHANGED fmu

AfterIntegration(stepEvent) ==
    LET m == [me EXCEPT !.stateEvent_ = ig.info.stateEvent]
        horizon == [m EXCEPT !.time_ = ig.info.tLower, !.tend_ = ig.info.tUpper]
        scheduled == [m EXCEPT !.tend_ = m.tnextevent_]
        event == IF m.stateEvent_ THEN horizon ELSE scheduled
    IN  /\ pc = "integrated"
        /\ CASE ig.info.stepEvent -> HandleEvents(fmu, m, call, "step") /\ UNCHANGED ig
             [] ~ig.info.stepEvent /\ (m.stateEvent_ \/ m.timeEvent_) ->
                    IF m.stopBeforeEvent_ THEN StopBefore(event)
                    ELSE StepOver(fmu, event, call, "event", stepEvent) /\ UNCHANGED ig
             [] OTHER -> /\ me' = [m EXCEPT !.eventFlag_ = EventFlag(m)]
                         /\ Return
                         /\ UNCHANGED fmu
        /\ UNCHANGED crossings

FinishIntegration ==
    /\ Iterated /\ call.then \in {"step", "event"}
    /\ LET m == IF call.then = "event" THEN SteppedOver(Continuous) ELSE me
       IN  me' = [m EXCEPT !.eventFlag_ = EventFlag(m)]
    /\ fmu' = Continuous
    /\ Return
    /\ UNCHANGED crossings

=============================================================================
