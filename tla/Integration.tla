----------------------------- MODULE Integration -----------------------------
(***************************************************************************)
(* The integration of a model exchange FMU: what DynamicalSystem, the      *)
(* Integrator and its steppers do with it. Time is counted in ticks, and   *)
(* the continuous states are told by the time they were integrated to, so  *)
(* that a right FMU has fmu.state = fmu.time. The event indicators change  *)
(* their sign at the crossings and are zero exactly there.                 *)
(***************************************************************************)
EXTENDS Integers, FiniteSets

CONSTANTS
    Crossings,              \* sets of times at which a state event may lie
    TimeEvents,             \* times at which an FMU may want a time event
    StepSizes,              \* step sizes asked for or tried
    EventSearchPrecision,   \* eventSearchPrecision_
    Infinity                \* later than every time

ASSUME IntegrationAssumption ==
    /\ \A c \in Crossings : c \subseteq Nat
    /\ TimeEvents \subseteq Nat
    /\ StepSizes \subseteq Nat \ {0} /\ StepSizes # {}
    /\ EventSearchPrecision \in Nat /\ EventSearchPrecision >= 8
    /\ Infinity \in Nat

VARIABLES
    fmu,        \* the instance in the library, with its eventinfo_
    me,         \* members of the FMUModelExchange object
    ig,         \* members of its Integrator and of the stepper
    pc,         \* what the handle is at
    crossings   \* the crossings of this FMU

Half == EventSearchPrecision \div 2
Eighth == EventSearchPrecision \div 8

(* The steppers of createStepper(), but those of the SUNDIALS suite, which *)
(* is not built by default.                                                *)
ConstantSteppers == {"eu", "rk", "abm"}
ControlledSteppers == {"ck", "fe"}
DenseSteppers == {"dp", "bs", "ro"}

-----------------------------------------------------------------------------
(* The instance. acted is the sign of the indicators it last acted on,     *)
(* more tells that it needs another event iteration.                       *)

FmuRecord ==
    [stateless : BOOLEAN, time : Int, state : Int, acted : {-1, 1}, next : Nat,
     mode : {"event", "continuous"}, more : BOOLEAN]

Sign(t) ==
    LET passed == Cardinality({c \in crossings : c < t})
    IN  IF t \in crossings THEN 0 ELSE IF passed % 2 = 0 THEN 1 ELSE -1

Indicators(f) == Sign(f.state)

(* An FMU without continuous states is right at every time.                *)
SetTime(f, t) == [f EXCEPT !.time = t, !.state = IF f.stateless THEN t ELSE @]

PutAt(f, t, state) == [f EXCEPT !.time = t, !.state = state]

(* newDiscreteStates() or eventUpdate(): the FMU acts on the sign of its   *)
(* indicators and says when it wants its next time event.                  *)
Acting(f, more, next) ==
    [f EXCEPT !.more = more, !.next = next,
              !.acted = IF Indicators(f) = 0 THEN @ ELSE Indicators(f)]

NewDiscreteStates(f) ==
    {Acting(f, more, next) :
     more \in BOOLEAN,
     next \in {t \in TimeEvents : t > f.time} \cup {Infinity}}

-----------------------------------------------------------------------------
(* DynamicalSystem. blind is a history: an indicator of zero was saved,    *)
(* so that no later sign differs from it.                                  *)

SaveEventIndicators(m, f) ==
    [m EXCEPT !.saved = Indicators(f), !.blind = @ \/ Indicators(f) = 0]

CheckFallingEvent(m, f) == m.saved > 0 /\ Indicators(f) < 0     \* mutant
CheckStateEvent(m, f) == Indicators(f) * m.saved < 0

-----------------------------------------------------------------------------
(* The Integrator: the record of events it keeps from call to call, its    *)
(* copy of the states and where the stepper is.                            *)

EventInfo == [stepEvent : BOOLEAN, stateEvent : BOOLEAN, tLower : Int, tUpper : Int]

IntegratorRecord ==
    [type : ConstantSteppers \cup ControlledSteppers \cup DenseSteppers,
     info : EventInfo,
     states_ : Int, time_ : Int, end : Int, dt : StepSizes,
     previous : Int, current : Int, offset : Int]

(* Between integrations all that matters of it is what it says of step     *)
(* events: the rest is written before it is read.                          *)
AtRest(type, stepEvent, dt) ==
    [type |-> type, states_ |-> 0, time_ |-> 0, end |-> 0, dt |-> dt,
     previous |-> 0, current |-> 0, offset |-> 0,
     info |-> [stepEvent |-> stepEvent, stateEvent |-> FALSE, tLower |-> 0, tUpper |-> 0]]

IsDense == ig.type \in DenseSteppers

(* integrate(): time and states are taken from the FMU; the stepper begins *)
(* with them, and with the step size the caller recommends.                *)
Begin(f, time, step_size, dt) ==
    [ig EXCEPT !.time_ = time, !.states_ = f.state, !.end = time + step_size, !.dt = dt,
               !.previous = time, !.current = time, !.offset = f.state - time]

(* The integration can tell that a call found a state event at the end of  *)
(* the interval (previous, current); Rosenbrock keeps what the record said *)
(* of step events.                                                         *)
StateEventIn(lower, upper) ==
    [stepEvent |-> ig.type = "ro" /\ ig.info.stepEvent, stateEvent |-> TRUE,
     tLower |-> lower, tUpper |-> upper]

NoStateEvent(stepEvent) == [ig.info EXCEPT !.stepEvent = stepEvent, !.stateEvent = FALSE]

(* The steps a non-adaptive stepper makes, and the ones an adaptive one    *)
(* may make and go on with.                                                *)
ConstantStep(dt) == {dt}
ControlledStep(dt) == {h \in StepSizes : h <= dt}

StepsOf(dt) == IF ig.type \in ConstantSteppers THEN ConstantStep(dt) ELSE ControlledStep(dt)
NextDt == IF ig.type \in ConstantSteppers THEN {ig.dt} ELSE StepSizes

(* One round of the loop in OdeintStepper::invokeMethod(). The last step   *)
(* is cut to the end of the interval.                                      *)
OdeintDone ==
    /\ pc = "stepping" /\ ~IsDense /\ ig.current >= ig.end
    /\ ig' = [ig EXCEPT !.info = NoStateEvent(FALSE)]
    /\ pc' = "integrated"
    /\ UNCHANGED <<fmu, me, crossings>>

OdeintStep(h, dt, stepEvent) ==
    LET t == ig.current + h
        f == PutAt(fmu, t, ig.states_ + h)
    IN  /\ pc = "stepping" /\ ~IsDense /\ ig.current < ig.end
        /\ IF ig.current + ig.dt >= ig.end THEN h = ig.end - ig.current ELSE h \in StepsOf(ig.dt)
        /\ dt \in NextDt
        /\ IF CheckStateEvent(me, f)
           THEN /\ ig' = [ig EXCEPT !.info = StateEventIn(ig.current, t)]
                /\ fmu' = PutAt(fmu, ig.current, ig.states_)
                /\ me' = [me EXCEPT !.time_ = ig.current, !.eventFlag_ = TRUE]
                /\ pc' = "searching"
                /\ ~stepEvent
           ELSE /\ ig' = [ig EXCEPT !.current = t, !.states_ = f.state, !.dt = dt,
                                    !.info = NoStateEvent(stepEvent)]
                /\ fmu' = f
                /\ me' = [me EXCEPT !.time_ = t, !.enterEventMode_ = stepEvent]
                /\ pc' = IF stepEvent \/ t >= ig.end THEN "integrated" ELSE pc
        /\ UNCHANGED crossings

(* DormandPrince, BulirschStoer and Rosenbrock step over the end of the    *)
(* interval and interpolate back. A step event at the end is added to what *)
(* the record says: nothing resets it.                                     *)
StateAt(t) == ig.offset + t

EndRecord(stepEvent) == NoStateEvent(ig.info.stepEvent \/ stepEvent)

DenseStep(h, stepEvent) ==
    LET t == ig.current + h
        f == PutAt(fmu, t, StateAt(t))
    IN  /\ pc = "stepping" /\ IsDense /\ h \in StepSizes
        /\ IF CheckStateEvent(me, f)
           THEN /\ ig' = [ig EXCEPT !.info = StateEventIn(ig.current, t),
                                    !.previous = ig.current, !.current = t]
                /\ fmu' = PutAt(fmu, ig.current, StateAt(ig.current))
                /\ me' = [me EXCEPT !.time_ = ig.current, !.eventFlag_ = TRUE]
                /\ pc' = "searching"
                /\ ~stepEvent
           ELSE IF t >= ig.end
           THEN /\ ig' = [ig EXCEPT !.info = EndRecord(stepEvent), !.states_ = StateAt(ig.end),
                                    !.previous = ig.current, !.current = t]
                /\ fmu' = PutAt(fmu, ig.end, StateAt(ig.end))
                /\ me' = [me EXCEPT !.time_ = ig.end, !.enterEventMode_ = stepEvent]
                /\ pc' = "integrated"
           ELSE /\ ig' = [ig EXCEPT !.previous = ig.current, !.current = t,
                                    !.info = IF stepEvent THEN NoStateEvent(TRUE) ELSE @]
                /\ fmu' = f
                /\ me' = [me EXCEPT !.time_ = t, !.enterEventMode_ = stepEvent]
                /\ pc' = IF stepEvent THEN "integrated" ELSE pc
        /\ UNCHANGED crossings

-----------------------------------------------------------------------------
(* Integrator::integrate(): the search for a state event.                  *)

(* do_step_const() to time t: an odeint stepper goes on from the copy of   *)
(* the states, a dense one interpolates.                                   *)
DoStepConst(from, t) == IF IsDense THEN StateAt(t) ELSE ig.states_ + (t - from)

(* A step over the end is cut to it; the event may then lie beyond.        *)
Overshot == ig.info.tUpper > ig.end

Clip ==
    LET state == DoStepConst(fmu.time, ig.end)
        f == PutAt(fmu, ig.end, state)
        event == CheckStateEvent(me, f)
    IN  /\ pc = "searching" /\ Overshot
        /\ fmu' = f
        /\ me' = [me EXCEPT !.time_ = ig.end, !.eventFlag_ = @ \/ event]
        /\ ig' = IF event THEN [ig EXCEPT !.states_ = state, !.info.tUpper = ig.end]
                 ELSE [ig EXCEPT !.states_ = state, !.info.stateEvent = FALSE]
        /\ pc' = IF event THEN pc ELSE "integrated"
        /\ UNCHANGED crossings

TooWideForPrecision == ig.info.tUpper - ig.info.tLower > EventSearchPrecision     \* mutant
TooWideEver == ig.info.tUpper > ig.info.tLower                                    \* mutant
TooWide == ig.info.tUpper - ig.info.tLower > Half

(* One halving of the interval. When the event lies in the left half, FMU  *)
(* and states are put back to what they were before.                       *)
BisectKeepsStates ==     \* mutant
    LET lower == ig.info.tLower
        t == lower + (ig.info.tUpper - lower) \div 2
        state == DoStepConst(lower, t)
        f == PutAt(fmu, t, state)
    IN  /\ pc = "searching" /\ ~Overshot /\ TooWide
        /\ IF CheckStateEvent(me, f)
           THEN /\ fmu' = SetTime(f, lower)
                /\ me' = [me EXCEPT !.time_ = lower, !.eventFlag_ = TRUE]
                /\ ig' = [ig EXCEPT !.info.tUpper = t]
           ELSE /\ fmu' = f
                /\ me' = [me EXCEPT !.time_ = t]
                /\ ig' = [ig EXCEPT !.info.tLower = t, !.states_ = state]
        /\ UNCHANGED <<pc, crossings>>

Bisect ==
    LET lower == ig.info.tLower
        t == lower + (ig.info.tUpper - lower) \div 2
        state == DoStepConst(lower, t)
        f == PutAt(fmu, t, state)
    IN  /\ pc = "searching" /\ ~Overshot /\ TooWide
        /\ IF CheckStateEvent(me, f)
           THEN /\ fmu' = PutAt(fmu, lower, ig.states_)
                /\ me' = [me EXCEPT !.time_ = lower, !.eventFlag_ = TRUE]
                /\ ig' = [ig EXCEPT !.info.tUpper = t]
           ELSE /\ fmu' = f
                /\ me' = [me EXCEPT !.time_ = t]
                /\ ig' = [ig EXCEPT !.info.tLower = t, !.states_ = state]
        /\ UNCHANGED <<pc, crossings>>

(* The event is to lie strictly inside the interval.                       *)
Located ==
    /\ pc = "searching" /\ ~Overshot /\ ~TooWide
    /\ pc' = "integrated"
    /\ ig' = [ig EXCEPT !.info.tUpper = @ + Eighth, !.time_ = ig.info.tLower]
    /\ UNCHANGED <<fmu, me, crossings>>

=============================================================================
