------------------------- MODULE RollbackFmuProofs --------------------------
(***************************************************************************)
(* Proofs about RollbackFmu, for any crossings and time events, any step   *)
(* sizes and search precision, and any calls of a program: between calls   *)
(* time and states are one, no change of sign and no time event is lost,   *)
(* and an event the object stopped before lies in its horizon.             *)
(***************************************************************************)
EXTENDS RollbackFmu, TLAPS

-----------------------------------------------------------------------------
(* Facts about the operators on the records.                               *)

LEMMA PrecisionParts ==
    /\ EventSearchPrecision \in Nat
    /\ Half \in Nat /\ Half >= 4
    /\ Eighth \in Nat /\ Eighth >= 1
  BY IntegrationAssumption DEF Half, Eighth

LEMMA SignType ==
    ASSUME NEW t
    PROVE  Sign(t) \in {-1, 0, 1}
  BY DEF Sign

LEMMA SetTimeEffect ==
    ASSUME NEW f \in FmuRecord, NEW t \in Int
    PROVE  /\ SetTime(f, t) \in FmuRecord
           /\ SetTime(f, t).time = t
           /\ SetTime(f, t).state = IF f.stateless THEN t ELSE f.state
           /\ SetTime(f, t).stateless = f.stateless
           /\ SetTime(f, t).acted = f.acted
           /\ SetTime(f, t).next = f.next
  BY DEF SetTime, FmuRecord

LEMMA PutAtEffect ==
    ASSUME NEW f \in FmuRecord, NEW t \in Int, NEW s \in Int
    PROVE  /\ PutAt(f, t, s) \in FmuRecord
           /\ PutAt(f, t, s).time = t
           /\ PutAt(f, t, s).state = s
           /\ PutAt(f, t, s).stateless = f.stateless
           /\ PutAt(f, t, s).acted = f.acted
           /\ PutAt(f, t, s).next = f.next
  BY DEF PutAt, FmuRecord

(* The FMU acts on the sign of its indicators, and wants no time event     *)
(* that is not later.                                                      *)
LEMMA NewDiscreteStatesEffect ==
    ASSUME NEW f \in FmuRecord, NEW g \in NewDiscreteStates(f)
    PROVE  /\ g \in FmuRecord
           /\ g.time = f.time
           /\ g.state = f.state
           /\ g.stateless = f.stateless
           /\ g.acted = IF Indicators(f) = 0 THEN f.acted ELSE Indicators(f)
           /\ f.time < g.next \/ g.next = Infinity
  <1>1. PICK more \in BOOLEAN, next \in {t \in TimeEvents : t > f.time} \cup {Infinity} :
           g = Acting(f, more, next)
    BY DEF NewDiscreteStates
  <1>2. next \in Nat /\ (f.time < next \/ next = Infinity)
    BY IntegrationAssumption DEF FmuRecord
  <1>3. PICK acted : acted = IF Indicators(f) = 0 THEN f.acted ELSE Indicators(f)
    OBVIOUS
  <1>4. acted \in {-1, 1}
    BY <1>3, SignType DEF Indicators, FmuRecord
  <1>5. g = [f EXCEPT !.more = more, !.next = next, !.acted = acted]
    BY <1>1, <1>3 DEF Acting
  <1>6. g \in FmuRecord /\ g.next = next /\ g.acted = acted
        /\ g.time = f.time /\ g.state = f.state
    BY <1>2, <1>4, <1>5 DEF FmuRecord
  <1>7. g.stateless = f.stateless
    BY <1>5 DEF FmuRecord
  <1> QED BY <1>2, <1>3, <1>6, <1>7

LEMMA ContinuousEffect ==
    ASSUME fmu \in FmuRecord
    PROVE  /\ Continuous \in FmuRecord
           /\ Continuous.time = fmu.time
           /\ Continuous.state = fmu.state
           /\ Continuous.stateless = fmu.stateless
           /\ Continuous.acted = fmu.acted
           /\ Continuous.next = fmu.next
  BY DEF Continuous, FmuRecord

LEMMA EnterEventModeEffect ==
    ASSUME NEW f \in FmuRecord
    PROVE  /\ EnterEventMode(f) \in FmuRecord
           /\ EnterEventMode(f).time = f.time
           /\ EnterEventMode(f).state = f.state
           /\ EnterEventMode(f).stateless = f.stateless
           /\ EnterEventMode(f).acted = f.acted
           /\ EnterEventMode(f).next = f.next
           /\ EnterEventMode(f).more
  BY DEF EnterEventMode, FmuRecord

(* What does not change of the members of the object.                      *)
SameHandle(m, n) ==
    /\ m.version = n.version /\ m.stopBeforeEvent_ = n.stopBeforeEvent_
    /\ m.time_ = n.time_ /\ m.tend_ = n.tend_ /\ m.tnextevent_ = n.tnextevent_
    /\ m.timeEvent_ = n.timeEvent_ /\ m.stateEvent_ = n.stateEvent_

LEMMA SaveEffect ==
    ASSUME NEW m \in HandleRecord, NEW f \in FmuRecord
    PROVE  /\ SaveEventIndicators(m, f) \in HandleRecord
           /\ SaveEventIndicators(m, f).saved = Indicators(f)
           /\ SaveEventIndicators(m, f).blind = (m.blind \/ Indicators(f) = 0)
           /\ SaveEventIndicators(m, f).upcomingEvent_ = m.upcomingEvent_
           /\ SameHandle(SaveEventIndicators(m, f), m)
  BY SignType DEF SaveEventIndicators, Indicators, HandleRecord, SameHandle

LEMMA SteppedOverEffect ==
    ASSUME me \in HandleRecord, NEW f \in FmuRecord
    PROVE  /\ SteppedOver(f) \in HandleRecord
           /\ SteppedOver(f).saved = Indicators(f)
           /\ SteppedOver(f).blind = (me.blind \/ Indicators(f) = 0)
           /\ ~SteppedOver(f).upcomingEvent_
           /\ SameHandle(SteppedOver(f), me)
  BY SignType DEF SteppedOver, SaveEventIndicators, Indicators, HandleRecord, SameHandle

LEMMA CompletedEffect ==
    ASSUME NEW m \in HandleRecord, NEW b \in BOOLEAN
    PROVE  /\ CompletedIntegratorStep(m, b) \in HandleRecord
           /\ CompletedIntegratorStep(m, b).saved = m.saved
           /\ CompletedIntegratorStep(m, b).blind = m.blind
           /\ CompletedIntegratorStep(m, b).upcomingEvent_ = m.upcomingEvent_
           /\ SameHandle(CompletedIntegratorStep(m, b), m)
  BY DEF CompletedIntegratorStep, HandleRecord, SameHandle

(* At an event the signs before and after it are opposite, and there is a  *)
(* crossing between them.                                                  *)
LEMMA EventIsOpposite ==
    ASSUME NEW m \in HandleRecord, NEW f \in FmuRecord
    PROVE  CheckStateEvent(m, f) <=>
               Indicators(f) # 0 /\ m.saved # 0 /\ Indicators(f) # m.saved
  <1>1. Indicators(f) \in {-1, 0, 1} /\ m.saved \in {-1, 0, 1}
    BY SignType DEF Indicators, HandleRecord
  <1> QED BY <1>1 DEF CheckStateEvent

LEMMA CrossingBetween ==
    ASSUME crossings \in SUBSET Int, NEW s \in Int, NEW t \in Int, s < t,
           Sign(s) # Sign(t), Sign(t) # 0
    PROVE  \E c \in crossings : s <= c /\ c < t
  <1> SUFFICES ASSUME \A c \in crossings : ~(s <= c /\ c < t) PROVE FALSE
    OBVIOUS
  <1>1. s \notin crossings
    OBVIOUS
  <1>2. t \notin crossings
    BY DEF Sign
  <1>3. \A c \in crossings : c < s <=> c < t
    OBVIOUS
  <1>4. {c \in crossings : c < s} = {c \in crossings : c < t}
    BY <1>3
  <1> QED BY <1>1, <1>2, <1>4 DEF Sign

-----------------------------------------------------------------------------
(* The inductive invariant.                                                *)

Integrating == pc \in {"stepping", "searching", "integrated"}
IteratingFor(then) == pc = "iterating" /\ call.then \in then

(* Which handles are where: only one with continuous states integrates,    *)
(* only one that stops before events ever stands before one.               *)
PlacesInv ==
    /\ Integrating \/ IteratingFor({"step", "event", "over"}) => ~fmu.stateless
    /\ pc = "arrived" \/ IteratingFor({"arrived"}) => fmu.stateless
    /\ me.upcomingEvent_ => me.stopBeforeEvent_
    /\ pc \in {"new", "arrived"} \/ Integrating \/ IteratingFor({"step", "event", "arrived"}) =>
           ~me.upcomingEvent_
    /\ fmu.stateless /\ IteratingFor({"rolled", "restored"}) => rb.abandoned

(* No time is as late as Infinity; the FMU and the object are at one time  *)
(* but where a call ends, from where a dense stepper may also go on.       *)
ClockInv ==
    /\ me.time_ < Infinity /\ me.tend_ < Infinity /\ rb.time_ < Infinity
    /\ call.tend + Eighth < Infinity
    /\ fmu.time = me.time_ \/ (IsDense /\ ~fmu.stateless /\ pc \in {"idle", "stepping"})

(* The FMU never wants an event before the time of the object, and it has  *)
(* told so once an event iteration has begun.                              *)
WantsLater == me.time_ <= fmu.next

EventInv ==
    /\ pc = "iterating" => (fmu.more /\ call.iterations = 0) \/ fmu.time < fmu.next
    /\ pc \in {"idle", "arrived"} => WantsLater

(* integrate() goes on from here. An integration of the states is to end   *)
(* at tend, or just before the time event that comes first.                *)
Origin == IF call.before.upcoming THEN call.before.until ELSE call.before.time
Least(s, t) == IF s < t THEN s ELSE t
Greatest(s, t) == IF s > t THEN s ELSE t
WithinReach(t) == Least(Origin, call.tend) - Half <= t /\ t <= Greatest(Origin, call.tend)
Reached == \/ me.time_ = Greatest(Origin, call.tend)
           \/ call.tend < Origin /\ me.time_ = call.tend

EndInv ==
    Integrating =>
        /\ Origin <= fmu.next /\ Origin < Infinity
        /\ me.tnextevent_ = fmu.next
        /\ IF me.timeEvent_ THEN ig.end = fmu.next - Half /\ fmu.next <= call.tend
           ELSE ig.end = call.tend /\ call.tend < fmu.next

SpanInv ==
    /\ pc = "searching" => ig.info.stateEvent
    /\ pc = "searching" \/ (pc = "integrated" /\ ig.info.stateEvent) =>
           /\ Origin <= ig.info.tLower /\ ig.info.tLower <= Greatest(Origin, ig.end)
           /\ Least(ig.info.tLower, call.tend) - Half <= ig.info.tUpper
    /\ pc = "integrated" /\ ig.info.stateEvent =>
           /\ ig.info.tUpper - ig.info.tLower <= Half + Eighth
           /\ ig.info.tUpper <= ig.end + Eighth

ProgressInv ==
    /\ IteratingFor({"start"}) => me.time_ = Origin
    /\ pc = "stepping" =>
           ig.current = me.time_ /\ Origin <= me.time_ /\ me.time_ <= Greatest(Origin, ig.end)
    /\ pc \in {"searching", "integrated", "arrived"} \/ IteratingFor({"step", "arrived"}) =>
           WithinReach(me.time_)
    /\ IteratingFor({"event"}) =>
           /\ Least(Origin, call.tend) - Half <= me.time_
           /\ me.time_ <= Greatest(Origin, call.tend) + Eighth
    /\ pc = "integrated" =>
           \/ ig.info.stepEvent \/ ig.info.stateEvent
           \/ ig.end <= me.time_ /\ me.time_ <= fmu.next /\ (me.timeEvent_ \/ Reached)
    /\ pc = "arrived" => me.timeEvent_ \/ Reached
    /\ IteratingFor({"step"}) => ig.info.stepEvent
    /\ IteratingFor({"event"}) => me.stateEvent_ \/ me.timeEvent_
    /\ IteratingFor({"arrived"}) => me.timeEvent_ \/ me.enterEventMode_ \/ me.stateEvent_

ContractInv == EndInv /\ SpanInv /\ ProgressInv

AnyStepperInv == PlacesInv /\ ClockInv /\ EventInv /\ ContractInv

-----------------------------------------------------------------------------
(* What also holds of the steppers that are not dense. One time for the    *)
(* states, too, but while a rollback handles the events it leaves.         *)
StatesInv ==
    /\ fmu.state = fmu.time \/ (~fmu.stateless /\ IteratingFor({"rolled"}))
    /\ rb.state_ = rb.time_
    /\ IteratingFor({"rolled"}) => fmu.time = rb.time_
    /\ pc = "stepping" => ig.states_ = fmu.time
    /\ pc = "searching" => ig.info.tLower = fmu.time /\ ig.states_ = fmu.time
    /\ pc = "integrated" /\ ig.info.stateEvent => ig.info.tLower = fmu.time

(* The search keeps an event between its limits: the sign is the one saved *)
(* at the lower limit, or zero, and the opposite one at the upper limit.   *)
SearchInv ==
    /\ pc \in {"stepping", "searching"} => ~CheckStateEvent(me, fmu)
    /\ pc = "searching" =>
           /\ ig.info.tLower < ig.info.tUpper /\ ig.info.tUpper <= ig.end
           /\ Sign(ig.info.tUpper) # 0 /\ me.saved # 0 /\ Sign(ig.info.tUpper) # me.saved
    /\ pc = "integrated" /\ ig.info.stateEvent =>
           \E c \in crossings : ig.info.tLower <= c /\ c < ig.info.tUpper

HorizonInv ==
    pc = "idle" /\ me.upcomingEvent_ /\ me.stateEvent_ /\ ~fmu.stateless =>
        /\ \E c \in crossings : me.time_ <= c /\ c < me.tend_
        /\ me.tend_ - me.time_ <= Half + Eighth

(* The FMU has acted on the sign its indicators have; what is saved is the *)
(* sign it acted on.                                                       *)
Told == Indicators(fmu) \in {0, fmu.acted}
SavedActed == me.saved = fmu.acted

ToldInv ==
    /\ pc = "iterating" => (fmu.more /\ call.iterations = 0) \/ Told
    /\ ~me.blind /\ ~rb.abandoned =>
           /\ pc = "idle" /\ ~me.upcomingEvent_ => Told /\ (fmu.stateless => SavedActed)
           /\ Integrating => Told /\ SavedActed
           /\ pc = "arrived" => SavedActed /\ (me.stateEvent_ \/ Told)

(* The FMU wants its next time event later, or it is handled next.         *)
Wanted == fmu.time < fmu.next
Due == fmu.time = fmu.next /\ me.timeEvent_

ScheduleInv ==
    ~rb.abandoned =>
        /\ pc = "idle" => Wanted \/ (fmu.stateless /\ Due /\ me.upcomingEvent_)
        /\ Integrating => Wanted
        /\ pc = "arrived" => Wanted \/ Due

OdeintInv == StatesInv /\ SearchInv /\ HorizonInv /\ ToldInv /\ ScheduleInv

RollbackInv == TypeOK /\ AnyStepperInv /\ (IsOdeint => OdeintInv)

-----------------------------------------------------------------------------
(* What the operators that several actions share leave behind.             *)

Handles == {"start", "step", "event", "arrived", "rolled", "restored", "over"}

LEMMA HandleEventsEffect ==
    ASSUME NEW f \in FmuRecord, NEW m \in HandleRecord, NEW c \in CallRecord,
           NEW then \in Handles, HandleEvents(f, m, c, then)
    PROVE  /\ fmu' \in FmuRecord /\ fmu'.more
           /\ fmu'.time = f.time /\ fmu'.state = f.state /\ fmu'.stateless = f.stateless
           /\ me' = m
           /\ call' \in CallRecord /\ call'.iterations = 0 /\ call'.then = then
           /\ call'.tend = c.tend /\ call'.before = c.before
           /\ pc' = "iterating"
  <1>1. fmu' = EnterEventMode(f) /\ me' = m /\ pc' = "iterating"
        /\ call' = [c EXCEPT !.then = then, !.iterations = 0]
    BY DEF HandleEvents
  <1>2. call' \in CallRecord /\ call'.iterations = 0 /\ call'.then = then
        /\ call'.tend = c.tend /\ call'.before = c.before
    <2>1. 0 \in 0 .. MaxEventIterations
      BY ModelExchangeAssumption
    <2>2. call' \in CallRecord
      BY <1>1, <2>1 DEF CallRecord, Handles
    <2>3. call'.iterations = 0 /\ call'.then = then
          /\ call'.tend = c.tend /\ call'.before = c.before
      BY <1>1 DEF CallRecord
    <2> QED BY <2>2, <2>3
  <1> QED BY <1>1, <1>2, EnterEventModeEffect

LEMMA StepOverEffect ==
    ASSUME NEW f \in FmuRecord, NEW m \in HandleRecord, NEW c \in CallRecord,
           NEW then \in Handles, NEW stepEvent \in BOOLEAN,
           StepOver(f, m, c, then, stepEvent)
    PROVE  /\ fmu' \in FmuRecord /\ fmu'.more
           /\ fmu'.time = m.tend_ /\ fmu'.state = f.state + (m.tend_ - m.time_)
           /\ fmu'.stateless = f.stateless
           /\ me' \in HandleRecord /\ me'.time_ = m.tend_ /\ me'.tend_ = m.tend_
           /\ me'.stopBeforeEvent_ = m.stopBeforeEvent_
           /\ me'.upcomingEvent_ = m.upcomingEvent_
           /\ me'.saved = m.saved /\ me'.blind = m.blind
           /\ me'.timeEvent_ = m.timeEvent_ /\ me'.stateEvent_ = m.stateEvent_
           /\ call' \in CallRecord /\ call'.iterations = 0 /\ call'.then = then
           /\ call'.tend = c.tend /\ call'.before = c.before
           /\ pc' = "iterating"
  <1> DEFINE n == [m EXCEPT !.time_ = m.tend_]
             s == f.state + (m.tend_ - m.time_)
  <1>1. n \in HandleRecord /\ n.time_ = m.tend_ /\ n.tend_ = m.tend_
        /\ n.stopBeforeEvent_ = m.stopBeforeEvent_ /\ n.upcomingEvent_ = m.upcomingEvent_
        /\ n.saved = m.saved /\ n.blind = m.blind
        /\ n.timeEvent_ = m.timeEvent_ /\ n.stateEvent_ = m.stateEvent_
    BY DEF HandleRecord
  <1>2. s \in Int /\ m.tend_ \in Int
    BY DEF FmuRecord, HandleRecord
  <1> HIDE DEF n, s
  <1>3. HandleEvents(PutAt(f, m.tend_, s), CompletedIntegratorStep(n, stepEvent), c, then)
    BY DEF StepOver, n, s
  <1>4. /\ CompletedIntegratorStep(n, stepEvent) \in HandleRecord
        /\ CompletedIntegratorStep(n, stepEvent).saved = n.saved
        /\ CompletedIntegratorStep(n, stepEvent).blind = n.blind
        /\ CompletedIntegratorStep(n, stepEvent).upcomingEvent_ = n.upcomingEvent_
        /\ SameHandle(CompletedIntegratorStep(n, stepEvent), n)
    BY <1>1, CompletedEffect
  <1>5. /\ PutAt(f, m.tend_, s) \in FmuRecord
        /\ PutAt(f, m.tend_, s).time = m.tend_
        /\ PutAt(f, m.tend_, s).state = s
        /\ PutAt(f, m.tend_, s).stateless = f.stateless
    BY <1>2, PutAtEffect
  <1>6. s = f.state + (m.tend_ - m.time_)
    BY DEF s
  <1>7. /\ fmu' \in FmuRecord /\ fmu'.more
        /\ fmu'.time = PutAt(f, m.tend_, s).time
        /\ fmu'.state = PutAt(f, m.tend_, s).state
        /\ fmu'.stateless = PutAt(f, m.tend_, s).stateless
        /\ me' = CompletedIntegratorStep(n, stepEvent)
        /\ call' \in CallRecord /\ call'.iterations = 0 /\ call'.then = then
        /\ call'.tend = c.tend /\ call'.before = c.before
        /\ pc' = "iterating"
    BY <1>3, <1>4, <1>5, HandleEventsEffect
  <1> QED BY <1>1, <1>4, <1>5, <1>6, <1>7 DEF SameHandle

LEMMA SomeStepType == SomeStep \in StepSizes
  BY IntegrationAssumption DEF SomeStep

LEMMA ReturnEffect ==
    ASSUME ig \in IntegratorRecord, Return
    PROVE  /\ pc' = "idle"
           /\ call' \in CallRecord /\ call'.tend = 0
           /\ ig' \in IntegratorRecord /\ ig'.type = ig.type
  <1>1. call' \in CallRecord /\ call'.tend = 0
    BY SomeStepType, ModelExchangeAssumption DEF Return, NoCall, CallRecord
  <1>2. ig' = AtRest(ig.type, ig.info.stepEvent, SomeStep)
    BY DEF Return
  <1>3. ig.type \in ConstantSteppers \cup ControlledSteppers \cup DenseSteppers
        /\ ig.info \in EventInfo
    BY DEF IntegratorRecord
  <1>4. ig.info.stepEvent \in BOOLEAN
    BY <1>3 DEF EventInfo
  <1>6. ig' \in IntegratorRecord /\ ig'.type = ig.type
    <2> DEFINE info == [stepEvent |-> ig.info.stepEvent, stateEvent |-> FALSE,
                        tLower |-> 0, tUpper |-> 0]
    <2>1. info \in EventInfo
      BY <1>4 DEF EventInfo
    <2>2. ig' = [type |-> ig.type, states_ |-> 0, time_ |-> 0, end |-> 0, dt |-> SomeStep,
                 previous |-> 0, current |-> 0, offset |-> 0, info |-> info]
      BY <1>2 DEF AtRest
    <2> HIDE DEF info
    <2> QED BY <1>3, <2>1, <2>2, SomeStepType DEF IntegratorRecord
  <1> QED BY <1>1, <1>6 DEF Return

LEMMA BeginEffect ==
    ASSUME ig \in IntegratorRecord, NEW f \in FmuRecord,
           NEW time \in Int, NEW step_size \in Int, NEW dt \in StepSizes
    PROVE  /\ Begin(f, time, step_size, dt) \in IntegratorRecord
           /\ Begin(f, time, step_size, dt).type = ig.type
           /\ Begin(f, time, step_size, dt).end = time + step_size
           /\ Begin(f, time, step_size, dt).current = time
           /\ Begin(f, time, step_size, dt).previous = time
           /\ Begin(f, time, step_size, dt).states_ = f.state
           /\ Begin(f, time, step_size, dt).info = ig.info
  <1> DEFINE b == Begin(f, time, step_size, dt)
  <1>1. f.state \in Int
    BY DEF FmuRecord
  <1>2. b \in IntegratorRecord
    <2>1. time + step_size \in Int /\ f.state - time \in Int
      BY <1>1
    <2> QED BY <1>1, <2>1 DEF Begin, IntegratorRecord
  <1>3. b.type = ig.type /\ b.end = time + step_size /\ b.current = time
    BY DEF Begin, IntegratorRecord
  <1>4. b.previous = time /\ b.states_ = f.state /\ b.info = ig.info
    BY DEF Begin, IntegratorRecord
  <1> QED BY <1>2, <1>3, <1>4

(* Where an integration of the states begins.                              *)
LEMMA IntegrateStatesEffect ==
    ASSUME ig \in IntegratorRecord, NEW f \in FmuRecord, NEW m \in HandleRecord,
           NEW tend \in Int, NEW dt \in StepSizes, IntegrateStates(f, m, tend, dt)
    PROVE  /\ fmu' = f
           /\ me' \in HandleRecord /\ me'.time_ = m.time_ /\ me'.tend_ = m.tend_
           /\ me'.stopBeforeEvent_ = m.stopBeforeEvent_
           /\ me'.upcomingEvent_ = m.upcomingEvent_
           /\ me'.timeEvent_ = HasTimeEvent(f, tend) /\ me'.tnextevent_ = f.next
           /\ me'.saved = Indicators(f)
           /\ me'.blind = (m.blind \/ Indicators(f) = 0)
           /\ ig' \in IntegratorRecord /\ ig'.type = ig.type
           /\ ig'.current = m.time_ /\ ig'.previous = m.time_ /\ ig'.states_ = f.state
           /\ ig'.end = IF HasTimeEvent(f, tend) THEN f.next - Half ELSE tend
           /\ pc' = "stepping"
  <1> DEFINE event == HasTimeEvent(f, tend)
             n == [m EXCEPT !.timeEvent_ = event, !.tnextevent_ = f.next]
             to == IF event THEN f.next - Half ELSE tend
  <1>1. event \in BOOLEAN /\ f.next \in Nat /\ to \in Int /\ m.time_ \in Int
    BY PrecisionParts DEF HasTimeEvent, FmuRecord, HandleRecord
  <1>3. fmu' = f /\ me' = SaveEventIndicators(n, f)
        /\ ig' = Begin(f, m.time_, to - m.time_, dt) /\ pc' = "stepping"
    BY DEF IntegrateStates
  <1>4. event = HasTimeEvent(f, tend)
    OBVIOUS
  <1>5. to = IF event THEN f.next - Half ELSE tend
    OBVIOUS
  <1> HIDE DEF event, to
  <1>2. n \in HandleRecord /\ n.time_ = m.time_ /\ n.tend_ = m.tend_
        /\ n.stopBeforeEvent_ = m.stopBeforeEvent_ /\ n.upcomingEvent_ = m.upcomingEvent_
        /\ n.timeEvent_ = event /\ n.tnextevent_ = f.next /\ n.blind = m.blind
    <2>1. f.next \in Int
      BY <1>1
    <2>2. n \in HandleRecord
      BY <1>1, <2>1 DEF HandleRecord
    <2>3. n.time_ = m.time_ /\ n.tend_ = m.tend_
          /\ n.stopBeforeEvent_ = m.stopBeforeEvent_ /\ n.upcomingEvent_ = m.upcomingEvent_
          /\ n.blind = m.blind
      BY DEF HandleRecord
    <2>4. n.tnextevent_ = f.next
      BY DEF HandleRecord
    <2>5. n.timeEvent_ = event
      BY DEF HandleRecord
    <2> QED BY <2>2, <2>3, <2>4, <2>5
  <1> HIDE DEF n
  <1>6. m.time_ + (to - m.time_) = to /\ to - m.time_ \in Int
    BY <1>1
  <1>7. ig' \in IntegratorRecord /\ ig'.type = ig.type /\ ig'.end = to
        /\ ig'.current = m.time_ /\ ig'.previous = m.time_ /\ ig'.states_ = f.state
    BY <1>1, <1>3, <1>6, BeginEffect
  <1>8. /\ me' \in HandleRecord /\ me'.saved = Indicators(f)
        /\ me'.blind = (n.blind \/ Indicators(f) = 0)
        /\ me'.upcomingEvent_ = n.upcomingEvent_ /\ SameHandle(me', n)
    BY <1>2, <1>3, SaveEffect
  <1> QED BY <1>2, <1>3, <1>4, <1>5, <1>7, <1>8 DEF SameHandle

LEMMA ArriveEffect ==
    ASSUME ig \in IntegratorRecord, NEW f \in FmuRecord, f.stateless, NEW m \in HandleRecord,
           NEW tend \in Int, Arrive(f, m, tend)
    PROVE  /\ fmu' \in FmuRecord
           /\ fmu'.time = IF HasTimeEvent(f, tend) THEN f.next ELSE tend
           /\ fmu'.state = fmu'.time /\ fmu'.stateless
           /\ fmu'.acted = f.acted /\ fmu'.next = f.next
           /\ me' \in HandleRecord /\ me'.time_ = fmu'.time /\ me'.tend_ = m.tend_
           /\ me'.stopBeforeEvent_ = m.stopBeforeEvent_
           /\ me'.upcomingEvent_ = m.upcomingEvent_
           /\ me'.timeEvent_ = HasTimeEvent(f, tend)
           /\ me'.stateEvent_ = CheckStateEvent(m, fmu')
           /\ me'.saved = m.saved /\ me'.blind = m.blind
           /\ ig' = ig
           /\ pc' = "arrived"
  <1> DEFINE event == HasTimeEvent(f, tend)
             to == IF event THEN f.next ELSE tend
             signs == CheckStateEvent(m, SetTime(f, to))
  <1>1. event \in BOOLEAN /\ to \in Int /\ signs \in BOOLEAN
    BY DEF HasTimeEvent, FmuRecord, CheckStateEvent
  <1>2. /\ fmu' = SetTime(f, to) /\ ig' = ig /\ pc' = "arrived"
        /\ me' = [m EXCEPT !.time_ = to, !.timeEvent_ = event, !.stateEvent_ = signs,
                           !.eventFlag_ = @ \/ signs]
    BY DEF Arrive
  <1>3. event = HasTimeEvent(f, tend) /\ to = IF event THEN f.next ELSE tend
    OBVIOUS
  <1>4. signs = CheckStateEvent(m, fmu')
    BY <1>2
  <1> HIDE DEF event, to, signs
  <1>5. /\ me' \in HandleRecord /\ me'.time_ = to /\ me'.tend_ = m.tend_
        /\ me'.stopBeforeEvent_ = m.stopBeforeEvent_
        /\ me'.upcomingEvent_ = m.upcomingEvent_
        /\ me'.timeEvent_ = event /\ me'.stateEvent_ = signs
        /\ me'.saved = m.saved /\ me'.blind = m.blind
    BY <1>1, <1>2 DEF HandleRecord
  <1>6. /\ fmu' \in FmuRecord /\ fmu'.time = to /\ fmu'.state = to /\ fmu'.stateless
        /\ fmu'.acted = f.acted /\ fmu'.next = f.next
    BY <1>1, <1>2, SetTimeEffect
  <1> QED BY <1>2, <1>3, <1>4, <1>5, <1>6

-----------------------------------------------------------------------------
(* The actions of the integration.                                         *)

LEMMA StepSizesPositive ==
    ASSUME NEW dt \in StepSizes
    PROVE  dt \in Nat /\ dt > 0
  BY IntegrationAssumption

LEMMA IntegratorFields ==
    ASSUME ig \in IntegratorRecord
    PROVE  /\ ig.info \in EventInfo
           /\ ig.info.stepEvent \in BOOLEAN /\ ig.info.stateEvent \in BOOLEAN
           /\ ig.info.tLower \in Int /\ ig.info.tUpper \in Int
           /\ ig.states_ \in Int /\ ig.end \in Int /\ ig.current \in Int /\ ig.offset \in Int
           /\ ig.dt \in StepSizes /\ ig.dt \in Nat /\ ig.dt > 0
  <1>1. ig.info \in EventInfo /\ ig.dt \in StepSizes
        /\ ig.states_ \in Int /\ ig.end \in Int /\ ig.current \in Int /\ ig.offset \in Int
    BY DEF IntegratorRecord
  <1>2. ig.dt \in Nat /\ ig.dt > 0
    BY <1>1, StepSizesPositive
  <1>3. /\ ig.info.stepEvent \in BOOLEAN /\ ig.info.stateEvent \in BOOLEAN
        /\ ig.info.tLower \in Int /\ ig.info.tUpper \in Int
    BY <1>1 DEF EventInfo
  <1> QED BY <1>1, <1>2, <1>3

LEMMA StateEventInEffect ==
    ASSUME ig \in IntegratorRecord, NEW lower \in Int, NEW upper \in Int
    PROVE  /\ StateEventIn(lower, upper) \in EventInfo
           /\ StateEventIn(lower, upper).stateEvent
           /\ StateEventIn(lower, upper).tLower = lower
           /\ StateEventIn(lower, upper).tUpper = upper
  <1>1. (ig.type = "ro" /\ ig.info.stepEvent) \in BOOLEAN
    OBVIOUS
  <1> QED BY <1>1 DEF StateEventIn, EventInfo

LEMMA NoStateEventEffect ==
    ASSUME ig \in IntegratorRecord, NEW stepEvent \in BOOLEAN
    PROVE  /\ NoStateEvent(stepEvent) \in EventInfo
           /\ ~NoStateEvent(stepEvent).stateEvent
           /\ NoStateEvent(stepEvent).stepEvent = stepEvent
  BY IntegratorFields DEF NoStateEvent, EventInfo

(* The integrator after a step that found a state event, after one that    *)
(* found none, and the object in both cases.                               *)
LEMMA FoundEvent ==
    ASSUME ig \in IntegratorRecord, NEW lower \in Int, NEW upper \in Int,
           ig' = [ig EXCEPT !.info = StateEventIn(lower, upper)]
    PROVE  /\ ig' \in IntegratorRecord /\ ig'.type = ig.type
           /\ ig'.info.tLower = lower /\ ig'.info.tUpper = upper /\ ig'.info.stateEvent
           /\ ig'.states_ = ig.states_ /\ ig'.end = ig.end
  <1> DEFINE info == StateEventIn(lower, upper)
  <1>1. info \in EventInfo /\ info.tLower = lower /\ info.tUpper = upper /\ info.stateEvent
    BY StateEventInEffect
  <1> HIDE DEF info
  <1>2. ig' = [ig EXCEPT !.info = info]
    BY DEF info
  <1>3. ig' \in IntegratorRecord
    BY <1>1, <1>2 DEF IntegratorRecord
  <1>4. ig'.info = info /\ ig'.type = ig.type /\ ig'.states_ = ig.states_ /\ ig'.end = ig.end
    BY <1>2 DEF IntegratorRecord
  <1> QED BY <1>1, <1>3, <1>4

LEMMA WentOn ==
    ASSUME ig \in IntegratorRecord, NEW t \in Int, NEW s \in Int, NEW dt \in StepSizes,
           NEW stepEvent \in BOOLEAN,
           ig' = [ig EXCEPT !.current = t, !.states_ = s, !.dt = dt,
                            !.info = NoStateEvent(stepEvent)]
    PROVE  /\ ig' \in IntegratorRecord /\ ig'.type = ig.type
           /\ ig'.info.stepEvent = stepEvent /\ ~ig'.info.stateEvent
           /\ ig'.states_ = s /\ ig'.end = ig.end /\ ig'.current = t
  <1> DEFINE info == NoStateEvent(stepEvent)
  <1>1. info \in EventInfo /\ info.stepEvent = stepEvent /\ ~info.stateEvent
    BY NoStateEventEffect
  <1> HIDE DEF info
  <1>2. ig' = [ig EXCEPT !.current = t, !.states_ = s, !.dt = dt, !.info = info]
    BY DEF info
  <1>3. ig' \in IntegratorRecord
    BY <1>1, <1>2 DEF IntegratorRecord
  <1>4. ig'.info = info /\ ig'.type = ig.type /\ ig'.states_ = s /\ ig'.end = ig.end
        /\ ig'.current = t
    BY <1>2 DEF IntegratorRecord
  <1> QED BY <1>1, <1>3, <1>4

LEMMA MeAt ==
    ASSUME me \in HandleRecord, NEW t \in Int, NEW b \in BOOLEAN,
           \/ me' = [me EXCEPT !.time_ = t]
           \/ me' = [me EXCEPT !.time_ = t, !.eventFlag_ = TRUE]
           \/ me' = [me EXCEPT !.time_ = t, !.eventFlag_ = @ \/ b]
           \/ me' = [me EXCEPT !.time_ = t, !.enterEventMode_ = b]
    PROVE  /\ me' \in HandleRecord /\ me'.time_ = t /\ me'.tend_ = me.tend_
           /\ me'.stopBeforeEvent_ = me.stopBeforeEvent_
           /\ me'.upcomingEvent_ = me.upcomingEvent_
           /\ me'.timeEvent_ = me.timeEvent_ /\ me'.tnextevent_ = me.tnextevent_
           /\ me'.stateEvent_ = me.stateEvent_
           /\ me'.saved = me.saved /\ me'.blind = me.blind
  <1>1. CASE me' = [me EXCEPT !.time_ = t]
    BY <1>1 DEF HandleRecord
  <1>2. CASE me' = [me EXCEPT !.time_ = t, !.eventFlag_ = TRUE]
    BY <1>2 DEF HandleRecord
  <1>3. CASE me' = [me EXCEPT !.time_ = t, !.eventFlag_ = @ \/ b]
    BY <1>3 DEF HandleRecord
  <1>4. CASE me' = [me EXCEPT !.time_ = t, !.enterEventMode_ = b]
    BY <1>4 DEF HandleRecord
  <1> QED BY <1>1, <1>2, <1>3, <1>4

(* What a step of the integration leaves of the object and the instance.   *)
Moved(time, state) ==
    /\ fmu' \in FmuRecord /\ fmu'.time = time /\ fmu'.state = state
    /\ fmu'.stateless = fmu.stateless /\ fmu'.acted = fmu.acted /\ fmu'.next = fmu.next
    /\ me' \in HandleRecord /\ me'.time_ = time /\ me'.tend_ = me.tend_
    /\ me'.stopBeforeEvent_ = me.stopBeforeEvent_ /\ me'.upcomingEvent_ = me.upcomingEvent_
    /\ me'.timeEvent_ = me.timeEvent_ /\ me'.tnextevent_ = me.tnextevent_
    /\ me'.stateEvent_ = me.stateEvent_ /\ me'.saved = me.saved /\ me'.blind = me.blind

LEMMA MovedTo ==
    ASSUME fmu \in FmuRecord, me \in HandleRecord, NEW t \in Int, NEW s \in Int,
           NEW b \in BOOLEAN,
           fmu' = PutAt(fmu, t, s),
           \/ me' = [me EXCEPT !.time_ = t]
           \/ me' = [me EXCEPT !.time_ = t, !.eventFlag_ = TRUE]
           \/ me' = [me EXCEPT !.time_ = t, !.eventFlag_ = @ \/ b]
           \/ me' = [me EXCEPT !.time_ = t, !.enterEventMode_ = b]
    PROVE  Moved(t, s)
  <1>1. /\ fmu' \in FmuRecord /\ fmu'.time = t /\ fmu'.state = s
        /\ fmu'.stateless = fmu.stateless /\ fmu'.acted = fmu.acted /\ fmu'.next = fmu.next
    BY PutAtEffect
  <1>2. /\ me' \in HandleRecord /\ me'.time_ = t /\ me'.tend_ = me.tend_
        /\ me'.stopBeforeEvent_ = me.stopBeforeEvent_
        /\ me'.upcomingEvent_ = me.upcomingEvent_
        /\ me'.timeEvent_ = me.timeEvent_ /\ me'.tnextevent_ = me.tnextevent_
        /\ me'.stateEvent_ = me.stateEvent_
        /\ me'.saved = me.saved /\ me'.blind = me.blind
    BY MeAt
  <1> QED BY <1>1, <1>2 DEF Moved

LEMMA OdeintStepEffect ==
    ASSUME TypeOK, NEW h \in 1 .. End, NEW dt \in StepSizes, NEW stepEvent \in BOOLEAN,
           OdeintStep(h, dt, stepEvent), NEW t, t = ig.current + h
    PROVE  /\ pc = "stepping" /\ IsOdeint /\ crossings' = crossings
           /\ t \in Int /\ ig.current < t /\ t <= ig.end
           /\ ig' \in IntegratorRecord /\ ig'.type = ig.type /\ ig'.end = ig.end
           /\ \/ /\ CheckStateEvent(me, PutAt(fmu, t, ig.states_ + h))
                 /\ pc' = "searching" /\ Moved(ig.current, ig.states_)
                 /\ ig'.info.tLower = ig.current /\ ig'.info.tUpper = t /\ ig'.info.stateEvent
                 /\ ig'.states_ = ig.states_
              \/ /\ ~CheckStateEvent(me, PutAt(fmu, t, ig.states_ + h))
                 /\ pc' = (IF stepEvent \/ t >= ig.end THEN "integrated" ELSE "stepping")
                 /\ Moved(t, ig.states_ + h)
                 /\ ~ig'.info.stateEvent /\ ig'.info.stepEvent = stepEvent
                 /\ ig'.current = t /\ ig'.states_ = ig.states_ + h
  <1> DEFINE s == ig.states_ + h
             f == PutAt(fmu, t, s)
  <1>1. fmu \in FmuRecord /\ me \in HandleRecord /\ ig \in IntegratorRecord
    BY DEF TypeOK
  <1>2. /\ ig.states_ \in Int /\ ig.end \in Int /\ ig.current \in Int
        /\ ig.dt \in StepSizes /\ ig.dt \in Nat /\ ig.dt > 0
    BY <1>1, IntegratorFields
  <1>3. h \in Nat /\ t \in Int /\ s \in Int /\ ig.current < t
    BY <1>2, RollbackFmuAssumption
  <1>4. t <= ig.end
    <2>1. CASE ig.current + ig.dt >= ig.end
      <3>1. h = ig.end - ig.current
        BY <2>1 DEF OdeintStep
      <3> QED BY <1>2, <3>1
    <2>2. CASE ~(ig.current + ig.dt >= ig.end)
      <3>1. h \in StepsOf(ig.dt)
        BY <2>2 DEF OdeintStep
      <3>2. h <= ig.dt
        BY <1>2, <1>3, <3>1 DEF StepsOf, ConstantStep, ControlledStep
      <3> QED BY <1>2, <1>3, <2>2, <3>2
    <2> QED BY <2>1, <2>2
  <1>5. pc = "stepping" /\ IsOdeint /\ crossings' = crossings
    BY DEF OdeintStep, IsOdeint
  <1>6. CASE CheckStateEvent(me, f)
    <2>1. /\ ig' = [ig EXCEPT !.info = StateEventIn(ig.current, t)]
          /\ fmu' = PutAt(fmu, ig.current, ig.states_)
          /\ me' = [me EXCEPT !.time_ = ig.current, !.eventFlag_ = TRUE]
          /\ pc' = "searching"
      BY <1>6 DEF OdeintStep
    <2>2. Moved(ig.current, ig.states_)
      BY <1>1, <1>2, <2>1, MovedTo
    <2>3. /\ ig' \in IntegratorRecord /\ ig'.type = ig.type
          /\ ig'.info.tLower = ig.current /\ ig'.info.tUpper = t /\ ig'.info.stateEvent
          /\ ig'.states_ = ig.states_ /\ ig'.end = ig.end
      BY <1>1, <1>2, <1>3, <2>1, FoundEvent
    <2> QED BY <1>3, <1>4, <1>5, <1>6, <2>1, <2>2, <2>3
  <1>7. CASE ~CheckStateEvent(me, f)
    <2>1. /\ ig' = [ig EXCEPT !.current = t, !.states_ = f.state, !.dt = dt,
                              !.info = NoStateEvent(stepEvent)]
          /\ fmu' = f
          /\ me' = [me EXCEPT !.time_ = t, !.enterEventMode_ = stepEvent]
          /\ pc' = IF stepEvent \/ t >= ig.end THEN "integrated" ELSE pc
      BY <1>7 DEF OdeintStep
    <2>2. Moved(t, s)
      BY <1>1, <1>3, <2>1, MovedTo
    <2>3. f.state = s
      BY <1>1, <1>3, PutAtEffect
    <2>4. /\ ig' \in IntegratorRecord /\ ig'.type = ig.type
          /\ ~ig'.info.stateEvent /\ ig'.info.stepEvent = stepEvent
          /\ ig'.states_ = s /\ ig'.end = ig.end /\ ig'.current = t
      <3>1. ig' = [ig EXCEPT !.current = t, !.states_ = s, !.dt = dt,
                             !.info = NoStateEvent(stepEvent)]
        BY <2>1, <2>3
      <3> QED BY <1>1, <1>3, <3>1, WentOn
    <2> QED BY <1>3, <1>4, <1>5, <1>7, <2>1, <2>2, <2>4
  <1> QED BY <1>6, <1>7

LEMMA OdeintDoneEffect ==
    ASSUME TypeOK, OdeintDone
    PROVE  /\ pc = "stepping" /\ IsOdeint /\ ig.current >= ig.end
           /\ ig' \in IntegratorRecord /\ ig'.type = ig.type /\ ~ig'.info.stateEvent
           /\ ig'.end = ig.end
           /\ pc' = "integrated" /\ UNCHANGED <<fmu, me, crossings>>
  <1> DEFINE info == NoStateEvent(FALSE)
  <1>1. ig \in IntegratorRecord
    BY DEF TypeOK
  <1>2. info \in EventInfo /\ ~info.stateEvent
    BY <1>1, NoStateEventEffect
  <1>3. ig' = [ig EXCEPT !.info = info]
    BY DEF OdeintDone
  <1> HIDE DEF info
  <1>4. ig' \in IntegratorRecord
    BY <1>1, <1>2, <1>3 DEF IntegratorRecord
  <1>5. ig'.type = ig.type /\ ig'.end = ig.end /\ ig'.info = info
    BY <1>1, <1>3 DEF IntegratorRecord
  <1> QED BY <1>2, <1>4, <1>5 DEF OdeintDone, IsOdeint

LEMMA StateAtType ==
    ASSUME ig \in IntegratorRecord, NEW t \in Int
    PROVE  StateAt(t) \in Int
  BY IntegratorFields DEF StateAt

LEMMA DenseStepEffect ==
    ASSUME TypeOK, NEW h \in StepSizes, NEW stepEvent \in BOOLEAN,
           DenseStep(h, stepEvent), NEW t, t = ig.current + h
    PROVE  /\ pc = "stepping" /\ IsDense /\ crossings' = crossings
           /\ t \in Int /\ ig.current < t
           /\ ig' \in IntegratorRecord /\ ig'.type = ig.type /\ ig'.end = ig.end
           /\ \/ /\ pc' = "searching" /\ Moved(ig.current, StateAt(ig.current))
                 /\ ig'.info.tLower = ig.current /\ ig'.info.tUpper = t /\ ig'.info.stateEvent
              \/ /\ pc' = "integrated" /\ Moved(ig.end, StateAt(ig.end))
                 /\ ~ig'.info.stateEvent
              \/ /\ pc' = IF stepEvent THEN "integrated" ELSE "stepping"
                 /\ t < ig.end /\ Moved(t, StateAt(t)) /\ ig'.current = t
                 /\ stepEvent => ig'.info.stepEvent /\ ~ig'.info.stateEvent
  <1> DEFINE f == PutAt(fmu, t, StateAt(t))
  <1>1. fmu \in FmuRecord /\ me \in HandleRecord /\ ig \in IntegratorRecord
    BY DEF TypeOK
  <1>2. ig.end \in Int /\ ig.current \in Int /\ ig.info \in EventInfo
        /\ ig.info.stepEvent \in BOOLEAN
    BY <1>1, IntegratorFields
  <1>3. t \in Int /\ ig.current < t
    BY <1>2, StepSizesPositive
  <1>4. pc = "stepping" /\ IsDense /\ crossings' = crossings
    BY DEF DenseStep
  <1>5. StateAt(t) \in Int /\ StateAt(ig.current) \in Int /\ StateAt(ig.end) \in Int
    BY <1>1, <1>2, <1>3, StateAtType
  <1>6. CASE CheckStateEvent(me, f)
    <2> DEFINE info == StateEventIn(ig.current, t)
    <2>1. /\ ig' = [ig EXCEPT !.info = info, !.previous = ig.current, !.current = t]
          /\ fmu' = PutAt(fmu, ig.current, StateAt(ig.current))
          /\ me' = [me EXCEPT !.time_ = ig.current, !.eventFlag_ = TRUE]
          /\ pc' = "searching"
      BY <1>6 DEF DenseStep
    <2>2. Moved(ig.current, StateAt(ig.current))
      BY <1>1, <1>2, <1>5, <2>1, MovedTo
    <2>3. info \in EventInfo /\ info.tLower = ig.current /\ info.tUpper = t /\ info.stateEvent
      BY <1>1, <1>2, <1>3, StateEventInEffect
    <2> HIDE DEF info
    <2>4. ig' \in IntegratorRecord
      BY <1>1, <1>2, <1>3, <2>1, <2>3 DEF IntegratorRecord
    <2>5. ig'.info = info /\ ig'.type = ig.type /\ ig'.end = ig.end
      BY <1>1, <2>1 DEF IntegratorRecord
    <2> QED BY <1>3, <1>4, <2>1, <2>2, <2>3, <2>4, <2>5
  <1>7. CASE ~CheckStateEvent(me, f) /\ t >= ig.end
    <2> DEFINE info == EndRecord(stepEvent)
               s == StateAt(ig.end)
    <2>1. /\ ig' = [ig EXCEPT !.info = info, !.states_ = s,
                              !.previous = ig.current, !.current = t]
          /\ fmu' = PutAt(fmu, ig.end, s)
          /\ me' = [me EXCEPT !.time_ = ig.end, !.enterEventMode_ = stepEvent]
          /\ pc' = "integrated"
      BY <1>7 DEF DenseStep
    <2>2. Moved(ig.end, s)
      BY <1>1, <1>2, <1>5, <2>1, MovedTo
    <2>3. info \in EventInfo /\ ~info.stateEvent
      BY <1>1, <1>2, NoStateEventEffect DEF EndRecord
    <2>4. s \in Int
      BY <1>5
    <2> HIDE DEF info, s
    <2>5. ig' \in IntegratorRecord
      BY <1>1, <1>2, <1>3, <2>1, <2>3, <2>4 DEF IntegratorRecord
    <2>6. ig'.info = info /\ ig'.type = ig.type /\ ig'.end = ig.end
      BY <1>1, <2>1 DEF IntegratorRecord
    <2> QED BY <1>3, <1>4, <2>1, <2>2, <2>3, <2>5, <2>6 DEF s
  <1>8. CASE ~CheckStateEvent(me, f) /\ ~(t >= ig.end)
    <2> DEFINE info == IF stepEvent THEN NoStateEvent(TRUE) ELSE ig.info
    <2>1. /\ ig' = [ig EXCEPT !.previous = ig.current, !.current = t, !.info = info]
          /\ fmu' = f
          /\ me' = [me EXCEPT !.time_ = t, !.enterEventMode_ = stepEvent]
          /\ pc' = IF stepEvent THEN "integrated" ELSE "stepping"
      BY <1>4, <1>8 DEF DenseStep
    <2>2. Moved(t, StateAt(t))
      BY <1>1, <1>3, <1>5, <2>1, MovedTo
    <2>3. info \in EventInfo /\ (stepEvent => info.stepEvent /\ ~info.stateEvent)
      BY <1>1, <1>2, NoStateEventEffect
    <2> HIDE DEF info
    <2>4. ig' \in IntegratorRecord
      BY <1>1, <1>2, <1>3, <2>1, <2>3 DEF IntegratorRecord
    <2>5. ig'.info = info /\ ig'.type = ig.type /\ ig'.end = ig.end /\ ig'.current = t
      BY <1>1, <2>1 DEF IntegratorRecord
    <2>6. t < ig.end
      BY <1>2, <1>3, <1>8
    <2> QED BY <1>3, <1>4, <2>1, <2>2, <2>3, <2>4, <2>5, <2>6
  <1> QED BY <1>6, <1>7, <1>8

LEMMA ClipEffect ==
    ASSUME TypeOK, Clip
    PROVE  /\ pc = "searching" /\ crossings' = crossings /\ ig.end < ig.info.tUpper
           /\ \E state \in Int : Moved(ig.end, state)
           /\ ig' \in IntegratorRecord /\ ig'.type = ig.type /\ ig'.end = ig.end
           /\ \/ /\ pc' = "searching"
                 /\ ig'.info.tLower = ig.info.tLower /\ ig'.info.tUpper = ig.end
                 /\ ig'.info.stateEvent = ig.info.stateEvent
              \/ pc' = "integrated" /\ ~ig'.info.stateEvent
  <1> DEFINE state == DoStepConst(fmu.time, ig.end)
             f == PutAt(fmu, ig.end, state)
             event == CheckStateEvent(me, f)
  <1>1. fmu \in FmuRecord /\ me \in HandleRecord /\ ig \in IntegratorRecord
    BY DEF TypeOK
  <1>2. ig.end \in Int /\ ig.states_ \in Int /\ ig.info \in EventInfo
        /\ ig.info.tLower \in Int /\ ig.info.tUpper \in Int
    BY <1>1, IntegratorFields
  <1>3. state \in Int /\ event \in BOOLEAN
    BY <1>1, <1>2, StateAtType DEF DoStepConst, FmuRecord, CheckStateEvent
  <1>4. pc = "searching" /\ crossings' = crossings /\ ig.end < ig.info.tUpper
    BY <1>2 DEF Clip, Overshot
  <1>5. /\ fmu' = f
        /\ me' = [me EXCEPT !.time_ = ig.end, !.eventFlag_ = @ \/ event]
        /\ ig' = (IF event THEN [ig EXCEPT !.states_ = state, !.info.tUpper = ig.end]
                  ELSE [ig EXCEPT !.states_ = state, !.info.stateEvent = FALSE])
        /\ pc' = (IF event THEN "searching" ELSE "integrated")
    BY <1>4 DEF Clip
  <1> HIDE DEF event
  <1>6. Moved(ig.end, state)
    BY <1>1, <1>2, <1>3, <1>5, MovedTo
  <1> HIDE DEF state, f
  <1>7. CASE event
    <2> DEFINE info == [ig.info EXCEPT !.tUpper = ig.end]
    <2>1. info \in EventInfo /\ info.tLower = ig.info.tLower /\ info.tUpper = ig.end
          /\ info.stateEvent = ig.info.stateEvent
      BY <1>2 DEF EventInfo
    <2>2. ig' = [ig EXCEPT !.states_ = state, !.info = info]
      BY <1>5, <1>7
    <2> HIDE DEF info
    <2>3. ig' \in IntegratorRecord
      BY <1>1, <1>3, <2>1, <2>2 DEF IntegratorRecord
    <2>4. ig'.info = info /\ ig'.type = ig.type /\ ig'.end = ig.end
      BY <1>1, <2>2 DEF IntegratorRecord
    <2> QED BY <1>3, <1>4, <1>5, <1>6, <1>7, <2>1, <2>3, <2>4
  <1>8. CASE ~event
    <2> DEFINE info == [ig.info EXCEPT !.stateEvent = FALSE]
    <2>1. info \in EventInfo /\ ~info.stateEvent
      BY <1>2 DEF EventInfo
    <2>2. ig' = [ig EXCEPT !.states_ = state, !.info = info]
      BY <1>5, <1>8
    <2> HIDE DEF info
    <2>3. ig' \in IntegratorRecord
      BY <1>1, <1>3, <2>1, <2>2 DEF IntegratorRecord
    <2>4. ig'.info = info /\ ig'.type = ig.type /\ ig'.end = ig.end
      BY <1>1, <2>2 DEF IntegratorRecord
    <2> QED BY <1>3, <1>4, <1>5, <1>6, <1>8, <2>1, <2>3, <2>4
  <1> QED BY <1>7, <1>8

LEMMA MiddleOf ==
    ASSUME NEW lower \in Int, NEW upper \in Int, upper - lower > Half
    PROVE  /\ lower + (upper - lower) \div 2 \in Int
           /\ lower < lower + (upper - lower) \div 2
           /\ lower + (upper - lower) \div 2 < upper
  BY PrecisionParts

LEMMA BisectEffect ==
    ASSUME TypeOK, Bisect,
           NEW t, t = ig.info.tLower + (ig.info.tUpper - ig.info.tLower) \div 2,
           NEW s, s = DoStepConst(ig.info.tLower, t)
    PROVE  /\ pc = "searching" /\ pc' = "searching" /\ crossings' = crossings
           /\ ig.info.tUpper <= ig.end
           /\ t \in Int /\ ig.info.tLower < t /\ t < ig.info.tUpper
           /\ ig' \in IntegratorRecord /\ ig'.type = ig.type /\ ig'.end = ig.end
           /\ ig'.info.stateEvent = ig.info.stateEvent
           /\ \/ /\ CheckStateEvent(me, PutAt(fmu, t, s))
                 /\ Moved(ig.info.tLower, ig.states_)
                 /\ ig'.info.tLower = ig.info.tLower /\ ig'.info.tUpper = t
                 /\ ig'.states_ = ig.states_
              \/ /\ ~CheckStateEvent(me, PutAt(fmu, t, s))
                 /\ Moved(t, s)
                 /\ ig'.info.tLower = t /\ ig'.info.tUpper = ig.info.tUpper
                 /\ ig'.states_ = s
  <1> DEFINE lower == ig.info.tLower
             f == PutAt(fmu, t, s)
  <1>1. fmu \in FmuRecord /\ me \in HandleRecord /\ ig \in IntegratorRecord
    BY DEF TypeOK
  <1>2. ig.end \in Int /\ ig.states_ \in Int /\ ig.info \in EventInfo
        /\ ig.info.tLower \in Int /\ ig.info.tUpper \in Int
    BY <1>1, IntegratorFields
  <1>3. /\ pc = "searching" /\ pc' = "searching" /\ crossings' = crossings
        /\ ig.info.tUpper <= ig.end /\ ig.info.tUpper - lower > Half
    BY <1>2 DEF Bisect, Overshot, TooWide
  <1>4. t \in Int /\ lower < t /\ t < ig.info.tUpper
    BY <1>2, <1>3, MiddleOf
  <1>5. s \in Int
    BY <1>1, <1>2, <1>4, StateAtType DEF DoStepConst
  <1>6. CASE CheckStateEvent(me, f)
    <2> DEFINE info == [ig.info EXCEPT !.tUpper = t]
    <2>1. /\ ig' = [ig EXCEPT !.info = info]
          /\ fmu' = PutAt(fmu, lower, ig.states_)
          /\ me' = [me EXCEPT !.time_ = lower, !.eventFlag_ = TRUE]
      BY <1>6 DEF Bisect
    <2>2. Moved(lower, ig.states_)
      BY <1>1, <1>2, <2>1, MovedTo
    <2>3. info \in EventInfo /\ info.tLower = lower /\ info.tUpper = t
          /\ info.stateEvent = ig.info.stateEvent
      BY <1>2, <1>4 DEF EventInfo
    <2> HIDE DEF info
    <2>4. ig' \in IntegratorRecord
      BY <1>1, <2>1, <2>3 DEF IntegratorRecord
    <2>5. ig'.info = info /\ ig'.type = ig.type /\ ig'.end = ig.end
          /\ ig'.states_ = ig.states_
      BY <1>1, <2>1 DEF IntegratorRecord
    <2> QED BY <1>3, <1>4, <1>6, <2>2, <2>3, <2>4, <2>5
  <1>7. CASE ~CheckStateEvent(me, f)
    <2> DEFINE info == [ig.info EXCEPT !.tLower = t]
    <2>1. /\ ig' = [ig EXCEPT !.info = info, !.states_ = s]
          /\ fmu' = f
          /\ me' = [me EXCEPT !.time_ = t]
      BY <1>7 DEF Bisect
    <2>2. Moved(t, s)
      BY <1>1, <1>4, <1>5, <2>1, MovedTo
    <2>3. info \in EventInfo /\ info.tLower = t /\ info.tUpper = ig.info.tUpper
          /\ info.stateEvent = ig.info.stateEvent
      BY <1>2, <1>4 DEF EventInfo
    <2> HIDE DEF info
    <2>4. ig' \in IntegratorRecord
      BY <1>1, <1>5, <2>1, <2>3 DEF IntegratorRecord
    <2>5. ig'.info = info /\ ig'.type = ig.type /\ ig'.end = ig.end /\ ig'.states_ = s
      BY <1>1, <2>1 DEF IntegratorRecord
    <2> QED BY <1>3, <1>4, <1>7, <2>2, <2>3, <2>4, <2>5
  <1> QED BY <1>6, <1>7

LEMMA LocatedEffect ==
    ASSUME TypeOK, Located
    PROVE  /\ pc = "searching" /\ pc' = "integrated" /\ UNCHANGED <<fmu, me, crossings>>
           /\ ig.info.tUpper <= ig.end /\ ig.info.tUpper - ig.info.tLower <= Half
           /\ ig' \in IntegratorRecord /\ ig'.type = ig.type /\ ig'.end = ig.end
           /\ ig'.info.tLower = ig.info.tLower /\ ig'.info.tUpper = ig.info.tUpper + Eighth
           /\ ig'.info.stateEvent = ig.info.stateEvent
  <1> DEFINE info == [ig.info EXCEPT !.tUpper = @ + Eighth]
  <1>1. ig \in IntegratorRecord
    BY DEF TypeOK
  <1>2. ig.info \in EventInfo /\ ig.info.tLower \in Int /\ ig.info.tUpper \in Int
        /\ ig.end \in Int
    BY <1>1, IntegratorFields
  <1>3. /\ pc = "searching" /\ pc' = "integrated" /\ UNCHANGED <<fmu, me, crossings>>
        /\ ig.info.tUpper <= ig.end /\ ig.info.tUpper - ig.info.tLower <= Half
    BY <1>2, PrecisionParts DEF Located, Overshot, TooWide
  <1>4. ig' = [ig EXCEPT !.info = info, !.time_ = ig.info.tLower]
    BY DEF Located
  <1>5. info \in EventInfo /\ info.tLower = ig.info.tLower
        /\ info.tUpper = ig.info.tUpper + Eighth /\ info.stateEvent = ig.info.stateEvent
    BY <1>2, PrecisionParts DEF EventInfo
  <1> HIDE DEF info
  <1>6. ig' \in IntegratorRecord
    BY <1>1, <1>2, <1>4, <1>5 DEF IntegratorRecord
  <1>7. ig'.info = info /\ ig'.type = ig.type /\ ig'.end = ig.end
    BY <1>1, <1>4 DEF IntegratorRecord
  <1> QED BY <1>3, <1>5, <1>6, <1>7

-----------------------------------------------------------------------------
(* The actions around the integration.                                     *)

(* What is not changed of an object when its events are noted.             *)
SameSigns(m, n) ==
    /\ m.stopBeforeEvent_ = n.stopBeforeEvent_ /\ m.timeEvent_ = n.timeEvent_
    /\ m.tnextevent_ = n.tnextevent_ /\ m.saved = n.saved /\ m.blind = n.blind

LEMMA EventFlagEffect ==
    ASSUME ig \in IntegratorRecord, NEW m \in HandleRecord, NEW n,
           n = [m EXCEPT !.eventFlag_ = EventFlag(m)]
    PROVE  /\ n \in HandleRecord
           /\ n.eventFlag_ = (m.timeEvent_ \/ m.stateEvent_ \/ m.upcomingEvent_
                              \/ ig.info.stepEvent)
           /\ n.upcomingEvent_ = m.upcomingEvent_ /\ n.stateEvent_ = m.stateEvent_
           /\ n.time_ = m.time_ /\ n.tend_ = m.tend_
           /\ SameSigns(n, m)
  <1>1. EventFlag(m) \in BOOLEAN
    BY DEF EventFlag
  <1>2. n \in HandleRecord
    BY <1>1 DEF HandleRecord
  <1>3. n.eventFlag_ = EventFlag(m)
    BY DEF HandleRecord
  <1>4. /\ n.upcomingEvent_ = m.upcomingEvent_ /\ n.stateEvent_ = m.stateEvent_
        /\ n.time_ = m.time_ /\ n.tend_ = m.tend_
        /\ SameSigns(n, m)
    BY DEF HandleRecord, SameSigns
  <1> QED BY <1>2, <1>3, <1>4 DEF EventFlag

(* What AfterIntegration makes of the events that were found.              *)
Noted(m) ==
    /\ m \in HandleRecord /\ m.stateEvent_ = ig.info.stateEvent
    /\ m.time_ = me.time_ /\ m.tend_ = me.tend_ /\ m.upcomingEvent_ = me.upcomingEvent_
    /\ SameSigns(m, me)

EventAhead(m) ==
    /\ m \in HandleRecord /\ m.stateEvent_ = ig.info.stateEvent
    /\ m.upcomingEvent_ = me.upcomingEvent_
    /\ m.time_ = IF ig.info.stateEvent THEN ig.info.tLower ELSE me.time_
    /\ m.tend_ = IF ig.info.stateEvent THEN ig.info.tUpper ELSE me.tnextevent_
    /\ SameSigns(m, me)

LEMMA NotedEffect ==
    ASSUME TypeOK, NEW m, m = [me EXCEPT !.stateEvent_ = ig.info.stateEvent]
    PROVE  Noted(m)
  <1>1. me \in HandleRecord /\ ig.info.stateEvent \in BOOLEAN
    BY IntegratorFields DEF TypeOK
  <1>2. m \in HandleRecord
    BY <1>1 DEF HandleRecord
  <1>3. m.stateEvent_ = ig.info.stateEvent
    BY <1>1 DEF HandleRecord
  <1>4. /\ m.time_ = me.time_ /\ m.tend_ = me.tend_ /\ m.upcomingEvent_ = me.upcomingEvent_
        /\ SameSigns(m, me)
    BY <1>1 DEF HandleRecord, SameSigns
  <1> QED BY <1>2, <1>3, <1>4 DEF Noted

LEMMA EventAheadEffect ==
    ASSUME TypeOK, NEW m, Noted(m), NEW n,
           n = IF m.stateEvent_ THEN [m EXCEPT !.time_ = ig.info.tLower, !.tend_ = ig.info.tUpper]
               ELSE [m EXCEPT !.tend_ = m.tnextevent_]
    PROVE  EventAhead(n)
  <1>1. /\ m \in HandleRecord /\ m.stateEvent_ = ig.info.stateEvent
        /\ m.time_ = me.time_ /\ m.upcomingEvent_ = me.upcomingEvent_
        /\ m.tnextevent_ = me.tnextevent_
        /\ ig.info.tLower \in Int /\ ig.info.tUpper \in Int
    BY IntegratorFields DEF TypeOK, Noted, SameSigns
  <1>2. CASE m.stateEvent_
    <2>1. n = [m EXCEPT !.time_ = ig.info.tLower, !.tend_ = ig.info.tUpper]
      BY <1>2
    <2>2. n \in HandleRecord
      BY <1>1, <2>1 DEF HandleRecord
    <2>3. n.time_ = ig.info.tLower /\ n.tend_ = ig.info.tUpper
      BY <1>1, <2>1 DEF HandleRecord
    <2>4. n.stateEvent_ = m.stateEvent_ /\ n.upcomingEvent_ = m.upcomingEvent_
          /\ SameSigns(n, m)
      BY <1>1, <2>1 DEF HandleRecord, SameSigns
    <2> QED BY <1>1, <1>2, <2>2, <2>3, <2>4 DEF EventAhead, Noted, SameSigns
  <1>3. CASE ~m.stateEvent_
    <2>1. n = [m EXCEPT !.tend_ = m.tnextevent_]
      BY <1>3
    <2>2. n \in HandleRecord
      BY <1>1, <2>1 DEF HandleRecord
    <2>3. n.time_ = m.time_ /\ n.tend_ = m.tnextevent_
      BY <1>1, <2>1 DEF HandleRecord
    <2>4. n.stateEvent_ = m.stateEvent_ /\ n.upcomingEvent_ = m.upcomingEvent_
          /\ SameSigns(n, m)
      BY <1>1, <2>1 DEF HandleRecord, SameSigns
    <2> QED BY <1>1, <1>3, <2>2, <2>3, <2>4 DEF EventAhead, Noted, SameSigns
  <1> QED BY <1>2, <1>3

(* The four ways on from an integration.                                   *)
LEMMA AfterIntegrationEffect ==
    ASSUME TypeOK, NEW stepEvent \in BOOLEAN, AfterIntegration(stepEvent)
    PROVE  /\ pc = "integrated" /\ crossings' = crossings
           /\ \/ /\ ig.info.stepEvent /\ ig' = ig
                 /\ \E m \in HandleRecord :
                       Noted(m) /\ HandleEvents(fmu, m, call, "step")
              \/ /\ ~ig.info.stepEvent /\ (ig.info.stateEvent \/ me.timeEvent_)
                 /\ me.stopBeforeEvent_ /\ fmu' = fmu /\ Return
                 /\ \E m \in HandleRecord :
                       /\ EventAhead(m)
                       /\ me' \in HandleRecord /\ me'.upcomingEvent_ /\ me'.eventFlag_
                       /\ me'.time_ = m.time_ /\ me'.tend_ = m.tend_
                       /\ me'.stateEvent_ = m.stateEvent_ /\ SameSigns(me', m)
              \/ /\ ~ig.info.stepEvent /\ (ig.info.stateEvent \/ me.timeEvent_)
                 /\ ~me.stopBeforeEvent_ /\ ig' = ig
                 /\ \E m \in HandleRecord :
                       EventAhead(m) /\ StepOver(fmu, m, call, "event", stepEvent)
              \/ /\ ~ig.info.stepEvent /\ ~ig.info.stateEvent /\ ~me.timeEvent_
                 /\ fmu' = fmu /\ Return
                 /\ me' \in HandleRecord
                 /\ me'.upcomingEvent_ = me.upcomingEvent_
                 /\ me'.time_ = me.time_ /\ me'.tend_ = me.tend_
                 /\ SameSigns(me', me)
  <1> DEFINE m == [me EXCEPT !.stateEvent_ = ig.info.stateEvent]
             n == IF m.stateEvent_
                  THEN [m EXCEPT !.time_ = ig.info.tLower, !.tend_ = ig.info.tUpper]
                  ELSE [m EXCEPT !.tend_ = m.tnextevent_]
  <1>1. Noted(m)
    BY NotedEffect
  <1>2. EventAhead(n)
    <2> HIDE DEF m
    <2>1. n = IF m.stateEvent_
              THEN [m EXCEPT !.time_ = ig.info.tLower, !.tend_ = ig.info.tUpper]
              ELSE [m EXCEPT !.tend_ = m.tnextevent_]
      OBVIOUS
    <2> HIDE DEF n
    <2> QED BY <1>1, <2>1, EventAheadEffect
  <1>3. m \in HandleRecord /\ n \in HandleRecord /\ ig \in IntegratorRecord
    BY <1>1, <1>2 DEF Noted, EventAhead, TypeOK
  <1>4. m.stateEvent_ = ig.info.stateEvent /\ m.timeEvent_ = me.timeEvent_
        /\ m.stopBeforeEvent_ = me.stopBeforeEvent_
    BY <1>1 DEF Noted, SameSigns
  <1>5. pc = "integrated" /\ crossings' = crossings
    BY DEF AfterIntegration
  <1>6. CASE ig.info.stepEvent
    <2>1. HandleEvents(fmu, m, call, "step") /\ UNCHANGED ig
      BY <1>6 DEF AfterIntegration
    <2> QED BY <1>1, <1>3, <1>5, <1>6, <2>1
  <1>7. CASE ~ig.info.stepEvent /\ (m.stateEvent_ \/ m.timeEvent_) /\ m.stopBeforeEvent_
    <2>1. StopBefore(n)
      BY <1>7 DEF AfterIntegration
    <2> DEFINE k == [n EXCEPT !.upcomingEvent_ = TRUE]
    <2>2. Return /\ fmu' = fmu /\ me' = [k EXCEPT !.eventFlag_ = EventFlag(k)]
      BY <2>1 DEF StopBefore
    <2> HIDE DEF n
    <2>3. k \in HandleRecord
      BY <1>3 DEF HandleRecord
    <2>4. k.upcomingEvent_
      BY <1>3 DEF HandleRecord
    <2>5. k.time_ = n.time_ /\ k.tend_ = n.tend_ /\ k.stateEvent_ = n.stateEvent_
          /\ SameSigns(k, n)
      BY <1>3 DEF HandleRecord, SameSigns
    <2> HIDE DEF k
    <2>6. me' \in HandleRecord /\ me'.upcomingEvent_ /\ me'.eventFlag_
          /\ me'.time_ = k.time_ /\ me'.tend_ = k.tend_
          /\ me'.stateEvent_ = k.stateEvent_ /\ SameSigns(me', k)
      BY <1>3, <2>2, <2>3, <2>4, EventFlagEffect
    <2>7. me'.time_ = n.time_ /\ me'.tend_ = n.tend_
          /\ me'.stateEvent_ = n.stateEvent_ /\ SameSigns(me', n)
      BY <2>5, <2>6 DEF SameSigns
    <2> QED BY <1>2, <1>3, <1>4, <1>5, <1>7, <2>2, <2>6, <2>7
  <1>8. CASE ~ig.info.stepEvent /\ (m.stateEvent_ \/ m.timeEvent_) /\ ~m.stopBeforeEvent_
    <2>1. StepOver(fmu, n, call, "event", stepEvent) /\ UNCHANGED ig
      BY <1>8 DEF AfterIntegration
    <2> HIDE DEF n
    <2> QED BY <1>2, <1>3, <1>4, <1>5, <1>8, <2>1
  <1>9. CASE ~ig.info.stepEvent /\ ~(m.stateEvent_ \/ m.timeEvent_)
    <2>1. me' = [m EXCEPT !.eventFlag_ = EventFlag(m)] /\ Return /\ fmu' = fmu
      BY <1>9 DEF AfterIntegration
    <2> HIDE DEF m
    <2>2. me' \in HandleRecord /\ me'.upcomingEvent_ = m.upcomingEvent_
          /\ me'.time_ = m.time_ /\ me'.tend_ = m.tend_ /\ SameSigns(me', m)
      BY <1>3, <2>1, EventFlagEffect
    <2> QED BY <1>1, <1>4, <1>5, <1>9, <2>1, <2>2 DEF Noted, SameSigns
  <1> QED BY <1>6, <1>7, <1>8, <1>9

LEMMA HandleArrivalEffect ==
    ASSUME TypeOK, NEW stepEvent \in BOOLEAN, HandleArrival(stepEvent)
    PROVE  /\ pc = "arrived" /\ crossings' = crossings
           /\ \E m \in HandleRecord :
                 /\ SameHandle(m, me) /\ m.upcomingEvent_ = me.upcomingEvent_
                 /\ m.saved = me.saved /\ m.blind = me.blind
                 /\ LET event == m.timeEvent_ \/ m.enterEventMode_ \/ m.stateEvent_
                    IN  \/ /\ event /\ ~m.stopBeforeEvent_
                           /\ HandleEvents(fmu, m, call, "arrived") /\ ig' = ig
                        \/ /\ ~event \/ m.stopBeforeEvent_
                           /\ fmu' = fmu /\ Return
                           /\ me' \in HandleRecord
                           /\ me'.upcomingEvent_ = (me.upcomingEvent_ \/ event)
                           /\ me'.enterEventMode_ = m.enterEventMode_
                           /\ me'.saved = me.saved /\ me'.blind = me.blind
                           /\ SameHandle(me', m)
  <1>1. me \in HandleRecord
    BY DEF TypeOK
  <1>2. PICK m : m = IF me.stopBeforeEvent_ THEN me ELSE CompletedIntegratorStep(me, stepEvent)
    OBVIOUS
  <1>3. /\ m \in HandleRecord /\ SameHandle(m, me) /\ m.upcomingEvent_ = me.upcomingEvent_
        /\ m.saved = me.saved /\ m.blind = me.blind
    BY <1>1, <1>2, CompletedEffect DEF SameHandle
  <1>4. pc = "arrived" /\ crossings' = crossings
    BY DEF HandleArrival
  <1> DEFINE event == m.timeEvent_ \/ m.enterEventMode_ \/ m.stateEvent_
  <1>5. CASE event /\ ~m.stopBeforeEvent_
    <2>1. HandleEvents(fmu, m, call, "arrived") /\ ig' = ig
      BY <1>2, <1>5 DEF HandleArrival
    <2> QED BY <1>3, <1>4, <1>5, <2>1
  <1>6. CASE ~event \/ m.stopBeforeEvent_
    <2>1. me' = [m EXCEPT !.upcomingEvent_ = @ \/ event] /\ Return /\ fmu' = fmu
      BY <1>2, <1>6 DEF HandleArrival
    <2>2. event \in BOOLEAN
      BY <1>3 DEF HandleRecord
    <2>3. event = (m.timeEvent_ \/ m.enterEventMode_ \/ m.stateEvent_)
      OBVIOUS
    <2> HIDE DEF event
    <2>4. me' \in HandleRecord
      BY <1>3, <2>1, <2>2 DEF HandleRecord
    <2>5. me'.upcomingEvent_ = (me.upcomingEvent_ \/ event)
      BY <1>3, <2>1, <2>2 DEF HandleRecord
    <2>6. me'.enterEventMode_ = m.enterEventMode_ /\ me'.saved = m.saved
          /\ me'.blind = m.blind /\ SameHandle(me', m)
      BY <1>3, <2>1, <2>2 DEF HandleRecord, SameHandle
    <2>7. ~(m.timeEvent_ \/ m.enterEventMode_ \/ m.stateEvent_) \/ m.stopBeforeEvent_
      BY <1>6, <2>3
    <2>8. me'.upcomingEvent_ =
             (me.upcomingEvent_ \/ (m.timeEvent_ \/ m.enterEventMode_ \/ m.stateEvent_))
      BY <2>3, <2>5
    <2>9. Return /\ fmu' = fmu
      BY <2>1
    <2> QED BY <1>3, <1>4, <2>4, <2>6, <2>7, <2>8, <2>9
  <1> QED BY <1>5, <1>6

(* integrate() handles an event it stopped before, or starts at once.      *)
LEMMA IntegrateEffect ==
    ASSUME TypeOK, NEW f \in FmuRecord, NEW c \in CallRecord, NEW stepEvent \in BOOLEAN,
           f.stateless = fmu.stateless, Integrate(f, me, c, stepEvent)
    PROVE  \E d \in CallRecord, n \in HandleRecord :
              /\ d.tend = c.tend /\ d.then = "start" /\ d.before = Outlook
              /\ SameHandle(n, me) /\ n.upcomingEvent_ = me.upcomingEvent_
              /\ n.saved = me.saved /\ n.blind = me.blind
              /\ \/ /\ me.stopBeforeEvent_ /\ me.upcomingEvent_ /\ f.stateless
                    /\ HandleEvents(f, n, d, "start") /\ ig' = ig
                 \/ /\ me.stopBeforeEvent_ /\ me.upcomingEvent_ /\ ~f.stateless
                    /\ StepOver(f, me, d, "start", stepEvent) /\ ig' = ig
                 \/ /\ ~(me.stopBeforeEvent_ /\ me.upcomingEvent_)
                    /\ Start(f, n, d.tend, d.dt) /\ call' = d
  <1>1. me \in HandleRecord /\ fmu \in FmuRecord
    BY DEF TypeOK
  <1>2. PICK n : n = IF f.stateless /\ me.stopBeforeEvent_
                     THEN CompletedIntegratorStep(me, stepEvent) ELSE me
    OBVIOUS
  <1>3. /\ n \in HandleRecord /\ SameHandle(n, me) /\ n.upcomingEvent_ = me.upcomingEvent_
        /\ n.saved = me.saved /\ n.blind = me.blind
    BY <1>1, <1>2, CompletedEffect DEF SameHandle
  <1>4. PICK o : o = Outlook
    OBVIOUS
  <1>5. o \in [time : Int, until : Int, upcoming : BOOLEAN, event : BOOLEAN]
    <2>1. me.time_ \in Int /\ me.tend_ \in Int /\ me.upcomingEvent_ \in BOOLEAN
          /\ me.eventFlag_ \in BOOLEAN
      BY <1>1 DEF HandleRecord
    <2>2. PICK b \in BOOLEAN :
             b = (\/ me.eventFlag_
                  \/ fmu.stateless /\ (me.timeEvent_ \/ me.stateEvent_ \/ me.enterEventMode_))
      OBVIOUS
    <2>3. PICK u \in Int : u = IF fmu.stateless THEN me.time_ ELSE me.tend_
      BY <2>1
    <2>4. o = [time |-> me.time_, until |-> u, upcoming |-> me.upcomingEvent_, event |-> b]
      BY <1>4, <2>2, <2>3 DEF Outlook
    <2> QED BY <2>1, <2>4
  <1>6. PICK d : d = [c EXCEPT !.then = "start", !.before = o]
    OBVIOUS
  <1>7. d \in CallRecord
    BY <1>5, <1>6 DEF CallRecord
  <1>8. d.tend = c.tend /\ d.then = "start" /\ d.before = o
    BY <1>6 DEF CallRecord
  <1>9. IF me.stopBeforeEvent_ /\ me.upcomingEvent_
        THEN /\ IF f.stateless THEN HandleEvents(f, n, d, "start")
                ELSE StepOver(f, me, d, "start", stepEvent)
             /\ UNCHANGED ig
        ELSE Start(f, n, d.tend, d.dt) /\ call' = d
    BY <1>2, <1>4, <1>6 DEF Integrate
  <1> QED BY <1>3, <1>4, <1>7, <1>8, <1>9

(* Signs, read after a step.                                               *)
LEMMA SignsStay ==
    ASSUME crossings' = crossings, fmu' \in FmuRecord, me' \in HandleRecord
    PROVE  /\ Indicators(fmu)' = Sign(fmu'.state)
           /\ Told' <=> Sign(fmu'.state) \in {0, fmu'.acted}
           /\ CheckStateEvent(me, fmu)' <=>
                  Sign(fmu'.state) # 0 /\ me'.saved # 0 /\ Sign(fmu'.state) # me'.saved
           /\ Sign(ig.info.tUpper)' = Sign(ig'.info.tUpper)
  <1>1. Indicators(fmu)' = Sign(fmu'.state)
    BY DEF Indicators, Sign
  <1>2. Sign(fmu'.state) \in {-1, 0, 1} /\ me'.saved \in {-1, 0, 1}
    BY SignType DEF HandleRecord
  <1>3. CheckStateEvent(me, fmu)' <=> Sign(fmu'.state) * me'.saved < 0
    BY <1>1 DEF CheckStateEvent
  <1>4. Sign(ig.info.tUpper)' = Sign(ig'.info.tUpper)
    BY DEF Sign
  <1> QED BY <1>1, <1>2, <1>3, <1>4 DEF Told

-----------------------------------------------------------------------------
(* The invariant is kept where integrate() starts.                         *)

LEMMA StartKeeps ==
    ASSUME TypeOK, crossings' = crossings, rb' \in RollbackRecord, left' \in 0 .. MaxReturns,
           NEW f \in FmuRecord, NEW m \in HandleRecord, NEW c \in CallRecord,
           Start(f, m, c.tend, c.dt), call' = c, ~m.upcomingEvent_,
           m.time_ = IF c.before.upcoming THEN c.before.until ELSE c.before.time,
           m.time_ <= f.next, f.time = m.time_ \/ (IsDense /\ ~f.stateless),
           m.time_ < Infinity, m.tend_ < Infinity, rb'.time_ < Infinity,
           c.tend + Eighth < Infinity,
           IsOdeint =>
               /\ f.state = f.time /\ rb'.state_ = rb'.time_
               /\ ~rb'.abandoned => f.time < f.next
               /\ ~m.blind /\ ~rb'.abandoned =>
                      Indicators(f) \in {0, f.acted} /\ (f.stateless => m.saved = f.acted)
    PROVE  RollbackInv'
  <1>1. ig \in IntegratorRecord /\ crossings \in Crossings
    BY DEF TypeOK
  <1>2. c.tend \in Int /\ c.dt \in StepSizes /\ call' \in CallRecord
    BY DEF CallRecord
  <1>3. f.next \in Nat /\ f.time \in Int /\ f.state \in Int /\ f.acted \in {-1, 1}
    BY DEF FmuRecord
  <1>4. m.time_ \in Int /\ m.tend_ \in Int /\ m.saved \in {-1, 0, 1}
    BY DEF HandleRecord
  <1>5. HasTimeEvent(f, c.tend) \in BOOLEAN
        /\ (HasTimeEvent(f, c.tend) => f.next <= c.tend)
        /\ (~HasTimeEvent(f, c.tend) => c.tend < f.next)
    BY <1>2, <1>3, PrecisionParts DEF HasTimeEvent
  <1>6. CASE ~f.stateless
    <2>1. IntegrateStates(f, m, c.tend, c.dt)
      BY <1>6 DEF Start
    <2>2. /\ fmu' = f
          /\ me' \in HandleRecord /\ me'.time_ = m.time_ /\ me'.tend_ = m.tend_
          /\ me'.upcomingEvent_ = m.upcomingEvent_
          /\ me'.timeEvent_ = HasTimeEvent(f, c.tend) /\ me'.tnextevent_ = f.next
          /\ me'.saved = Indicators(f)
          /\ me'.blind = (m.blind \/ Indicators(f) = 0)
          /\ ig' \in IntegratorRecord /\ ig'.type = ig.type
          /\ ig'.current = m.time_ /\ ig'.states_ = f.state
          /\ ig'.end = (IF HasTimeEvent(f, c.tend) THEN f.next - Half ELSE c.tend)
          /\ pc' = "stepping"
      BY <1>1, <1>2, <2>1, IntegrateStatesEffect
    <2>3. TypeOK'
      BY <1>1, <1>2, <2>2 DEF TypeOK
    <2>4. PlacesInv'
      BY <1>6, <2>2 DEF PlacesInv, Integrating, IteratingFor
    <2>5. ClockInv'
      BY <1>6, <2>2 DEF ClockInv, IsDense
    <2>6. EventInv'
      BY <2>2 DEF EventInv
    <2>7. Origin' = m.time_
      BY DEF Origin
    <2>8. EndInv'
      BY <1>5, <2>2, <2>7 DEF EndInv, Integrating
    <2>9. SpanInv'
      BY <2>2 DEF SpanInv
    <2>10. ProgressInv'
      BY <1>2, <1>3, <1>4, <2>2, <2>7, PrecisionParts DEF ProgressInv, IteratingFor, Greatest
    <2>11. IsOdeint' => IsOdeint
      BY <2>2 DEF IsOdeint, IsDense
    <2>12. IsOdeint => StatesInv'
      BY <1>3, <1>4, <2>2 DEF StatesInv, IteratingFor, IsOdeint
    <2>13. IsOdeint => SearchInv'
      BY <2>2, SignsStay, SignType DEF SearchInv, Indicators
    <2>14. IsOdeint => HorizonInv'
      BY <2>2 DEF HorizonInv
    <2>15. IsOdeint => ToldInv'
      BY <1>3, <2>2, SignsStay DEF ToldInv, Integrating, SavedActed, Indicators
    <2>16. IsOdeint => ScheduleInv'
      BY <2>2 DEF ScheduleInv, Integrating, Wanted
    <2> QED BY <2>3, <2>4, <2>5, <2>6, <2>8, <2>9, <2>10, <2>11, <2>12, <2>13, <2>14, <2>15,
               <2>16 DEF RollbackInv, AnyStepperInv, ContractInv, OdeintInv
  <1>7. CASE f.stateless
    <2>1. Arrive(f, m, c.tend)
      BY <1>7 DEF Start
    <2>2. /\ fmu' \in FmuRecord
          /\ fmu'.time = (IF HasTimeEvent(f, c.tend) THEN f.next ELSE c.tend)
          /\ fmu'.state = fmu'.time /\ fmu'.stateless
          /\ fmu'.acted = f.acted /\ fmu'.next = f.next
          /\ me' \in HandleRecord /\ me'.time_ = fmu'.time /\ me'.tend_ = m.tend_
          /\ me'.upcomingEvent_ = m.upcomingEvent_
          /\ me'.timeEvent_ = HasTimeEvent(f, c.tend)
          /\ me'.stateEvent_ = CheckStateEvent(m, fmu')
          /\ me'.saved = m.saved /\ me'.blind = m.blind
          /\ ig' = ig
          /\ pc' = "arrived"
      BY <1>1, <1>2, <1>7, <2>1, ArriveEffect
    <2>3. TypeOK'
      BY <1>1, <1>2, <2>2 DEF TypeOK
    <2>4. PlacesInv'
      BY <1>7, <2>2 DEF PlacesInv, Integrating, IteratingFor
    <2>5. ClockInv'
      BY <1>2, <1>3, <1>5, <2>2, PrecisionParts, IntegrationAssumption DEF ClockInv
    <2>6. EventInv'
      BY <1>2, <1>3, <1>5, <2>2 DEF EventInv, WantsLater
    <2>7. Origin' = m.time_
      BY DEF Origin
    <2>8. EndInv' /\ SpanInv'
      BY <2>2 DEF EndInv, SpanInv, Integrating
    <2>9. ProgressInv'
      BY <1>2, <1>3, <1>4, <1>5, <2>2, <2>7, PrecisionParts
      DEF ProgressInv, IteratingFor, WithinReach, Reached, Least, Greatest
    <2>10. IsOdeint' => IsOdeint
      BY <2>2 DEF IsOdeint, IsDense
    <2>11. IsOdeint => StatesInv'
      BY <2>2 DEF StatesInv, IteratingFor
    <2>12. IsOdeint => SearchInv' /\ HorizonInv'
      BY <2>2 DEF SearchInv, HorizonInv
    <2>13. IsOdeint => ToldInv'
      <3>1. me'.stateEvent_ <=>
               Sign(fmu'.state) # 0 /\ m.saved # 0 /\ Sign(fmu'.state) # m.saved
        BY <2>2, EventIsOpposite DEF Indicators
      <3>2. Sign(fmu'.state) \in {-1, 0, 1}
        BY SignType
      <3> QED BY <1>3, <1>7, <2>2, <3>1, <3>2, SignsStay DEF ToldInv, Integrating, SavedActed
    <2>14. IsOdeint => ScheduleInv'
      BY <1>2, <1>3, <1>5, <2>2 DEF ScheduleInv, Integrating, Wanted, Due
    <2> QED BY <2>3, <2>4, <2>5, <2>6, <2>8, <2>9, <2>10, <2>11, <2>12, <2>13, <2>14
            DEF RollbackInv, AnyStepperInv, ContractInv, OdeintInv
  <1> QED BY <1>6, <1>7

(* It is kept where events are handled, and where a call returns.          *)
LEMMA HandlingKeeps ==
    ASSUME TypeOK, crossings' = crossings, rb' \in RollbackRecord, left' \in 0 .. MaxReturns,
           ig' = ig, pc' = "iterating",
           fmu' \in FmuRecord, fmu'.more, me' \in HandleRecord,
           call' \in CallRecord, call'.iterations = 0,
           PlacesInv', ProgressInv',
           fmu'.time = me'.time_, me'.time_ < Infinity, me'.tend_ < Infinity,
           rb'.time_ < Infinity, call'.tend + Eighth < Infinity,
           IsOdeint =>
               /\ rb'.state_ = rb'.time_
               /\ call'.then = "rolled" => fmu'.time = rb'.time_
               /\ fmu'.state = fmu'.time \/ (~fmu'.stateless /\ call'.then = "rolled")
    PROVE  RollbackInv'
  <1>1. TypeOK'
    BY DEF TypeOK
  <1>2. ClockInv' /\ EventInv'
    BY DEF ClockInv, EventInv
  <1>3. ContractInv'
    BY DEF ContractInv, EndInv, SpanInv, Integrating
  <1>4. IsOdeint' => IsOdeint
    BY DEF IsOdeint, IsDense
  <1>5. IsOdeint => StatesInv'
    BY DEF StatesInv, IteratingFor
  <1>6. IsOdeint => SearchInv' /\ HorizonInv' /\ ToldInv' /\ ScheduleInv'
    BY DEF SearchInv, HorizonInv, ToldInv, ScheduleInv, Integrating
  <1> QED BY <1>1, <1>2, <1>3, <1>4, <1>5, <1>6 DEF RollbackInv, AnyStepperInv, OdeintInv

LEMMA NoCallBounded == 0 + Eighth < Infinity
  BY RollbackFmuAssumption, PrecisionParts, IntegrationAssumption

LEMMA IdleKeeps ==
    ASSUME TypeOK, crossings' = crossings, rb' \in RollbackRecord, left' \in 0 .. MaxReturns,
           ig' \in IntegratorRecord, ig'.type = ig.type, pc' = "idle",
           fmu' \in FmuRecord, me' \in HandleRecord,
           call' \in CallRecord, call'.tend + Eighth < Infinity,
           me'.upcomingEvent_ => me'.stopBeforeEvent_,
           me'.time_ < Infinity, me'.tend_ < Infinity, rb'.time_ < Infinity,
           fmu'.time = me'.time_ \/ (IsDense /\ ~fmu'.stateless), me'.time_ <= fmu'.next,
           IsOdeint =>
               /\ fmu'.state = fmu'.time /\ rb'.state_ = rb'.time_
               /\ HorizonInv'
               /\ ~me'.blind /\ ~rb'.abandoned /\ ~me'.upcomingEvent_ =>
                      /\ Sign(fmu'.state) \in {0, fmu'.acted}
                      /\ fmu'.stateless => me'.saved = fmu'.acted
               /\ ~rb'.abandoned =>
                      \/ fmu'.time < fmu'.next
                      \/ /\ fmu'.stateless /\ fmu'.time = fmu'.next
                         /\ me'.timeEvent_ /\ me'.upcomingEvent_
    PROVE  RollbackInv'
  <1>1. TypeOK'
    BY DEF TypeOK
  <1>2. PlacesInv'
    BY DEF PlacesInv, Integrating, IteratingFor
  <1>3. ClockInv'
    BY DEF ClockInv, IsDense
  <1>4. EventInv'
    BY DEF EventInv, WantsLater
  <1>5. ContractInv'
    BY DEF ContractInv, EndInv, SpanInv, ProgressInv, Integrating, IteratingFor
  <1>6. IsOdeint' => IsOdeint
    BY DEF IsOdeint, IsDense
  <1>7. IsOdeint => StatesInv'
    BY DEF StatesInv, IteratingFor
  <1>8. IsOdeint => SearchInv' /\ ScheduleInv'
    BY DEF SearchInv, ScheduleInv, Wanted, Due, Integrating
  <1>9. IsOdeint => ToldInv'
    BY SignsStay DEF ToldInv, Integrating, SavedActed
  <1> QED BY <1>1, <1>2, <1>3, <1>4, <1>5, <1>6, <1>7, <1>8, <1>9
          DEF RollbackInv, AnyStepperInv, OdeintInv

LEMMA Rollbacks ==
    ASSUME rb \in RollbackRecord
    PROVE  rb.time_ \in Int /\ rb.state_ \in Int /\ rb.saved \in BOOLEAN
           /\ rb.abandoned \in BOOLEAN /\ rb.used \in BOOLEAN
  BY DEF RollbackRecord

(* An iteration that has ended has told the FMU everything.                *)
LEMMA IteratedEffect ==
    ASSUME RollbackInv, Iterated
    PROVE  /\ Continuous \in FmuRecord
           /\ Continuous.time = fmu.time /\ Continuous.state = fmu.state
           /\ Continuous.stateless = fmu.stateless
           /\ Continuous.acted = fmu.acted /\ Continuous.next = fmu.next
           /\ fmu.time < fmu.next /\ fmu.time = me.time_
           /\ IsOdeint => Told
  <1>1. TypeOK /\ AnyStepperInv /\ (IsOdeint => OdeintInv)
    BY DEF RollbackInv
  <1>2. pc = "iterating" /\ ~GoesOn
    BY DEF Iterated
  <1>3. ~(fmu.more /\ call.iterations = 0)
    BY <1>2, ModelExchangeAssumption DEF GoesOn
  <1>4. fmu.time < fmu.next /\ (IsOdeint => Told)
    BY <1>1, <1>2, <1>3 DEF AnyStepperInv, EventInv, OdeintInv, ToldInv
  <1>5. fmu.time = me.time_
    BY <1>1, <1>2 DEF AnyStepperInv, ClockInv
  <1>6. fmu \in FmuRecord
    BY <1>1 DEF TypeOK
  <1> QED BY <1>4, <1>5, <1>6, ContinuousEffect

-----------------------------------------------------------------------------
(* The steps of the handle.                                                *)

LEMMA IterateKeeps ==
    ASSUME RollbackInv, Iterate, UNCHANGED <<rb, left>>
    PROVE  RollbackInv'
  <1>1. TypeOK /\ AnyStepperInv /\ (IsOdeint => OdeintInv)
    BY DEF RollbackInv
  <1>2. /\ pc = "iterating" /\ GoesOn /\ fmu' \in NewDiscreteStates(fmu)
        /\ call' = [call EXCEPT !.iterations = IF me.version = 2 THEN @ + 1 ELSE @]
        /\ me' = me /\ ig' = ig /\ pc' = pc /\ crossings' = crossings /\ rb' = rb /\ left' = left
    BY DEF Iterate
  <1>3. fmu \in FmuRecord /\ me \in HandleRecord /\ call \in CallRecord
    BY <1>1 DEF TypeOK
  <1>4. /\ fmu' \in FmuRecord /\ fmu'.time = fmu.time /\ fmu'.state = fmu.state
        /\ fmu'.stateless = fmu.stateless
        /\ fmu'.acted = IF Indicators(fmu) = 0 THEN fmu.acted ELSE Indicators(fmu)
        /\ fmu.time < fmu'.next \/ fmu'.next = Infinity
    BY <1>2, <1>3, NewDiscreteStatesEffect
  <1>5. /\ call' \in CallRecord /\ call'.then = call.then /\ call'.tend = call.tend
        /\ call'.before = call.before
    <2>1. PICK n : n = IF me.version = 2 THEN call.iterations + 1 ELSE call.iterations
      OBVIOUS
    <2>2. n \in 0 .. MaxEventIterations
      <3>1. call.iterations \in 0 .. MaxEventIterations
        BY <1>3 DEF CallRecord
      <3> QED BY <1>2, <2>1, <3>1, ModelExchangeAssumption DEF GoesOn
    <2>3. call' = [call EXCEPT !.iterations = n]
      BY <1>2, <2>1
    <2>4. call' \in CallRecord
      BY <1>3, <2>2, <2>3 DEF CallRecord
    <2> QED BY <1>3, <2>3, <2>4 DEF CallRecord
  <1>6. TypeOK'
    BY <1>1, <1>2, <1>4, <1>5 DEF TypeOK
  <1>7. PlacesInv'
    BY <1>1, <1>2, <1>4, <1>5 DEF AnyStepperInv, PlacesInv, Integrating, IteratingFor
  <1>8. fmu.time = me.time_ /\ me.time_ < Infinity
    BY <1>1, <1>2 DEF AnyStepperInv, ClockInv
  <1>9. ClockInv'
    BY <1>1, <1>2, <1>4, <1>5, <1>8 DEF AnyStepperInv, ClockInv
  <1>10. EventInv'
    BY <1>2, <1>4, <1>8 DEF EventInv
  <1>11. Origin' = Origin
    BY <1>5 DEF Origin
  <1>12. ContractInv'
    <2>1. EndInv' /\ SpanInv'
      BY <1>2 DEF EndInv, SpanInv, Integrating
    <2>2. ProgressInv'
      BY <1>1, <1>2, <1>5, <1>11
      DEF AnyStepperInv, ContractInv, ProgressInv, IteratingFor, WithinReach
    <2> QED BY <2>1, <2>2 DEF ContractInv
  <1>13. IsOdeint' => IsOdeint
    BY <1>2 DEF IsOdeint, IsDense
  <1>14. IsOdeint => StatesInv'
    BY <1>1, <1>2, <1>4, <1>5 DEF OdeintInv, StatesInv, IteratingFor
  <1>15. IsOdeint => SearchInv' /\ HorizonInv' /\ ScheduleInv'
    BY <1>2 DEF SearchInv, HorizonInv, ScheduleInv, Integrating
  <1>16. IsOdeint => ToldInv'
    <2>1. Sign(fmu'.state) \in {0, fmu'.acted}
      BY <1>4 DEF Indicators
    <2>2. Told'
      BY <1>2, <1>3, <1>4, <2>1, SignsStay
    <2> QED BY <1>2, <2>2 DEF ToldInv, Integrating
  <1> QED BY <1>6, <1>7, <1>9, <1>10, <1>12, <1>13, <1>14, <1>15, <1>16
          DEF RollbackInv, AnyStepperInv, OdeintInv

LEMMA StartAfterEventKeeps ==
    ASSUME RollbackInv, StartAfterEvent, UNCHANGED <<rb, left>>
    PROVE  RollbackInv'
  <1> DEFINE m == SteppedOver(Continuous)
  <1>1. TypeOK /\ AnyStepperInv /\ (IsOdeint => OdeintInv)
    BY DEF RollbackInv
  <1>2. /\ pc = "iterating" /\ Iterated /\ call.then = "start"
        /\ Start(Continuous, m, call.tend, call.dt)
        /\ crossings' = crossings /\ call' = call /\ rb' = rb /\ left' = left
    BY DEF StartAfterEvent, Iterated
  <1>3. fmu \in FmuRecord /\ me \in HandleRecord /\ call \in CallRecord
        /\ rb \in RollbackRecord /\ left \in 0 .. MaxReturns
    BY <1>1 DEF TypeOK
  <1>4. /\ Continuous \in FmuRecord
        /\ Continuous.time = fmu.time /\ Continuous.state = fmu.state
        /\ Continuous.stateless = fmu.stateless
        /\ Continuous.acted = fmu.acted /\ Continuous.next = fmu.next
        /\ fmu.time < fmu.next /\ fmu.time = me.time_
        /\ IsOdeint => Told
    BY <1>2, IteratedEffect
  <1>5. /\ m \in HandleRecord /\ m.saved = Indicators(Continuous)
        /\ m.blind = (me.blind \/ Indicators(Continuous) = 0)
        /\ ~m.upcomingEvent_ /\ SameHandle(m, me)
    BY <1>3, <1>4, SteppedOverEffect
  <1> HIDE DEF m
  <1>6. Indicators(Continuous) = Indicators(fmu)
    BY <1>4 DEF Indicators
  <1>7. me.time_ = Origin
    BY <1>1, <1>2 DEF AnyStepperInv, ContractInv, ProgressInv, IteratingFor
  <1>8. me.time_ < Infinity /\ me.tend_ < Infinity /\ rb.time_ < Infinity
        /\ call.tend + Eighth < Infinity
    BY <1>1 DEF AnyStepperInv, ClockInv
  <1>9. IsOdeint => fmu.state = fmu.time /\ rb.state_ = rb.time_
    BY <1>1, <1>2 DEF OdeintInv, StatesInv, IteratingFor
  <1>10. fmu.time \in Int /\ fmu.next \in Nat
    BY <1>3 DEF FmuRecord
  <1>11. m.time_ = IF call.before.upcoming THEN call.before.until ELSE call.before.time
    BY <1>5, <1>7 DEF Origin, SameHandle
  <1>12. m.time_ <= Continuous.next /\ Continuous.time = m.time_
         /\ m.time_ < Infinity /\ m.tend_ < Infinity
    BY <1>4, <1>5, <1>8, <1>10 DEF SameHandle
  <1>13. IsOdeint =>
            /\ Continuous.state = Continuous.time /\ rb'.state_ = rb'.time_
            /\ ~rb'.abandoned => Continuous.time < Continuous.next
            /\ ~m.blind /\ ~rb'.abandoned =>
                   /\ Indicators(Continuous) \in {0, Continuous.acted}
                   /\ Continuous.stateless => m.saved = Continuous.acted
    BY <1>2, <1>4, <1>5, <1>6, <1>9 DEF Told
  <1> QED BY <1>1, <1>2, <1>3, <1>4, <1>5, <1>8, <1>11, <1>12, <1>13, StartKeeps

-----------------------------------------------------------------------------
(* The steps of an integration: what they all keep, then each of them.     *)

LEMMA CallBounds ==
    ASSUME RollbackInv
    PROVE  /\ call.tend \in Int /\ Origin \in Int /\ ig.end \in Int /\ fmu.next \in Int
           /\ ig.info.tLower \in Int /\ ig.info.tUpper \in Int
           /\ Integrating =>
                  /\ Origin <= fmu.next /\ Origin < Infinity
                  /\ ig.end <= call.tend /\ ig.end < fmu.next /\ ig.end < Infinity
                  /\ Least(Origin, call.tend) - Half <= ig.end
                  /\ me.tnextevent_ = fmu.next
                  /\ IF me.timeEvent_ THEN ig.end = fmu.next - Half /\ fmu.next <= call.tend
                     ELSE ig.end = call.tend /\ call.tend < fmu.next
  <1>1. TypeOK /\ ClockInv /\ EndInv
    BY DEF RollbackInv, AnyStepperInv, ContractInv
  <1>2. call \in CallRecord /\ fmu \in FmuRecord /\ ig \in IntegratorRecord
    BY <1>1 DEF TypeOK
  <1>3. call.tend \in Int /\ call.before \in
            [time : Int, until : Int, upcoming : BOOLEAN, event : BOOLEAN]
    BY <1>2 DEF CallRecord
  <1>4. Origin \in Int
    BY <1>3 DEF Origin
  <1>5. fmu.next \in Int /\ ig.end \in Int
        /\ ig.info.tLower \in Int /\ ig.info.tUpper \in Int
    BY <1>2, IntegratorFields DEF FmuRecord
  <1>6. call.tend + Eighth < Infinity
    BY <1>1 DEF ClockInv
  <1>7. ASSUME Integrating
        PROVE  /\ Origin <= fmu.next /\ Origin < Infinity
               /\ me.tnextevent_ = fmu.next
               /\ IF me.timeEvent_ THEN ig.end = fmu.next - Half /\ fmu.next <= call.tend
                  ELSE ig.end = call.tend /\ call.tend < fmu.next
    BY <1>1, <1>7 DEF EndInv
  <1>8. ASSUME Integrating
        PROVE  ig.end <= call.tend /\ ig.end < fmu.next /\ ig.end < Infinity
    BY <1>3, <1>5, <1>6, <1>7, <1>8, PrecisionParts, IntegrationAssumption
  <1>9. ASSUME Integrating
        PROVE  Least(Origin, call.tend) - Half <= ig.end
    BY <1>3, <1>4, <1>5, <1>7, <1>9, PrecisionParts DEF Least
  <1> QED BY <1>3, <1>4, <1>5, <1>7, <1>8, <1>9

LEMMA IntegrationKeeps ==
    ASSUME RollbackInv, Integrating, UNCHANGED <<call, rb, left, crossings>>,
           pc' \in {"stepping", "searching", "integrated"},
           ig' \in IntegratorRecord, ig'.type = ig.type, ig'.end = ig.end,
           NEW t \in Int, NEW s \in Int, Moved(t, s), t < Infinity
    PROVE  /\ TypeOK' /\ PlacesInv' /\ ClockInv' /\ EventInv' /\ EndInv'
           /\ Origin' = Origin /\ (IsOdeint' <=> IsOdeint)
  <1>1. TypeOK /\ PlacesInv /\ ClockInv /\ EventInv /\ EndInv
    BY DEF RollbackInv, AnyStepperInv, ContractInv
  <1>2. /\ fmu' \in FmuRecord /\ fmu'.time = t /\ fmu'.state = s
        /\ fmu'.stateless = fmu.stateless /\ fmu'.acted = fmu.acted /\ fmu'.next = fmu.next
        /\ me' \in HandleRecord /\ me'.time_ = t /\ me'.tend_ = me.tend_
        /\ me'.stopBeforeEvent_ = me.stopBeforeEvent_ /\ me'.upcomingEvent_ = me.upcomingEvent_
        /\ me'.timeEvent_ = me.timeEvent_ /\ me'.tnextevent_ = me.tnextevent_
    BY DEF Moved
  <1>3. TypeOK'
    BY <1>1, <1>2 DEF TypeOK
  <1>4. PlacesInv'
    BY <1>1, <1>2 DEF PlacesInv, Integrating, IteratingFor
  <1>5. ClockInv'
    BY <1>1, <1>2 DEF ClockInv
  <1>6. EventInv'
    BY DEF EventInv
  <1>7. Origin' = Origin
    BY DEF Origin
  <1>8. EndInv'
    BY <1>1, <1>2, <1>7 DEF EndInv, Integrating
  <1>9. IsOdeint' <=> IsOdeint
    BY DEF IsOdeint, IsDense
  <1> QED BY <1>3, <1>4, <1>5, <1>6, <1>7, <1>8, <1>9

(* A step that leaves the sign as it was saved, or zero.                   *)
LEMMA OdeintKeeps ==
    ASSUME RollbackInv, IsOdeint, Integrating, UNCHANGED <<call, rb, left, crossings>>,
           pc' \in {"stepping", "searching", "integrated"},
           NEW t \in Int, NEW s \in Int, Moved(t, s),
           s = t, t = fmu.time \/ t <= ig.end,
           Sign(s) = 0 \/ me.saved = 0 \/ Sign(s) = me.saved
    PROVE  HorizonInv' /\ ToldInv' /\ ScheduleInv' /\ ~CheckStateEvent(me, fmu)'
           /\ fmu'.state = fmu'.time /\ rb'.state_ = rb'.time_
  <1>1. TypeOK /\ StatesInv /\ HorizonInv /\ ToldInv /\ ScheduleInv
    BY DEF RollbackInv, OdeintInv
  <1>2. /\ fmu' \in FmuRecord /\ fmu'.time = t /\ fmu'.state = s
        /\ fmu'.acted = fmu.acted /\ fmu'.next = fmu.next
        /\ me' \in HandleRecord /\ me'.saved = me.saved /\ me'.blind = me.blind
    BY DEF Moved
  <1>3. HorizonInv'
    BY DEF HorizonInv
  <1>4. ~CheckStateEvent(me, fmu)'
    BY <1>2, SignsStay
  <1>5. fmu.acted \in {-1, 1}
    BY <1>1 DEF TypeOK, FmuRecord
  <1>6. ToldInv'
    BY <1>1, <1>2, <1>5, SignsStay DEF ToldInv, Integrating, SavedActed
  <1>7. ScheduleInv'
    <2>1. ig.end < fmu.next /\ ig.end \in Int /\ fmu.next \in Int
      BY CallBounds
    <2> QED BY <1>1, <1>2, <2>1 DEF ScheduleInv, Integrating, Wanted
  <1>8. rb'.state_ = rb'.time_
    BY <1>1 DEF StatesInv
  <1> QED BY <1>2, <1>3, <1>4, <1>6, <1>7, <1>8

LEMMA OdeintStepKeeps ==
    ASSUME RollbackInv, NEW h \in 1 .. End, NEW dt \in StepSizes, NEW stepEvent \in BOOLEAN,
           OdeintStep(h, dt, stepEvent), UNCHANGED <<call, rb, left>>
    PROVE  RollbackInv'
  <1>1. TypeOK /\ AnyStepperInv /\ (IsOdeint => OdeintInv)
    BY DEF RollbackInv
  <1>2. PICK t : t = ig.current + h
    OBVIOUS
  <1>3. /\ pc = "stepping" /\ IsOdeint /\ crossings' = crossings
        /\ t \in Int /\ ig.current < t /\ t <= ig.end
        /\ ig' \in IntegratorRecord /\ ig'.type = ig.type /\ ig'.end = ig.end
        /\ \/ /\ CheckStateEvent(me, PutAt(fmu, t, ig.states_ + h))
              /\ pc' = "searching" /\ Moved(ig.current, ig.states_)
              /\ ig'.info.tLower = ig.current /\ ig'.info.tUpper = t /\ ig'.info.stateEvent
              /\ ig'.states_ = ig.states_
           \/ /\ ~CheckStateEvent(me, PutAt(fmu, t, ig.states_ + h))
              /\ pc' = (IF stepEvent \/ t >= ig.end THEN "integrated" ELSE "stepping")
              /\ Moved(t, ig.states_ + h)
              /\ ~ig'.info.stateEvent /\ ig'.info.stepEvent = stepEvent
              /\ ig'.current = t /\ ig'.states_ = ig.states_ + h
    BY <1>1, <1>2, OdeintStepEffect
  <1>4. Integrating
    BY <1>3 DEF Integrating
  <1>5. /\ call.tend \in Int /\ Origin \in Int /\ ig.end \in Int /\ fmu.next \in Int
        /\ Origin <= fmu.next /\ ig.end <= call.tend /\ ig.end < fmu.next /\ ig.end < Infinity
        /\ me.timeEvent_ \/ ig.end = call.tend
    BY <1>1, <1>4, CallBounds
  <1>6. /\ fmu \in FmuRecord /\ me \in HandleRecord /\ ig.current \in Int
        /\ h \in Int /\ me.saved \in {-1, 0, 1}
    BY <1>1, IntegratorFields, RollbackFmuAssumption DEF TypeOK, HandleRecord
  <1>7. ig.current = me.time_ /\ Origin <= me.time_ /\ me.time_ <= Greatest(Origin, ig.end)
    BY <1>1, <1>3 DEF AnyStepperInv, ContractInv, ProgressInv
  <1>8. fmu.time = me.time_ /\ fmu.state = fmu.time /\ ig.states_ = fmu.time
        /\ me.time_ < Infinity
    BY <1>1, <1>3 DEF AnyStepperInv, ClockInv, OdeintInv, StatesInv, IteratingFor, IsOdeint
  <1>9. Sign(fmu.time) = 0 \/ me.saved = 0 \/ Sign(fmu.time) = me.saved
    BY <1>1, <1>3, <1>6, <1>8, EventIsOpposite DEF OdeintInv, SearchInv, Indicators
  <1>10. PutAt(fmu, t, t) \in FmuRecord /\ PutAt(fmu, t, t).state = t
    BY <1>3, <1>6, PutAtEffect
  <1>11. ig.states_ + h = t
    BY <1>2, <1>7, <1>8
  <1>12. CASE /\ CheckStateEvent(me, PutAt(fmu, t, t))
              /\ pc' = "searching" /\ Moved(ig.current, ig.states_)
              /\ ig'.info.tLower = ig.current /\ ig'.info.tUpper = t /\ ig'.info.stateEvent
              /\ ig'.states_ = ig.states_
    <2>1. Moved(fmu.time, fmu.time) /\ fmu.time \in Int
      BY <1>6, <1>7, <1>8, <1>12
    <2>2. /\ TypeOK' /\ PlacesInv' /\ ClockInv' /\ EventInv' /\ EndInv'
          /\ Origin' = Origin /\ (IsOdeint' <=> IsOdeint)
      BY <1>3, <1>4, <1>8, <1>12, <2>1, IntegrationKeeps
    <2>3. HorizonInv' /\ ToldInv' /\ ScheduleInv' /\ ~CheckStateEvent(me, fmu)'
          /\ fmu'.state = fmu'.time /\ rb'.state_ = rb'.time_
      BY <1>3, <1>4, <1>9, <1>12, <2>1, OdeintKeeps
    <2>4. me'.time_ = fmu.time /\ fmu'.time = fmu.time /\ me'.saved = me.saved
          /\ fmu' \in FmuRecord /\ me' \in HandleRecord
      BY <2>1 DEF Moved
    <2>5. SpanInv'
      BY <1>3, <1>5, <1>7, <1>8, <1>12, <2>1, <2>2, PrecisionParts
      DEF SpanInv, Least, Greatest
    <2>6. ProgressInv'
      BY <1>3, <1>5, <1>7, <1>8, <1>12, <2>1, <2>2, <2>4, PrecisionParts
      DEF ProgressInv, IteratingFor, WithinReach, Least, Greatest
    <2>7. StatesInv'
      BY <1>7, <1>8, <1>12, <2>3, <2>4 DEF StatesInv, IteratingFor
    <2>8. Sign(t) # 0 /\ me.saved # 0 /\ Sign(t) # me.saved
      BY <1>6, <1>10, <1>12, EventIsOpposite DEF Indicators
    <2>9. SearchInv'
      BY <1>3, <1>12, <2>3, <2>4, <2>8, SignsStay DEF SearchInv
    <2> QED BY <2>2, <2>3, <2>5, <2>6, <2>7, <2>9
            DEF RollbackInv, AnyStepperInv, ContractInv, OdeintInv
  <1>13. CASE /\ ~CheckStateEvent(me, PutAt(fmu, t, t))
              /\ pc' = (IF stepEvent \/ t >= ig.end THEN "integrated" ELSE "stepping")
              /\ Moved(t, t)
              /\ ~ig'.info.stateEvent /\ ig'.info.stepEvent = stepEvent
              /\ ig'.current = t /\ ig'.states_ = t
    <2>1. pc' \in {"stepping", "integrated"}
          /\ (pc' = "integrated" => stepEvent \/ t = ig.end)
      BY <1>3, <1>5, <1>13
    <2>2. t < Infinity
      BY <1>3, <1>5, IntegrationAssumption
    <2>3. /\ TypeOK' /\ PlacesInv' /\ ClockInv' /\ EventInv' /\ EndInv'
          /\ Origin' = Origin /\ (IsOdeint' <=> IsOdeint)
      BY <1>3, <1>4, <1>13, <2>1, <2>2, IntegrationKeeps
    <2>4. Sign(t) = 0 \/ me.saved = 0 \/ Sign(t) = me.saved
      BY <1>6, <1>10, <1>13, EventIsOpposite DEF Indicators
    <2>5. HorizonInv' /\ ToldInv' /\ ScheduleInv' /\ ~CheckStateEvent(me, fmu)'
          /\ fmu'.state = fmu'.time /\ rb'.state_ = rb'.time_
      BY <1>3, <1>4, <1>13, <2>1, <2>4, OdeintKeeps
    <2>6. me'.time_ = t /\ fmu'.time = t /\ me'.timeEvent_ = me.timeEvent_
          /\ fmu'.next = fmu.next
      BY <1>13 DEF Moved
    <2>7. SpanInv'
      BY <1>13, <2>1 DEF SpanInv
    <2>8. ProgressInv'
      BY <1>3, <1>5, <1>6, <1>7, <1>13, <2>1, <2>3, <2>6, PrecisionParts
      DEF ProgressInv, IteratingFor, WithinReach, Reached, Least, Greatest
    <2>9. StatesInv' /\ SearchInv'
      BY <1>13, <2>1, <2>5, <2>6 DEF StatesInv, IteratingFor, SearchInv
    <2> QED BY <2>3, <2>5, <2>7, <2>8, <2>9
            DEF RollbackInv, AnyStepperInv, ContractInv, OdeintInv
  <1> QED BY <1>3, <1>11, <1>12, <1>13

LEMMA OdeintDoneKeeps ==
    ASSUME RollbackInv, OdeintDone, UNCHANGED <<call, rb, left>>
    PROVE  RollbackInv'
  <1>1. TypeOK /\ AnyStepperInv /\ (IsOdeint => OdeintInv)
    BY DEF RollbackInv
  <1>2. /\ pc = "stepping" /\ IsOdeint /\ ig.current >= ig.end
        /\ ig' \in IntegratorRecord /\ ig'.type = ig.type /\ ~ig'.info.stateEvent
        /\ ig'.end = ig.end
        /\ pc' = "integrated" /\ UNCHANGED <<fmu, me, crossings>>
    BY <1>1, OdeintDoneEffect
  <1>3. Integrating
    BY <1>2 DEF Integrating
  <1>4. /\ call.tend \in Int /\ Origin \in Int /\ ig.end \in Int /\ fmu.next \in Int
        /\ Origin <= fmu.next /\ ig.end <= call.tend /\ ig.end < fmu.next
        /\ me.timeEvent_ \/ ig.end = call.tend
    BY <1>1, <1>3, CallBounds
  <1>5. /\ fmu \in FmuRecord /\ me \in HandleRecord /\ fmu.time \in Int
        /\ me.saved \in {-1, 0, 1}
    BY <1>1 DEF TypeOK, FmuRecord, HandleRecord
  <1>6. ig.current = me.time_ /\ Origin <= me.time_ /\ me.time_ <= Greatest(Origin, ig.end)
    BY <1>1, <1>2 DEF AnyStepperInv, ContractInv, ProgressInv
  <1>7. fmu.time = me.time_ /\ fmu.state = fmu.time /\ me.time_ < Infinity
    BY <1>1, <1>2 DEF AnyStepperInv, ClockInv, OdeintInv, StatesInv, IteratingFor, IsOdeint
  <1>8. Sign(fmu.time) = 0 \/ me.saved = 0 \/ Sign(fmu.time) = me.saved
    BY <1>1, <1>2, <1>5, <1>7, EventIsOpposite DEF OdeintInv, SearchInv, Indicators
  <1>9. Moved(fmu.time, fmu.time)
    BY <1>2, <1>5, <1>7 DEF Moved
  <1>10. /\ TypeOK' /\ PlacesInv' /\ ClockInv' /\ EventInv' /\ EndInv'
         /\ Origin' = Origin /\ (IsOdeint' <=> IsOdeint)
    BY <1>2, <1>3, <1>5, <1>7, <1>9, IntegrationKeeps
  <1>11. HorizonInv' /\ ToldInv' /\ ScheduleInv' /\ fmu'.state = fmu'.time
         /\ rb'.state_ = rb'.time_
    BY <1>2, <1>3, <1>5, <1>8, <1>9, OdeintKeeps
  <1>12. SpanInv'
    BY <1>2 DEF SpanInv
  <1>13. ProgressInv'
    BY <1>2, <1>4, <1>5, <1>6, <1>7, <1>10, PrecisionParts
    DEF ProgressInv, IteratingFor, WithinReach, Reached, Least, Greatest
  <1>14. StatesInv' /\ SearchInv'
    BY <1>2, <1>11 DEF StatesInv, IteratingFor, SearchInv
  <1> QED BY <1>10, <1>11, <1>12, <1>13, <1>14
          DEF RollbackInv, AnyStepperInv, ContractInv, OdeintInv

LEMMA DenseStepKeeps ==
    ASSUME RollbackInv, NEW h \in StepSizes, NEW stepEvent \in BOOLEAN,
           DenseStep(h, stepEvent), UNCHANGED <<call, rb, left>>
    PROVE  RollbackInv'
  <1>1. TypeOK /\ AnyStepperInv
    BY DEF RollbackInv
  <1>2. PICK t : t = ig.current + h
    OBVIOUS
  <1>3. /\ pc = "stepping" /\ IsDense /\ crossings' = crossings
        /\ t \in Int /\ ig.current < t
        /\ ig' \in IntegratorRecord /\ ig'.type = ig.type /\ ig'.end = ig.end
        /\ \/ /\ pc' = "searching" /\ Moved(ig.current, StateAt(ig.current))
              /\ ig'.info.tLower = ig.current /\ ig'.info.tUpper = t /\ ig'.info.stateEvent
           \/ /\ pc' = "integrated" /\ Moved(ig.end, StateAt(ig.end))
              /\ ~ig'.info.stateEvent
           \/ /\ pc' = IF stepEvent THEN "integrated" ELSE "stepping"
              /\ t < ig.end /\ Moved(t, StateAt(t)) /\ ig'.current = t
              /\ stepEvent => ig'.info.stepEvent /\ ~ig'.info.stateEvent
    BY <1>1, <1>2, DenseStepEffect
  <1>4. Integrating
    BY <1>3 DEF Integrating
  <1>5. /\ call.tend \in Int /\ Origin \in Int /\ ig.end \in Int /\ fmu.next \in Int
        /\ Origin <= fmu.next /\ ig.end <= call.tend /\ ig.end < fmu.next /\ ig.end < Infinity
        /\ Least(Origin, call.tend) - Half <= ig.end
        /\ me.timeEvent_ \/ ig.end = call.tend
    BY <1>4, CallBounds
  <1>6. ig \in IntegratorRecord /\ ig.current \in Int /\ Infinity \in Int
    BY <1>1, IntegratorFields, IntegrationAssumption DEF TypeOK
  <1>7. StateAt(ig.current) \in Int /\ StateAt(ig.end) \in Int /\ StateAt(t) \in Int
    BY <1>3, <1>5, <1>6, StateAtType
  <1>8. ig.current = me.time_ /\ Origin <= me.time_ /\ me.time_ <= Greatest(Origin, ig.end)
        /\ me.time_ < Infinity
    BY <1>1, <1>3 DEF AnyStepperInv, ClockInv, ContractInv, ProgressInv
  <1>9. ~IsOdeint
    BY <1>3 DEF IsOdeint
  <1>10. CASE /\ pc' = "searching" /\ Moved(ig.current, StateAt(ig.current))
              /\ ig'.info.tLower = ig.current /\ ig'.info.tUpper = t /\ ig'.info.stateEvent
    <2>1. /\ TypeOK' /\ PlacesInv' /\ ClockInv' /\ EventInv' /\ EndInv'
          /\ Origin' = Origin /\ (IsOdeint' <=> IsOdeint)
      BY <1>3, <1>4, <1>6, <1>7, <1>8, <1>10, IntegrationKeeps
    <2>2. me'.time_ = ig.current
      BY <1>10 DEF Moved
    <2>3. SpanInv'
      BY <1>3, <1>5, <1>6, <1>8, <1>10, <2>1, PrecisionParts DEF SpanInv, Least, Greatest
    <2>4. ProgressInv'
      BY <1>3, <1>5, <1>6, <1>8, <1>10, <2>1, <2>2, PrecisionParts
      DEF ProgressInv, IteratingFor, WithinReach, Least, Greatest
    <2> QED BY <1>9, <2>1, <2>3, <2>4 DEF RollbackInv, AnyStepperInv, ContractInv
  <1>11. CASE /\ pc' = "integrated" /\ Moved(ig.end, StateAt(ig.end)) /\ ~ig'.info.stateEvent
    <2>1. /\ TypeOK' /\ PlacesInv' /\ ClockInv' /\ EventInv' /\ EndInv'
          /\ Origin' = Origin /\ (IsOdeint' <=> IsOdeint)
      BY <1>3, <1>4, <1>5, <1>7, <1>11, IntegrationKeeps
    <2>2. me'.time_ = ig.end /\ fmu'.next = fmu.next /\ me'.timeEvent_ = me.timeEvent_
      BY <1>11 DEF Moved
    <2>3. SpanInv'
      BY <1>11 DEF SpanInv
    <2>4. ProgressInv'
      BY <1>3, <1>5, <1>11, <2>1, <2>2, PrecisionParts
      DEF ProgressInv, IteratingFor, WithinReach, Reached, Least, Greatest
    <2> QED BY <1>9, <2>1, <2>3, <2>4 DEF RollbackInv, AnyStepperInv, ContractInv
  <1>12. CASE /\ pc' = IF stepEvent THEN "integrated" ELSE "stepping"
              /\ t < ig.end /\ Moved(t, StateAt(t)) /\ ig'.current = t
              /\ stepEvent => ig'.info.stepEvent /\ ~ig'.info.stateEvent
    <2>1. pc' \in {"stepping", "integrated"} /\ t < Infinity
          /\ (pc' = "integrated" => ig'.info.stepEvent /\ ~ig'.info.stateEvent)
      BY <1>3, <1>5, <1>6, <1>12
    <2>2. /\ TypeOK' /\ PlacesInv' /\ ClockInv' /\ EventInv' /\ EndInv'
          /\ Origin' = Origin /\ (IsOdeint' <=> IsOdeint)
      BY <1>3, <1>4, <1>7, <1>12, <2>1, IntegrationKeeps
    <2>3. me'.time_ = t
      BY <1>12 DEF Moved
    <2>4. SpanInv'
      BY <2>1 DEF SpanInv
    <2>5. ProgressInv'
      BY <1>3, <1>5, <1>6, <1>8, <1>12, <2>1, <2>2, <2>3, PrecisionParts
      DEF ProgressInv, IteratingFor, WithinReach, Least, Greatest
    <2> QED BY <1>9, <2>2, <2>4, <2>5 DEF RollbackInv, AnyStepperInv, ContractInv
  <1> QED BY <1>3, <1>10, <1>11, <1>12

(* The end of the interval is where the search begins anew, or where there *)
(* is no event any more. An odeint stepper never steps over it.            *)
LEMMA ClipKeeps ==
    ASSUME RollbackInv, Clip, UNCHANGED <<call, rb, left>>
    PROVE  RollbackInv'
  <1>1. TypeOK /\ AnyStepperInv /\ (IsOdeint => OdeintInv)
    BY DEF RollbackInv
  <1>2. /\ pc = "searching" /\ crossings' = crossings /\ ig.end < ig.info.tUpper
        /\ \E state \in Int : Moved(ig.end, state)
        /\ ig' \in IntegratorRecord /\ ig'.type = ig.type /\ ig'.end = ig.end
        /\ \/ /\ pc' = "searching"
              /\ ig'.info.tLower = ig.info.tLower /\ ig'.info.tUpper = ig.end
              /\ ig'.info.stateEvent = ig.info.stateEvent
           \/ pc' = "integrated" /\ ~ig'.info.stateEvent
    BY <1>1, ClipEffect
  <1>3. Integrating
    BY <1>2 DEF Integrating
  <1>4. /\ call.tend \in Int /\ Origin \in Int /\ ig.end \in Int /\ fmu.next \in Int
        /\ ig.info.tLower \in Int /\ ig.info.tUpper \in Int
        /\ Origin <= fmu.next /\ ig.end <= call.tend /\ ig.end < fmu.next /\ ig.end < Infinity
        /\ Least(Origin, call.tend) - Half <= ig.end
        /\ IF me.timeEvent_ THEN ig.end = fmu.next - Half ELSE ig.end = call.tend
    BY <1>3, CallBounds
  <1>5. ~IsOdeint
    BY <1>1, <1>2, <1>4 DEF OdeintInv, SearchInv
  <1>6. PICK state \in Int : Moved(ig.end, state)
    BY <1>2
  <1>7. /\ TypeOK' /\ PlacesInv' /\ ClockInv' /\ EventInv' /\ EndInv'
        /\ Origin' = Origin /\ (IsOdeint' <=> IsOdeint)
    BY <1>2, <1>3, <1>4, <1>6, IntegrationKeeps
  <1>8. me'.time_ = ig.end /\ fmu'.next = fmu.next /\ me'.timeEvent_ = me.timeEvent_
    BY <1>6 DEF Moved
  <1>9. /\ ig.info.stateEvent
        /\ Origin <= ig.info.tLower /\ ig.info.tLower <= Greatest(Origin, ig.end)
    BY <1>1, <1>2 DEF AnyStepperInv, ContractInv, SpanInv
  <1>10. Least(ig.info.tLower, call.tend) - Half <= ig.end
    BY <1>4, <1>9, PrecisionParts DEF Least, Greatest
  <1>11. SpanInv'
    BY <1>2, <1>7, <1>9, <1>10 DEF SpanInv, Greatest, Least
  <1>12. ProgressInv'
    BY <1>2, <1>4, <1>7, <1>8, PrecisionParts
    DEF ProgressInv, IteratingFor, WithinReach, Reached, Least, Greatest
  <1> QED BY <1>5, <1>7, <1>11, <1>12 DEF RollbackInv, AnyStepperInv, ContractInv

LEMMA BisectKeeps ==
    ASSUME RollbackInv, Bisect, UNCHANGED <<call, rb, left>>
    PROVE  RollbackInv'
  <1>1. TypeOK /\ AnyStepperInv /\ (IsOdeint => OdeintInv)
    BY DEF RollbackInv
  <1>2. PICK t : t = ig.info.tLower + (ig.info.tUpper - ig.info.tLower) \div 2
    OBVIOUS
  <1>3. PICK s : s = DoStepConst(ig.info.tLower, t)
    OBVIOUS
  <1>4. /\ pc = "searching" /\ pc' = "searching" /\ crossings' = crossings
        /\ ig.info.tUpper <= ig.end
        /\ t \in Int /\ ig.info.tLower < t /\ t < ig.info.tUpper
        /\ ig' \in IntegratorRecord /\ ig'.type = ig.type /\ ig'.end = ig.end
        /\ ig'.info.stateEvent = ig.info.stateEvent
        /\ \/ /\ CheckStateEvent(me, PutAt(fmu, t, s))
              /\ Moved(ig.info.tLower, ig.states_)
              /\ ig'.info.tLower = ig.info.tLower /\ ig'.info.tUpper = t
              /\ ig'.states_ = ig.states_
           \/ /\ ~CheckStateEvent(me, PutAt(fmu, t, s))
              /\ Moved(t, s)
              /\ ig'.info.tLower = t /\ ig'.info.tUpper = ig.info.tUpper
              /\ ig'.states_ = s
    BY <1>1, <1>2, <1>3, BisectEffect
  <1>5. Integrating
    BY <1>4 DEF Integrating
  <1>6. /\ call.tend \in Int /\ Origin \in Int /\ ig.end \in Int
        /\ ig.info.tLower \in Int /\ ig.info.tUpper \in Int
        /\ ig.end <= call.tend /\ ig.end < Infinity /\ Infinity \in Int
    BY <1>5, CallBounds, IntegrationAssumption
  <1>7. /\ fmu \in FmuRecord /\ me \in HandleRecord /\ ig \in IntegratorRecord
        /\ ig.states_ \in Int /\ me.saved \in {-1, 0, 1}
    BY <1>1, IntegratorFields DEF TypeOK, HandleRecord
  <1>8. /\ ig.info.stateEvent
        /\ Origin <= ig.info.tLower /\ ig.info.tLower <= Greatest(Origin, ig.end)
        /\ Least(ig.info.tLower, call.tend) - Half <= ig.info.tUpper
    BY <1>1, <1>4 DEF AnyStepperInv, ContractInv, SpanInv
  <1>9. s \in Int
    BY <1>3, <1>4, <1>6, <1>7, StateAtType DEF DoStepConst
  <1>10. PutAt(fmu, t, s) \in FmuRecord /\ PutAt(fmu, t, s).state = s
    BY <1>4, <1>7, <1>9, PutAtEffect
  <1>11. IsOdeint =>
            /\ ig.info.tLower = fmu.time /\ ig.states_ = fmu.time /\ s = t
            /\ fmu.state = fmu.time
            /\ Sign(fmu.time) = 0 \/ me.saved = 0 \/ Sign(fmu.time) = me.saved
            /\ Sign(ig.info.tUpper) # 0 /\ me.saved # 0 /\ Sign(ig.info.tUpper) # me.saved
    <2> SUFFICES ASSUME IsOdeint
                 PROVE  /\ ig.info.tLower = fmu.time /\ ig.states_ = fmu.time /\ s = t
                        /\ fmu.state = fmu.time
                        /\ Sign(fmu.time) = 0 \/ me.saved = 0 \/ Sign(fmu.time) = me.saved
                        /\ Sign(ig.info.tUpper) # 0 /\ me.saved # 0
                        /\ Sign(ig.info.tUpper) # me.saved
      OBVIOUS
    <2>1. ig.info.tLower = fmu.time /\ ig.states_ = fmu.time /\ fmu.state = fmu.time
      BY <1>1, <1>4 DEF OdeintInv, StatesInv, IteratingFor
    <2>2. s = t
      BY <1>3, <1>4, <1>6, <2>1 DEF DoStepConst, IsOdeint
    <2>3. Sign(ig.info.tUpper) # 0 /\ me.saved # 0 /\ Sign(ig.info.tUpper) # me.saved
          /\ ~CheckStateEvent(me, fmu)
      BY <1>1, <1>4 DEF OdeintInv, SearchInv
    <2>4. Sign(fmu.time) = 0 \/ me.saved = 0 \/ Sign(fmu.time) = me.saved
      BY <1>7, <2>1, <2>3, EventIsOpposite DEF Indicators
    <2> QED BY <2>1, <2>2, <2>3, <2>4
  <1>12. CASE /\ CheckStateEvent(me, PutAt(fmu, t, s))
              /\ Moved(ig.info.tLower, ig.states_)
              /\ ig'.info.tLower = ig.info.tLower /\ ig'.info.tUpper = t
              /\ ig'.states_ = ig.states_
    <2>1. ig.info.tLower < Infinity
      BY <1>4, <1>6
    <2>2. /\ TypeOK' /\ PlacesInv' /\ ClockInv' /\ EventInv' /\ EndInv'
          /\ Origin' = Origin /\ (IsOdeint' <=> IsOdeint)
      BY <1>4, <1>5, <1>6, <1>7, <1>12, <2>1, IntegrationKeeps
    <2>3. me'.time_ = ig.info.tLower /\ fmu'.time = ig.info.tLower /\ me'.saved = me.saved
          /\ fmu' \in FmuRecord /\ me' \in HandleRecord
      BY <1>12 DEF Moved
    <2>4. SpanInv'
      BY <1>4, <1>6, <1>8, <1>12, <2>2, PrecisionParts DEF SpanInv, Least, Greatest
    <2>5. ProgressInv'
      BY <1>4, <1>6, <1>8, <2>2, <2>3, PrecisionParts
      DEF ProgressInv, IteratingFor, WithinReach, Least, Greatest
    <2>6. IsOdeint => OdeintInv'
      <3> SUFFICES ASSUME IsOdeint PROVE OdeintInv'
        OBVIOUS
      <3>1. HorizonInv' /\ ToldInv' /\ ScheduleInv' /\ ~CheckStateEvent(me, fmu)'
            /\ fmu'.state = fmu'.time /\ rb'.state_ = rb'.time_
        BY <1>4, <1>5, <1>6, <1>7, <1>11, <1>12, OdeintKeeps
      <3>2. StatesInv'
        BY <1>4, <1>11, <1>12, <2>3, <3>1 DEF StatesInv, IteratingFor
      <3>3. Sign(t) # 0 /\ Sign(t) # me.saved
        BY <1>7, <1>10, <1>11, <1>12, EventIsOpposite DEF Indicators
      <3>4. SearchInv'
        BY <1>4, <1>6, <1>11, <1>12, <2>3, <3>1, <3>3, SignsStay DEF SearchInv
      <3> QED BY <3>1, <3>2, <3>4 DEF OdeintInv
    <2> QED BY <2>2, <2>4, <2>5, <2>6 DEF RollbackInv, AnyStepperInv, ContractInv
  <1>13. CASE /\ ~CheckStateEvent(me, PutAt(fmu, t, s))
              /\ Moved(t, s)
              /\ ig'.info.tLower = t /\ ig'.info.tUpper = ig.info.tUpper
              /\ ig'.states_ = s
    <2>1. t < Infinity
      BY <1>4, <1>6
    <2>2. /\ TypeOK' /\ PlacesInv' /\ ClockInv' /\ EventInv' /\ EndInv'
          /\ Origin' = Origin /\ (IsOdeint' <=> IsOdeint)
      BY <1>4, <1>5, <1>9, <1>13, <2>1, IntegrationKeeps
    <2>3. me'.time_ = t /\ fmu'.time = t /\ me'.saved = me.saved
          /\ fmu' \in FmuRecord /\ me' \in HandleRecord
      BY <1>13 DEF Moved
    <2>4. SpanInv'
      BY <1>4, <1>6, <1>8, <1>13, <2>2, PrecisionParts DEF SpanInv, Least, Greatest
    <2>5. ProgressInv'
      BY <1>4, <1>6, <1>8, <2>2, <2>3, PrecisionParts
      DEF ProgressInv, IteratingFor, WithinReach, Least, Greatest
    <2>6. IsOdeint => OdeintInv'
      <3> SUFFICES ASSUME IsOdeint PROVE OdeintInv'
        OBVIOUS
      <3>1. Sign(s) = 0 \/ me.saved = 0 \/ Sign(s) = me.saved
        BY <1>7, <1>10, <1>13, EventIsOpposite DEF Indicators
      <3>2. t <= ig.end
        BY <1>4, <1>6
      <3>3. HorizonInv' /\ ToldInv' /\ ScheduleInv' /\ ~CheckStateEvent(me, fmu)'
            /\ fmu'.state = fmu'.time /\ rb'.state_ = rb'.time_
        BY <1>4, <1>5, <1>9, <1>11, <1>13, <3>1, <3>2, OdeintKeeps
      <3>4. StatesInv'
        BY <1>4, <1>11, <1>13, <2>3, <3>3 DEF StatesInv, IteratingFor
      <3>5. SearchInv'
        BY <1>4, <1>6, <1>11, <1>13, <2>3, <3>3, SignsStay DEF SearchInv
      <3> QED BY <3>3, <3>4, <3>5 DEF OdeintInv
    <2> QED BY <2>2, <2>4, <2>5, <2>6 DEF RollbackInv, AnyStepperInv, ContractInv
  <1> QED BY <1>4, <1>12, <1>13

LEMMA LocatedKeeps ==
    ASSUME RollbackInv, Located, UNCHANGED <<call, rb, left>>
    PROVE  RollbackInv'
  <1>1. TypeOK /\ AnyStepperInv /\ (IsOdeint => OdeintInv)
    BY DEF RollbackInv
  <1>2. /\ pc = "searching" /\ pc' = "integrated" /\ UNCHANGED <<fmu, me, crossings>>
        /\ ig.info.tUpper <= ig.end /\ ig.info.tUpper - ig.info.tLower <= Half
        /\ ig' \in IntegratorRecord /\ ig'.type = ig.type /\ ig'.end = ig.end
        /\ ig'.info.tLower = ig.info.tLower /\ ig'.info.tUpper = ig.info.tUpper + Eighth
        /\ ig'.info.stateEvent = ig.info.stateEvent
    BY <1>1, LocatedEffect
  <1>3. Integrating
    BY <1>2 DEF Integrating
  <1>4. /\ call.tend \in Int /\ Origin \in Int /\ ig.end \in Int
        /\ ig.info.tLower \in Int /\ ig.info.tUpper \in Int /\ ig.end <= call.tend
    BY <1>3, CallBounds
  <1>5. /\ fmu \in FmuRecord /\ me \in HandleRecord /\ fmu.time \in Int /\ fmu.state \in Int
        /\ me.saved \in {-1, 0, 1} /\ crossings \in Crossings
    BY <1>1 DEF TypeOK, FmuRecord, HandleRecord
  <1>6. /\ ig.info.stateEvent
        /\ Origin <= ig.info.tLower /\ ig.info.tLower <= Greatest(Origin, ig.end)
        /\ Least(ig.info.tLower, call.tend) - Half <= ig.info.tUpper
        /\ WithinReach(me.time_)
    BY <1>1, <1>2 DEF AnyStepperInv, ContractInv, SpanInv, ProgressInv
  <1>7. fmu.time = me.time_ /\ me.time_ < Infinity
    BY <1>1, <1>2 DEF AnyStepperInv, ClockInv
  <1>8. Moved(fmu.time, fmu.state)
    BY <1>2, <1>5, <1>7 DEF Moved
  <1>9. /\ TypeOK' /\ PlacesInv' /\ ClockInv' /\ EventInv' /\ EndInv'
        /\ Origin' = Origin /\ (IsOdeint' <=> IsOdeint)
    BY <1>2, <1>3, <1>5, <1>7, <1>8, IntegrationKeeps
  <1>10. SpanInv'
    BY <1>2, <1>4, <1>6, <1>9, PrecisionParts DEF SpanInv, Greatest, Least
  <1>11. ProgressInv'
    BY <1>2, <1>6, <1>9 DEF ProgressInv, IteratingFor, WithinReach
  <1>12. IsOdeint => OdeintInv'
    <2> SUFFICES ASSUME IsOdeint PROVE OdeintInv'
      OBVIOUS
    <2>1. ig.info.tLower = fmu.time /\ fmu.state = fmu.time
      BY <1>1, <1>2 DEF OdeintInv, StatesInv, IteratingFor
    <2>2. /\ Sign(ig.info.tUpper) # 0 /\ me.saved # 0 /\ Sign(ig.info.tUpper) # me.saved
          /\ ig.info.tLower < ig.info.tUpper
          /\ ~CheckStateEvent(me, fmu)
      BY <1>1, <1>2 DEF OdeintInv, SearchInv
    <2>3. Sign(fmu.time) = 0 \/ me.saved = 0 \/ Sign(fmu.time) = me.saved
      BY <1>5, <2>1, <2>2, EventIsOpposite DEF Indicators
    <2>4. HorizonInv' /\ ToldInv' /\ ScheduleInv' /\ fmu'.state = fmu'.time
          /\ rb'.state_ = rb'.time_
      BY <1>2, <1>3, <1>5, <1>8, <2>1, <2>3, OdeintKeeps
    <2>5. StatesInv'
      BY <1>2, <2>1, <2>4 DEF StatesInv, IteratingFor
    <2>6. \E c \in crossings : ig.info.tLower <= c /\ c < ig.info.tUpper
      <3>1. Sign(ig.info.tLower) # Sign(ig.info.tUpper)
        BY <2>1, <2>2, <2>3
      <3>2. crossings \in SUBSET Int
        BY <1>5, IntegrationAssumption
      <3> QED BY <1>4, <2>2, <3>1, <3>2, CrossingBetween
    <2>7. \E c \in crossings : ig'.info.tLower <= c /\ c < ig'.info.tUpper
      <3>1. \A c \in crossings : c \in Int
        BY <1>5, IntegrationAssumption
      <3> QED BY <1>2, <1>4, <2>6, <3>1, PrecisionParts
    <2>8. SearchInv'
      BY <1>2, <2>7 DEF SearchInv
    <2> QED BY <2>4, <2>5, <2>8 DEF OdeintInv
  <1> QED BY <1>9, <1>10, <1>11, <1>12 DEF RollbackInv, AnyStepperInv, ContractInv

-----------------------------------------------------------------------------
(* What follows an integration or an arrival.                              *)

LEMMA AfterIntegrationKeeps ==
    ASSUME RollbackInv, NEW stepEvent \in BOOLEAN, AfterIntegration(stepEvent),
           UNCHANGED <<rb, left>>
    PROVE  RollbackInv'
  <1>1. TypeOK /\ AnyStepperInv /\ (IsOdeint => OdeintInv)
    BY DEF RollbackInv
  <1>2. /\ pc = "integrated" /\ crossings' = crossings
        /\ \/ /\ ig.info.stepEvent /\ ig' = ig
              /\ \E m \in HandleRecord : Noted(m) /\ HandleEvents(fmu, m, call, "step")
           \/ /\ ~ig.info.stepEvent /\ (ig.info.stateEvent \/ me.timeEvent_)
              /\ me.stopBeforeEvent_ /\ fmu' = fmu /\ Return
              /\ \E m \in HandleRecord :
                    /\ EventAhead(m)
                    /\ me' \in HandleRecord /\ me'.upcomingEvent_ /\ me'.eventFlag_
                    /\ me'.time_ = m.time_ /\ me'.tend_ = m.tend_
                    /\ me'.stateEvent_ = m.stateEvent_ /\ SameSigns(me', m)
           \/ /\ ~ig.info.stepEvent /\ (ig.info.stateEvent \/ me.timeEvent_)
              /\ ~me.stopBeforeEvent_ /\ ig' = ig
              /\ \E m \in HandleRecord :
                    EventAhead(m) /\ StepOver(fmu, m, call, "event", stepEvent)
           \/ /\ ~ig.info.stepEvent /\ ~ig.info.stateEvent /\ ~me.timeEvent_
              /\ fmu' = fmu /\ Return
              /\ me' \in HandleRecord
              /\ me'.upcomingEvent_ = me.upcomingEvent_
              /\ me'.time_ = me.time_ /\ me'.tend_ = me.tend_
              /\ SameSigns(me', me)
    BY <1>1, AfterIntegrationEffect
  <1>3. Integrating
    BY <1>2 DEF Integrating
  <1>4. /\ call.tend \in Int /\ Origin \in Int /\ ig.end \in Int /\ fmu.next \in Int
        /\ ig.info.tLower \in Int /\ ig.info.tUpper \in Int
        /\ Origin <= fmu.next /\ Origin < Infinity /\ Infinity \in Int
        /\ ig.end <= call.tend /\ ig.end < fmu.next /\ ig.end < Infinity
        /\ me.tnextevent_ = fmu.next
        /\ me.timeEvent_ => fmu.next <= call.tend
    BY <1>3, CallBounds, IntegrationAssumption
  <1>5. /\ fmu \in FmuRecord /\ me \in HandleRecord /\ call \in CallRecord
        /\ ig \in IntegratorRecord /\ rb \in RollbackRecord /\ left \in 0 .. MaxReturns
        /\ fmu.time \in Int /\ fmu.state \in Int
    BY <1>1 DEF TypeOK, FmuRecord
  <1>6. ~fmu.stateless /\ ~me.upcomingEvent_
    BY <1>1, <1>2, <1>3 DEF AnyStepperInv, PlacesInv
  <1>7. /\ me.time_ < Infinity /\ me.tend_ < Infinity /\ rb.time_ < Infinity
        /\ call.tend + Eighth < Infinity /\ fmu.time = me.time_
    BY <1>1, <1>2 DEF AnyStepperInv, ClockInv
  <1>8. /\ WithinReach(me.time_)
        /\ \/ ig.info.stepEvent \/ ig.info.stateEvent
           \/ ig.end <= me.time_ /\ me.time_ <= fmu.next
        /\ ig.info.stateEvent =>
               /\ Origin <= ig.info.tLower /\ ig.info.tLower <= Greatest(Origin, ig.end)
               /\ Least(ig.info.tLower, call.tend) - Half <= ig.info.tUpper
               /\ ig.info.tUpper - ig.info.tLower <= Half + Eighth
               /\ ig.info.tUpper <= ig.end + Eighth
    BY <1>1, <1>2 DEF AnyStepperInv, ContractInv, SpanInv, ProgressInv
  <1>9. IsOdeint =>
           /\ fmu.state = fmu.time /\ rb.state_ = rb.time_
           /\ ig.info.stateEvent => ig.info.tLower = fmu.time
           /\ ig.info.stateEvent =>
                  \E c \in crossings : ig.info.tLower <= c /\ c < ig.info.tUpper
           /\ ~rb.abandoned => fmu.time < fmu.next
           /\ ~me.blind /\ ~rb.abandoned => Sign(fmu.state) \in {0, fmu.acted}
    BY <1>1, <1>2, <1>3
    DEF OdeintInv, StatesInv, SearchInv, ToldInv, ScheduleInv, IteratingFor, Told, Wanted,
        Indicators
  <1>10. ASSUME NEW m \in HandleRecord, Noted(m), HandleEvents(fmu, m, call, "step"),
                ig.info.stepEvent, ig' = ig
         PROVE  RollbackInv'
    <2>1. /\ fmu' \in FmuRecord /\ fmu'.more
          /\ fmu'.time = fmu.time /\ fmu'.state = fmu.state /\ fmu'.stateless = fmu.stateless
          /\ me' = m
          /\ call' \in CallRecord /\ call'.iterations = 0 /\ call'.then = "step"
          /\ call'.tend = call.tend /\ call'.before = call.before
          /\ pc' = "iterating"
      BY <1>5, <1>10, HandleEventsEffect DEF Handles
    <2>2. me'.time_ = me.time_ /\ me'.tend_ = me.tend_ /\ ~me'.upcomingEvent_
      BY <1>6, <1>10, <2>1 DEF Noted
    <2>3. PlacesInv'
      BY <1>6, <2>1, <2>2 DEF PlacesInv, Integrating, IteratingFor
    <2>4. Origin' = Origin
      BY <2>1 DEF Origin
    <2>5. ProgressInv'
      BY <1>8, <1>10, <2>1, <2>2, <2>4 DEF ProgressInv, IteratingFor, WithinReach
    <2> QED BY <1>1, <1>2, <1>5, <1>7, <1>9, <1>10, <2>1, <2>2, <2>3, <2>5, HandlingKeeps
  <1>11. ASSUME NEW m \in HandleRecord, EventAhead(m), me' \in HandleRecord,
                me'.time_ = m.time_, me'.tend_ = m.tend_, me'.upcomingEvent_,
                me'.stateEvent_ = m.stateEvent_, SameSigns(me', m),
                me.stopBeforeEvent_, fmu' = fmu, Return, ~ig.info.stepEvent,
                ig.info.stateEvent \/ me.timeEvent_
         PROVE  RollbackInv'
    <2>1. /\ pc' = "idle" /\ call' \in CallRecord /\ call'.tend = 0
          /\ ig' \in IntegratorRecord /\ ig'.type = ig.type
      BY <1>5, <1>11, ReturnEffect
    <2>2. /\ me'.stateEvent_ = ig.info.stateEvent /\ me'.stopBeforeEvent_
          /\ me'.time_ = IF ig.info.stateEvent THEN ig.info.tLower ELSE me.time_
          /\ me'.tend_ = IF ig.info.stateEvent THEN ig.info.tUpper ELSE fmu.next
      BY <1>4, <1>11 DEF EventAhead, SameSigns
    <2>3. me'.time_ < Infinity /\ me'.tend_ < Infinity
      BY <1>4, <1>7, <1>8, <1>11, <2>2, PrecisionParts DEF Greatest
    <2>4. me'.time_ <= fmu'.next
      BY <1>4, <1>8, <1>11, <2>2 DEF Greatest
    <2>5. call'.tend + Eighth < Infinity
      BY <2>1, NoCallBounded
    <2>6. fmu'.time = me'.time_ \/ (IsDense /\ ~fmu'.stateless)
      BY <1>6, <1>7, <1>9, <1>11, <2>2 DEF IsOdeint
    <2>7. IsOdeint => HorizonInv'
      BY <1>2, <1>8, <1>9, <2>2 DEF HorizonInv
    <2> QED BY <1>1, <1>2, <1>5, <1>7, <1>9, <1>11, <2>1, <2>2, <2>3, <2>4, <2>5, <2>6, <2>7,
               IdleKeeps
  <1>12. ASSUME NEW m \in HandleRecord, EventAhead(m),
                StepOver(fmu, m, call, "event", stepEvent), ig' = ig,
                ~ig.info.stepEvent, ig.info.stateEvent \/ me.timeEvent_
         PROVE  RollbackInv'
    <2>1. /\ m.stateEvent_ = ig.info.stateEvent /\ m.timeEvent_ = me.timeEvent_
          /\ ~m.upcomingEvent_
          /\ m.time_ = IF ig.info.stateEvent THEN ig.info.tLower ELSE me.time_
          /\ m.tend_ = IF ig.info.stateEvent THEN ig.info.tUpper ELSE fmu.next
      BY <1>4, <1>6, <1>12 DEF EventAhead, SameSigns
    <2>2. /\ fmu' \in FmuRecord /\ fmu'.more
          /\ fmu'.time = m.tend_ /\ fmu'.state = fmu.state + (m.tend_ - m.time_)
          /\ fmu'.stateless = fmu.stateless
          /\ me' \in HandleRecord /\ me'.time_ = m.tend_ /\ me'.tend_ = m.tend_
          /\ me'.stopBeforeEvent_ = m.stopBeforeEvent_
          /\ me'.upcomingEvent_ = m.upcomingEvent_
          /\ me'.timeEvent_ = m.timeEvent_ /\ me'.stateEvent_ = m.stateEvent_
          /\ call' \in CallRecord /\ call'.iterations = 0 /\ call'.then = "event"
          /\ call'.tend = call.tend /\ call'.before = call.before
          /\ pc' = "iterating"
      BY <1>5, <1>12, StepOverEffect DEF Handles
    <2>3. PlacesInv'
      BY <1>6, <2>1, <2>2 DEF PlacesInv, Integrating, IteratingFor
    <2>4. Origin' = Origin
      BY <2>2 DEF Origin
    <2>5. m.tend_ < Infinity
      BY <1>4, <1>7, <1>8, <1>12, <2>1, PrecisionParts
    <2>6. /\ Least(Origin, call.tend) - Half <= m.tend_
          /\ m.tend_ <= Greatest(Origin, call.tend) + Eighth
      BY <1>4, <1>8, <1>12, <2>1, PrecisionParts DEF Least, Greatest
    <2>7. ProgressInv'
      BY <1>12, <2>1, <2>2, <2>4, <2>6 DEF ProgressInv, IteratingFor
    <2>8. IsOdeint => fmu'.state = fmu'.time
      BY <1>4, <1>5, <1>7, <1>9, <2>1, <2>2
    <2> QED BY <1>1, <1>2, <1>5, <1>7, <1>9, <1>12, <2>2, <2>3, <2>5, <2>7, <2>8, HandlingKeeps
  <1>13. ASSUME ~ig.info.stepEvent, ~ig.info.stateEvent, ~me.timeEvent_,
                fmu' = fmu, Return, me' \in HandleRecord,
                me'.upcomingEvent_ = me.upcomingEvent_,
                me'.time_ = me.time_, me'.tend_ = me.tend_, SameSigns(me', me)
         PROVE  RollbackInv'
    <2>1. /\ pc' = "idle" /\ call' \in CallRecord /\ call'.tend = 0
          /\ ig' \in IntegratorRecord /\ ig'.type = ig.type
      BY <1>5, <1>13, ReturnEffect
    <2>2. call'.tend + Eighth < Infinity
      BY <2>1, NoCallBounded
    <2>3. HorizonInv'
      BY <1>6, <1>13 DEF HorizonInv
    <2>4. me'.blind = me.blind
      BY <1>13 DEF SameSigns
    <2>5. me'.time_ <= fmu'.next
      BY <1>8, <1>13
    <2> QED BY <1>1, <1>2, <1>5, <1>6, <1>7, <1>9, <1>13, <2>1, <2>2, <2>3, <2>4, <2>5, IdleKeeps
  <1> QED BY <1>2, <1>10, <1>11, <1>12, <1>13

LEMMA HandleArrivalKeeps ==
    ASSUME RollbackInv, NEW stepEvent \in BOOLEAN, HandleArrival(stepEvent),
           UNCHANGED <<rb, left>>
    PROVE  RollbackInv'
  <1>1. TypeOK /\ AnyStepperInv /\ (IsOdeint => OdeintInv)
    BY DEF RollbackInv
  <1>2. PICK m \in HandleRecord :
           /\ SameHandle(m, me) /\ m.upcomingEvent_ = me.upcomingEvent_
           /\ m.saved = me.saved /\ m.blind = me.blind
           /\ LET event == m.timeEvent_ \/ m.enterEventMode_ \/ m.stateEvent_
              IN  \/ /\ event /\ ~m.stopBeforeEvent_
                     /\ HandleEvents(fmu, m, call, "arrived") /\ ig' = ig
                  \/ /\ ~event \/ m.stopBeforeEvent_
                     /\ fmu' = fmu /\ Return
                     /\ me' \in HandleRecord
                     /\ me'.upcomingEvent_ = (me.upcomingEvent_ \/ event)
                     /\ me'.enterEventMode_ = m.enterEventMode_
                     /\ me'.saved = me.saved /\ me'.blind = me.blind
                     /\ SameHandle(me', m)
    BY <1>1, HandleArrivalEffect
  <1>3. pc = "arrived" /\ crossings' = crossings
    BY DEF HandleArrival
  <1>4. /\ fmu \in FmuRecord /\ me \in HandleRecord /\ call \in CallRecord
        /\ ig \in IntegratorRecord /\ rb \in RollbackRecord /\ left \in 0 .. MaxReturns
        /\ fmu.time \in Int /\ fmu.next \in Int
    BY <1>1 DEF TypeOK, FmuRecord
  <1>5. fmu.stateless /\ ~me.upcomingEvent_ /\ WithinReach(me.time_)
    BY <1>1, <1>3 DEF AnyStepperInv, PlacesInv, ContractInv, ProgressInv
  <1>6. /\ me.time_ < Infinity /\ me.tend_ < Infinity /\ rb.time_ < Infinity
        /\ call.tend + Eighth < Infinity /\ fmu.time = me.time_
    BY <1>1, <1>3 DEF AnyStepperInv, ClockInv
  <1>7. IsOdeint =>
           /\ fmu.state = fmu.time /\ rb.state_ = rb.time_
           /\ ~me.blind /\ ~rb.abandoned =>
                  me.saved = fmu.acted /\ (me.stateEvent_ \/ Sign(fmu.state) \in {0, fmu.acted})
           /\ ~rb.abandoned => fmu.time < fmu.next \/ (fmu.time = fmu.next /\ me.timeEvent_)
    BY <1>1, <1>3
    DEF OdeintInv, StatesInv, ToldInv, ScheduleInv, Integrating, IteratingFor, Told, Wanted,
        Due, SavedActed, Indicators
  <1>8. me.time_ <= fmu.next
    BY <1>1, <1>3 DEF AnyStepperInv, EventInv, WantsLater
  <1>9. CASE /\ m.timeEvent_ \/ m.enterEventMode_ \/ m.stateEvent_
             /\ HandleEvents(fmu, m, call, "arrived") /\ ig' = ig
    <2>1. /\ fmu' \in FmuRecord /\ fmu'.more
          /\ fmu'.time = fmu.time /\ fmu'.state = fmu.state /\ fmu'.stateless = fmu.stateless
          /\ me' = m
          /\ call' \in CallRecord /\ call'.iterations = 0 /\ call'.then = "arrived"
          /\ call'.tend = call.tend /\ call'.before = call.before
          /\ pc' = "iterating"
      BY <1>4, <1>9, HandleEventsEffect DEF Handles
    <2>2. me'.time_ = me.time_ /\ me'.tend_ = me.tend_ /\ ~me'.upcomingEvent_
      BY <1>2, <1>5, <2>1 DEF SameHandle
    <2>3. PlacesInv'
      BY <1>5, <2>1, <2>2 DEF PlacesInv, Integrating, IteratingFor
    <2>4. Origin' = Origin
      BY <2>1 DEF Origin
    <2>5. ProgressInv'
      BY <1>5, <1>9, <2>1, <2>2, <2>4 DEF ProgressInv, IteratingFor, WithinReach
    <2> QED BY <1>1, <1>3, <1>4, <1>6, <1>7, <1>9, <2>1, <2>2, <2>3, <2>5, HandlingKeeps
  <1>10. CASE /\ \/ ~(m.timeEvent_ \/ m.enterEventMode_ \/ m.stateEvent_)
                 \/ m.stopBeforeEvent_
              /\ fmu' = fmu /\ Return
              /\ me' \in HandleRecord
              /\ me'.upcomingEvent_ =
                    (me.upcomingEvent_ \/ (m.timeEvent_ \/ m.enterEventMode_ \/ m.stateEvent_))
              /\ me'.saved = me.saved /\ me'.blind = me.blind
              /\ SameHandle(me', m)
    <2>1. /\ pc' = "idle" /\ call' \in CallRecord /\ call'.tend = 0
          /\ ig' \in IntegratorRecord /\ ig'.type = ig.type
      BY <1>4, <1>10, ReturnEffect
    <2>2. call'.tend + Eighth < Infinity
      BY <2>1, NoCallBounded
    <2>3. /\ me'.time_ = me.time_ /\ me'.tend_ = me.tend_ /\ me'.timeEvent_ = me.timeEvent_
          /\ me'.stateEvent_ = me.stateEvent_
          /\ me'.stopBeforeEvent_ = m.stopBeforeEvent_
          /\ m.timeEvent_ = me.timeEvent_ /\ m.stateEvent_ = me.stateEvent_
      BY <1>2, <1>10 DEF SameHandle
    <2>4. me'.upcomingEvent_ => me'.stopBeforeEvent_
      BY <1>5, <1>10, <2>3
    <2>5. me'.timeEvent_ \/ me'.stateEvent_ => me'.upcomingEvent_
      BY <1>10, <2>3
    <2>6. HorizonInv'
      BY <1>5, <1>10 DEF HorizonInv
    <2> QED BY <1>1, <1>3, <1>4, <1>5, <1>6, <1>7, <1>8, <1>10, <2>1, <2>2, <2>3, <2>4, <2>5,
               <2>6, IdleKeeps
  <1> QED BY <1>2, <1>9, <1>10

LEMMA ArrivedKeeps ==
    ASSUME RollbackInv, Arrived, UNCHANGED <<rb, left>>
    PROVE  RollbackInv'
  <1>1. TypeOK /\ AnyStepperInv /\ (IsOdeint => OdeintInv)
    BY DEF RollbackInv
  <1>2. /\ pc = "iterating" /\ Iterated /\ call.then = "arrived" /\ crossings' = crossings
        /\ fmu' = Continuous /\ me' = SaveEventIndicators(me, Continuous) /\ Return
    BY DEF Arrived, Iterated
  <1>3. me \in HandleRecord /\ ig \in IntegratorRecord /\ rb \in RollbackRecord
        /\ left \in 0 .. MaxReturns /\ fmu \in FmuRecord
    BY <1>1 DEF TypeOK
  <1>4. /\ Continuous \in FmuRecord
        /\ Continuous.time = fmu.time /\ Continuous.state = fmu.state
        /\ Continuous.stateless = fmu.stateless
        /\ Continuous.acted = fmu.acted /\ Continuous.next = fmu.next
        /\ fmu.time < fmu.next /\ fmu.time = me.time_
        /\ IsOdeint => Told
    BY <1>2, IteratedEffect
  <1>5. /\ me' \in HandleRecord /\ me'.saved = Sign(fmu.state)
        /\ me'.blind = (me.blind \/ Sign(fmu.state) = 0)
        /\ me'.upcomingEvent_ = me.upcomingEvent_
        /\ SameHandle(me', me)
    BY <1>2, <1>3, <1>4, SaveEffect DEF Indicators
  <1>6. ~me.upcomingEvent_ /\ fmu.stateless
    BY <1>1, <1>2 DEF AnyStepperInv, PlacesInv, IteratingFor
  <1>7. /\ me.time_ < Infinity /\ me.tend_ < Infinity /\ rb.time_ < Infinity
    BY <1>1 DEF AnyStepperInv, ClockInv
  <1>8. IsOdeint => fmu.state = fmu.time /\ rb.state_ = rb.time_
                    /\ Sign(fmu.state) \in {0, fmu.acted}
    BY <1>1, <1>2, <1>4 DEF OdeintInv, StatesInv, IteratingFor, Told, Indicators
  <1>9. /\ pc' = "idle" /\ call' \in CallRecord /\ call'.tend = 0
        /\ ig' \in IntegratorRecord /\ ig'.type = ig.type
    BY <1>2, <1>3, ReturnEffect
  <1>10. call'.tend + Eighth < Infinity
    BY <1>9, NoCallBounded
  <1>11. HorizonInv'
    BY <1>5, <1>6 DEF HorizonInv
  <1>12. me'.time_ = me.time_ /\ me'.tend_ = me.tend_
    BY <1>5 DEF SameHandle
  <1>13. me'.time_ <= fmu'.next
    BY <1>2, <1>3, <1>4, <1>12 DEF FmuRecord, HandleRecord
  <1> QED BY <1>1, <1>2, <1>3, <1>4, <1>5, <1>6, <1>7, <1>8, <1>9, <1>10, <1>11, <1>12, <1>13,
             IdleKeeps

(* Both FinishIntegration and SteppedOverEvent.                            *)
LEMMA FinishKeeps ==
    ASSUME RollbackInv, Iterated, crossings' = crossings, UNCHANGED <<rb, left>>,
           call.then \in {"step", "event", "over"},
           fmu' = Continuous, Return, me' \in HandleRecord, ~me'.upcomingEvent_,
           me'.time_ = me.time_, me'.tend_ = me.tend_, me'.blind \in {me.blind, TRUE}
    PROVE  RollbackInv'
  <1>1. TypeOK /\ AnyStepperInv /\ (IsOdeint => OdeintInv)
    BY DEF RollbackInv
  <1>2. ig \in IntegratorRecord /\ rb \in RollbackRecord /\ left \in 0 .. MaxReturns
        /\ fmu.time \in Int /\ fmu.next \in Int /\ pc = "iterating"
    BY <1>1 DEF TypeOK, FmuRecord, Iterated
  <1>3. /\ Continuous \in FmuRecord
        /\ Continuous.time = fmu.time /\ Continuous.state = fmu.state
        /\ Continuous.stateless = fmu.stateless
        /\ Continuous.acted = fmu.acted /\ Continuous.next = fmu.next
        /\ fmu.time < fmu.next /\ fmu.time = me.time_
        /\ IsOdeint => Told
    BY IteratedEffect
  <1>4. ~fmu.stateless
    BY <1>1, <1>2 DEF AnyStepperInv, PlacesInv, IteratingFor
  <1>5. /\ me.time_ < Infinity /\ me.tend_ < Infinity /\ rb.time_ < Infinity
    BY <1>1 DEF AnyStepperInv, ClockInv
  <1>6. IsOdeint => fmu.state = fmu.time /\ rb.state_ = rb.time_
                    /\ Sign(fmu.state) \in {0, fmu.acted}
    BY <1>1, <1>2, <1>3 DEF OdeintInv, StatesInv, IteratingFor, Told, Indicators
  <1>7. /\ pc' = "idle" /\ call' \in CallRecord /\ call'.tend = 0
        /\ ig' \in IntegratorRecord /\ ig'.type = ig.type
    BY <1>2, ReturnEffect
  <1>8. call'.tend + Eighth < Infinity
    BY <1>7, NoCallBounded
  <1>9. HorizonInv'
    BY DEF HorizonInv
  <1>10. me'.time_ <= fmu'.next
    BY <1>2, <1>3
  <1> QED BY <1>1, <1>2, <1>3, <1>4, <1>5, <1>6, <1>7, <1>8, <1>9, <1>10, IdleKeeps

LEMMA FinishIntegrationKeeps ==
    ASSUME RollbackInv, FinishIntegration, UNCHANGED <<rb, left>>
    PROVE  RollbackInv'
  <1>1. TypeOK /\ AnyStepperInv
    BY DEF RollbackInv
  <1>2. me \in HandleRecord /\ ig \in IntegratorRecord
    BY <1>1 DEF TypeOK
  <1>3. Continuous \in FmuRecord /\ pc = "iterating" /\ Iterated
        /\ call.then \in {"step", "event"}
    BY IteratedEffect DEF FinishIntegration, Iterated
  <1>4. PICK m : m = IF call.then = "event" THEN SteppedOver(Continuous) ELSE me
    OBVIOUS
  <1>5. me' = [m EXCEPT !.eventFlag_ = EventFlag(m)]
        /\ crossings' = crossings /\ fmu' = Continuous /\ Return
    BY <1>4 DEF FinishIntegration
  <1>6. ~me.upcomingEvent_
    BY <1>1, <1>3 DEF AnyStepperInv, PlacesInv, IteratingFor
  <1>7. m \in HandleRecord /\ ~m.upcomingEvent_ /\ m.time_ = me.time_ /\ m.tend_ = me.tend_
        /\ m.blind \in {me.blind, TRUE}
    BY <1>2, <1>3, <1>4, <1>6, SteppedOverEffect DEF SameHandle, HandleRecord
  <1>8. me' \in HandleRecord /\ ~me'.upcomingEvent_ /\ me'.time_ = me.time_
        /\ me'.tend_ = me.tend_ /\ me'.blind \in {me.blind, TRUE}
    <2>1. PICK n : n = [m EXCEPT !.eventFlag_ = EventFlag(m)]
      OBVIOUS
    <2>2. n \in HandleRecord /\ ~n.upcomingEvent_ /\ n.time_ = m.time_
          /\ n.tend_ = m.tend_ /\ n.blind = m.blind
      BY <1>2, <1>7, <2>1, EventFlagEffect DEF SameSigns
    <2> QED BY <1>5, <1>7, <2>1, <2>2
  <1> QED BY <1>3, <1>5, <1>8, FinishKeeps

LEMMA SteppedOverEventKeeps ==
    ASSUME RollbackInv, SteppedOverEvent
    PROVE  RollbackInv'
  <1>1. TypeOK
    BY DEF RollbackInv
  <1>2. me \in HandleRecord
    BY <1>1 DEF TypeOK
  <1>3. /\ Iterated /\ call.then = "over" /\ fmu' = Continuous /\ me' = SteppedOver(Continuous)
        /\ Return /\ crossings' = crossings /\ UNCHANGED <<rb, left>>
    BY DEF SteppedOverEvent
  <1>4. Continuous \in FmuRecord
    BY <1>3, IteratedEffect
  <1>5. me' \in HandleRecord /\ ~me'.upcomingEvent_ /\ me'.time_ = me.time_
        /\ me'.tend_ = me.tend_ /\ me'.blind \in {me.blind, TRUE}
    BY <1>2, <1>3, <1>4, SteppedOverEffect DEF SameHandle, HandleRecord
  <1> QED BY <1>3, <1>5, FinishKeeps

-----------------------------------------------------------------------------
(* What a program does.                                                    *)

LEMMA InitializeKeeps ==
    ASSUME RollbackInv, Initialize
    PROVE  RollbackInv'
  <1> DEFINE f == [fmu EXCEPT !.mode = "continuous"]
             n == [me EXCEPT !.tnextevent_ = IF fmu'.next # Infinity THEN fmu'.next ELSE @]
  <1>1. TypeOK /\ AnyStepperInv /\ (IsOdeint => OdeintInv)
    BY DEF RollbackInv
  <1>2. fmu \in FmuRecord /\ me \in HandleRecord /\ ig \in IntegratorRecord
        /\ call \in CallRecord /\ rb \in RollbackRecord /\ left \in 0 .. MaxReturns
    BY <1>1 DEF TypeOK
  <1>3. /\ pc = "new" /\ pc' = "idle" /\ fmu' \in NewDiscreteStates(f)
        /\ me' = SaveEventIndicators(n, fmu)
        /\ ig' = ig /\ crossings' = crossings /\ call' = call /\ rb' = rb /\ left' = left
    BY DEF Initialize
  <1>4. f \in FmuRecord /\ f.time = fmu.time /\ f.state = fmu.state
        /\ f.stateless = fmu.stateless /\ Indicators(f) = Indicators(fmu)
    BY <1>2 DEF FmuRecord, Indicators
  <1> HIDE DEF f
  <1>5. /\ fmu' \in FmuRecord /\ fmu'.time = fmu.time /\ fmu'.state = fmu.state
        /\ fmu'.acted = (IF Indicators(fmu) = 0 THEN f.acted ELSE Indicators(fmu))
        /\ fmu.time < fmu'.next \/ fmu'.next = Infinity
    BY <1>3, <1>4, NewDiscreteStatesEffect
  <1>6. n \in HandleRecord /\ n.time_ = me.time_ /\ n.tend_ = me.tend_
        /\ n.upcomingEvent_ = me.upcomingEvent_ /\ n.blind = me.blind
    <2>1. PICK next : next = IF fmu'.next # Infinity THEN fmu'.next ELSE me.tnextevent_
      OBVIOUS
    <2>2. next \in Int
      BY <1>2, <1>5, <2>1 DEF FmuRecord, HandleRecord
    <2>3. n = [me EXCEPT !.tnextevent_ = next]
      BY <2>1
    <2> HIDE DEF n
    <2> QED BY <1>2, <2>2, <2>3 DEF HandleRecord
  <1> HIDE DEF n
  <1>7. /\ me' \in HandleRecord /\ me'.saved = Indicators(fmu)
        /\ me'.blind = (me.blind \/ Indicators(fmu) = 0)
        /\ ~me'.upcomingEvent_ /\ me'.time_ = me.time_ /\ me'.tend_ = me.tend_
    <2>1. ~me.upcomingEvent_
      BY <1>1, <1>3 DEF AnyStepperInv, PlacesInv
    <2> QED BY <1>2, <1>3, <1>6, <2>1, SaveEffect DEF SameHandle
  <1>8. fmu.time = me.time_ /\ me.time_ < Infinity /\ me.tend_ < Infinity
        /\ rb.time_ < Infinity /\ call.tend + Eighth < Infinity
    BY <1>1, <1>3 DEF AnyStepperInv, ClockInv
  <1>9. fmu'.time < fmu'.next /\ me'.time_ <= fmu'.next
    BY <1>2, <1>5, <1>7, <1>8 DEF FmuRecord
  <1>10. IsOdeint => fmu.state = fmu.time /\ rb.state_ = rb.time_
    BY <1>1, <1>3 DEF OdeintInv, StatesInv, IteratingFor
  <1>11. HorizonInv'
    BY <1>7 DEF HorizonInv
  <1>12. Indicators(fmu) = Sign(fmu.state)
    BY DEF Indicators
  <1> QED BY <1>1, <1>2, <1>3, <1>5, <1>7, <1>8, <1>9, <1>10, <1>11, <1>12, IdleKeeps

(* Calls of integrate(): of a program and of rollback().                   *)
LEMMA IntegrateKeeps ==
    ASSUME RollbackInv, crossings' = crossings, left' = left, rb' \in RollbackRecord,
           rb'.time_ < Infinity,
           NEW f \in FmuRecord, NEW c \in CallRecord, NEW stepEvent \in BOOLEAN,
           Integrate(f, me, c, stepEvent),
           f.time = fmu.time, f.state = fmu.state, f.stateless = fmu.stateless,
           f.acted = fmu.acted, f.next = fmu.next,
           c.tend + Eighth < Infinity, me.time_ <= fmu.next,
           ~me.upcomingEvent_ =>
               \/ fmu.time = me.time_
               \/ IsDense /\ ~fmu.stateless,
           fmu.stateless => fmu.time = me.time_,
           IsOdeint =>
               /\ fmu.state = fmu.time /\ rb'.state_ = rb'.time_
               /\ fmu.time = me.time_
               /\ ~rb'.abandoned /\ ~me.upcomingEvent_ => fmu.time < fmu.next
               /\ ~me.blind /\ ~rb'.abandoned /\ ~me.upcomingEvent_ =>
                      Told /\ (fmu.stateless => SavedActed)
    PROVE  RollbackInv'
  <1>1. TypeOK /\ AnyStepperInv
    BY DEF RollbackInv
  <1>2. fmu \in FmuRecord /\ me \in HandleRecord /\ ig \in IntegratorRecord
        /\ left \in 0 .. MaxReturns
    BY <1>1 DEF TypeOK
  <1>3. me.upcomingEvent_ => me.stopBeforeEvent_
    BY <1>1 DEF AnyStepperInv, PlacesInv
  <1>4. me.time_ < Infinity /\ me.tend_ < Infinity
    BY <1>1 DEF AnyStepperInv, ClockInv
  <1>5. PICK d \in CallRecord, n \in HandleRecord :
           /\ d.tend = c.tend /\ d.then = "start" /\ d.before = Outlook
           /\ SameHandle(n, me) /\ n.upcomingEvent_ = me.upcomingEvent_
           /\ n.saved = me.saved /\ n.blind = me.blind
           /\ \/ /\ me.stopBeforeEvent_ /\ me.upcomingEvent_ /\ f.stateless
                 /\ HandleEvents(f, n, d, "start") /\ ig' = ig
              \/ /\ me.stopBeforeEvent_ /\ me.upcomingEvent_ /\ ~f.stateless
                 /\ StepOver(f, me, d, "start", stepEvent) /\ ig' = ig
              \/ /\ ~(me.stopBeforeEvent_ /\ me.upcomingEvent_)
                 /\ Start(f, n, d.tend, d.dt) /\ call' = d
    BY <1>1, IntegrateEffect
  <1>6. d.before.time = me.time_ /\ d.before.upcoming = me.upcomingEvent_
        /\ d.before.until = IF fmu.stateless THEN me.time_ ELSE me.tend_
    BY <1>5 DEF Outlook
  <1>7. ASSUME call'.before = d.before
        PROVE  Origin' = IF me.upcomingEvent_ /\ ~fmu.stateless THEN me.tend_ ELSE me.time_
    BY <1>6, <1>7 DEF Origin
  <1>8. CASE me.upcomingEvent_ /\ f.stateless
    <2>1. HandleEvents(f, n, d, "start") /\ ig' = ig
      BY <1>3, <1>5, <1>8
    <2>2. /\ fmu' \in FmuRecord /\ fmu'.more
          /\ fmu'.time = f.time /\ fmu'.state = f.state /\ fmu'.stateless = f.stateless
          /\ me' = n /\ call' \in CallRecord /\ call'.iterations = 0 /\ call'.then = "start"
          /\ call'.tend = d.tend /\ call'.before = d.before /\ pc' = "iterating"
      BY <1>5, <2>1, HandleEventsEffect DEF Handles
    <2>3. me'.time_ = me.time_ /\ me'.tend_ = me.tend_ /\ me' \in HandleRecord
          /\ me'.stopBeforeEvent_ = me.stopBeforeEvent_
      BY <1>5, <2>2 DEF SameHandle
    <2>4. PlacesInv'
      BY <1>3, <1>8, <2>2, <2>3 DEF PlacesInv, Integrating, IteratingFor
    <2>5. Origin' = me.time_
      BY <1>7, <1>8, <2>2
    <2>6. ProgressInv'
      BY <2>2, <2>3, <2>5 DEF ProgressInv, IteratingFor
    <2>7. /\ fmu'.time = me'.time_ /\ me'.time_ < Infinity /\ me'.tend_ < Infinity
          /\ call'.tend + Eighth < Infinity
      BY <1>4, <1>5, <1>8, <2>2, <2>3
    <2>8. IsOdeint => rb'.state_ = rb'.time_ /\ fmu'.state = fmu'.time
      BY <2>2
    <2> QED BY <1>1, <1>2, <2>1, <2>2, <2>3, <2>4, <2>6, <2>7, <2>8, HandlingKeeps
  <1>9. CASE me.upcomingEvent_ /\ ~f.stateless
    <2>1. StepOver(f, me, d, "start", stepEvent) /\ ig' = ig
      BY <1>3, <1>5, <1>9
    <2>2. /\ fmu' \in FmuRecord /\ fmu'.more
          /\ fmu'.time = me.tend_ /\ fmu'.state = f.state + (me.tend_ - me.time_)
          /\ fmu'.stateless = f.stateless
          /\ me' \in HandleRecord /\ me'.time_ = me.tend_ /\ me'.tend_ = me.tend_
          /\ me'.stopBeforeEvent_ = me.stopBeforeEvent_
          /\ me'.upcomingEvent_ = me.upcomingEvent_
          /\ call' \in CallRecord /\ call'.iterations = 0 /\ call'.then = "start"
          /\ call'.tend = d.tend /\ call'.before = d.before /\ pc' = "iterating"
      BY <1>2, <1>5, <2>1, StepOverEffect DEF Handles
    <2>3. PlacesInv'
      BY <1>3, <1>9, <2>2 DEF PlacesInv, Integrating, IteratingFor
    <2>4. Origin' = me.tend_
      BY <1>7, <1>9, <2>2
    <2>5. ProgressInv'
      BY <2>2, <2>4 DEF ProgressInv, IteratingFor
    <2>6. /\ fmu'.time = me'.time_ /\ me'.time_ < Infinity /\ me'.tend_ < Infinity
          /\ call'.tend + Eighth < Infinity
      BY <1>4, <1>5, <2>2
    <2>7. IsOdeint => rb'.state_ = rb'.time_ /\ fmu'.state = fmu'.time
      <3>1. me.time_ \in Int /\ me.tend_ \in Int
        BY <1>2 DEF HandleRecord
      <3> QED BY <2>2, <3>1
    <2> QED BY <1>1, <1>2, <2>1, <2>2, <2>3, <2>5, <2>6, <2>7, HandlingKeeps
  <1>10. CASE ~me.upcomingEvent_
    <2>1. Start(f, n, d.tend, d.dt) /\ call' = d
      BY <1>5, <1>10
    <2>2. ~n.upcomingEvent_ /\ n.time_ = me.time_ /\ n.tend_ = me.tend_
      BY <1>5, <1>10 DEF SameHandle
    <2>3. n.time_ = IF d.before.upcoming THEN d.before.until ELSE d.before.time
      BY <1>6, <1>10, <2>2
    <2>4. IsOdeint =>
            /\ f.state = f.time /\ rb'.state_ = rb'.time_
            /\ ~rb'.abandoned => f.time < f.next
            /\ ~n.blind /\ ~rb'.abandoned =>
                   Indicators(f) \in {0, f.acted} /\ (f.stateless => n.saved = f.acted)
      BY <1>5, <1>10 DEF Told, SavedActed, Indicators
    <2>5. n.time_ <= f.next /\ (f.time = n.time_ \/ (IsDense /\ ~f.stateless))
          /\ n.time_ < Infinity /\ n.tend_ < Infinity /\ d.tend + Eighth < Infinity
      BY <1>4, <1>5, <1>10, <2>2
    <2> QED BY <1>1, <1>2, <2>1, <2>2, <2>3, <2>4, <2>5, StartKeeps
  <1> QED BY <1>8, <1>9, <1>10

LEMMA CallIntegrateKeeps ==
    ASSUME RollbackInv, NEW tend \in Targets, NEW dt \in StepSizes, NEW stepEvent \in BOOLEAN,
           CallIntegrate(tend, dt, stepEvent)
    PROVE  RollbackInv'
  <1>1. TypeOK /\ AnyStepperInv /\ (IsOdeint => OdeintInv)
    BY DEF RollbackInv
  <1>2. fmu \in FmuRecord /\ me \in HandleRecord /\ call \in CallRecord
        /\ rb \in RollbackRecord
    BY <1>1 DEF TypeOK
  <1>3. PICK c : c = [call EXCEPT !.tend = tend, !.dt = dt]
    OBVIOUS
  <1>4. pc = "idle" /\ Integrate(fmu, me, c, stepEvent) /\ rb' = Kept
        /\ crossings' = crossings /\ left' = left
    BY <1>3 DEF CallIntegrate
  <1>5. tend \in Int /\ tend + Eighth < Infinity
    BY RollbackFmuAssumption
  <1>6. c \in CallRecord /\ c.tend = tend
    BY <1>2, <1>3, <1>5 DEF CallRecord
  <1>7. me.time_ < Infinity /\ rb.time_ < Infinity
        /\ (fmu.time = me.time_ \/ (IsDense /\ ~fmu.stateless))
    BY <1>1, <1>4 DEF AnyStepperInv, ClockInv
  <1>8. me.time_ \in Int /\ fmu.state \in Int
    BY <1>2 DEF HandleRecord, FmuRecord
  <1>9. rb' \in RollbackRecord /\ rb'.time_ \in {rb.time_, me.time_}
        /\ rb'.abandoned = rb.abandoned
        /\ \/ rb'.time_ = rb.time_ /\ rb'.state_ = rb.state_
           \/ rb'.time_ = me.time_ /\ rb'.state_ = fmu.state
    BY <1>2, <1>4, <1>8 DEF Kept, RollbackRecord
  <1>10. me.time_ <= fmu.next
    BY <1>1, <1>4 DEF AnyStepperInv, EventInv, WantsLater
  <1>11. IsOdeint =>
            /\ fmu.state = fmu.time /\ rb.state_ = rb.time_ /\ fmu.time = me.time_
            /\ ~rb.abandoned /\ ~me.upcomingEvent_ => fmu.time < fmu.next
            /\ ~me.blind /\ ~rb.abandoned /\ ~me.upcomingEvent_ =>
                   Told /\ (fmu.stateless => SavedActed)
    <2>1. IsOdeint => StatesInv /\ ToldInv /\ ScheduleInv
      BY <1>1 DEF OdeintInv
    <2>2. IsOdeint => fmu.state = fmu.time /\ rb.state_ = rb.time_
      BY <1>4, <2>1 DEF StatesInv, IteratingFor
    <2>3. IsOdeint => (~rb.abandoned /\ ~me.upcomingEvent_ => fmu.time < fmu.next)
      BY <1>4, <2>1 DEF ScheduleInv, Wanted
    <2>4. IsOdeint => (~me.blind /\ ~rb.abandoned /\ ~me.upcomingEvent_ =>
                          Told /\ (fmu.stateless => SavedActed))
      BY <1>4, <2>1 DEF ToldInv
    <2> QED BY <1>7, <2>2, <2>3, <2>4 DEF IsOdeint
  <1>12. IsOdeint => rb'.state_ = rb'.time_
    BY <1>9, <1>11
  <1>13. rb'.time_ < Infinity
    BY <1>7, <1>9
  <1> QED BY <1>2, <1>4, <1>5, <1>6, <1>7, <1>9, <1>10, <1>11, <1>12, <1>13, IntegrateKeeps
             DEF IsOdeint

LEMMA RollbackToKeeps ==
    ASSUME RollbackInv, NEW tend \in Targets, NEW dt \in StepSizes, RollbackTo(tend, dt)
    PROVE  RollbackInv'
  <1>1. TypeOK /\ AnyStepperInv /\ (IsOdeint => OdeintInv)
    BY DEF RollbackInv
  <1>2. fmu \in FmuRecord /\ me \in HandleRecord /\ call \in CallRecord
        /\ rb \in RollbackRecord /\ left \in 0 .. MaxReturns
    BY <1>1 DEF TypeOK
  <1>3. PICK c : c = [call EXCEPT !.tend = tend, !.dt = dt]
    OBVIOUS
  <1>4. PICK n : n = [me EXCEPT !.time_ = rb.time_]
    OBVIOUS
  <1>5. /\ pc = "idle" /\ HandleEvents(SetTime(fmu, rb.time_), n, c, "rolled")
        /\ rb' = [rb EXCEPT !.abandoned = @ \/ me.upcomingEvent_ \/ fmu.stateless]
        /\ left > 0 /\ left' = left - 1 /\ ig' = ig /\ crossings' = crossings
    BY <1>3, <1>4 DEF RollbackTo
  <1>6. tend \in Int /\ tend + Eighth < Infinity
    BY RollbackFmuAssumption
  <1>7. c \in CallRecord /\ c.tend = tend
    BY <1>2, <1>3, <1>6 DEF CallRecord
  <1>8. rb.time_ \in Int
    BY <1>2, Rollbacks
  <1>9. n \in HandleRecord /\ n.time_ = rb.time_ /\ n.tend_ = me.tend_
        /\ n.upcomingEvent_ = me.upcomingEvent_ /\ n.stopBeforeEvent_ = me.stopBeforeEvent_
    BY <1>2, <1>4, <1>8 DEF HandleRecord
  <1>10. /\ SetTime(fmu, rb.time_) \in FmuRecord
         /\ SetTime(fmu, rb.time_).time = rb.time_
         /\ SetTime(fmu, rb.time_).state = (IF fmu.stateless THEN rb.time_ ELSE fmu.state)
         /\ SetTime(fmu, rb.time_).stateless = fmu.stateless
    BY <1>2, <1>8, SetTimeEffect
  <1>11. /\ fmu' \in FmuRecord /\ fmu'.more /\ fmu'.time = rb.time_
         /\ fmu'.state = (IF fmu.stateless THEN rb.time_ ELSE fmu.state)
         /\ fmu'.stateless = fmu.stateless
         /\ me' = n /\ call' \in CallRecord /\ call'.iterations = 0 /\ call'.then = "rolled"
         /\ call'.tend = tend /\ pc' = "iterating"
    BY <1>5, <1>7, <1>9, <1>10, HandleEventsEffect DEF Handles
  <1>12. rb' \in RollbackRecord /\ rb'.time_ = rb.time_ /\ rb'.state_ = rb.state_
         /\ rb'.abandoned = (rb.abandoned \/ me.upcomingEvent_ \/ fmu.stateless)
    <2>1. me.upcomingEvent_ \in BOOLEAN /\ fmu.stateless \in BOOLEAN
      BY <1>2 DEF HandleRecord, FmuRecord
    <2> QED BY <1>2, <1>5, <2>1 DEF RollbackRecord
  <1>13. left' \in 0 .. MaxReturns
    BY <1>2, <1>5, RollbackFmuAssumption
  <1>14. PlacesInv'
    <2>1. me.upcomingEvent_ => me.stopBeforeEvent_
      BY <1>1 DEF AnyStepperInv, PlacesInv
    <2> QED BY <1>9, <1>11, <1>12, <2>1 DEF PlacesInv, Integrating, IteratingFor
  <1>15. ProgressInv'
    BY <1>11 DEF ProgressInv, IteratingFor
  <1>16. me.tend_ < Infinity /\ rb.time_ < Infinity
    BY <1>1 DEF AnyStepperInv, ClockInv
  <1>17. IsOdeint =>
            /\ rb'.state_ = rb'.time_ /\ fmu'.time = rb'.time_
            /\ fmu'.state = fmu'.time \/ ~fmu'.stateless
    BY <1>1, <1>11, <1>12 DEF OdeintInv, StatesInv
  <1> QED BY <1>1, <1>5, <1>6, <1>9, <1>11, <1>12, <1>13, <1>14, <1>15, <1>16, <1>17,
             HandlingKeeps

LEMMA RolledBackKeeps ==
    ASSUME RollbackInv, RolledBack
    PROVE  RollbackInv'
  <1>1. TypeOK /\ AnyStepperInv /\ (IsOdeint => OdeintInv)
    BY DEF RollbackInv
  <1>2. me \in HandleRecord /\ call \in CallRecord /\ rb \in RollbackRecord
        /\ left \in 0 .. MaxReturns /\ fmu.time \in Int
    BY <1>1 DEF TypeOK, FmuRecord
  <1>3. PICK f : f = IF fmu.stateless THEN Continuous
                     ELSE PutAt(Continuous, fmu.time, rb.state_)
    OBVIOUS
  <1>4. /\ Iterated /\ call.then = "rolled" /\ pc = "iterating"
        /\ HandleEvents(f, me, call, "restored")
        /\ ig' = ig /\ crossings' = crossings /\ rb' = rb /\ left' = left
    BY <1>3 DEF RolledBack, Iterated
  <1>5. /\ Continuous \in FmuRecord
        /\ Continuous.time = fmu.time /\ Continuous.state = fmu.state
        /\ Continuous.stateless = fmu.stateless
        /\ fmu.time = me.time_
    BY <1>4, IteratedEffect
  <1>6. /\ f \in FmuRecord /\ f.time = fmu.time /\ f.stateless = fmu.stateless
        /\ f.state = IF fmu.stateless THEN fmu.state ELSE rb.state_
    BY <1>2, <1>3, <1>5, Rollbacks, PutAtEffect
  <1>7. /\ fmu' \in FmuRecord /\ fmu'.more
        /\ fmu'.time = f.time /\ fmu'.state = f.state /\ fmu'.stateless = f.stateless
        /\ me' = me /\ call' \in CallRecord /\ call'.iterations = 0 /\ call'.then = "restored"
        /\ call'.tend = call.tend /\ pc' = "iterating"
    BY <1>2, <1>4, <1>6, HandleEventsEffect DEF Handles
  <1>8. PlacesInv'
    BY <1>1, <1>4, <1>6, <1>7 DEF AnyStepperInv, PlacesInv, Integrating, IteratingFor
  <1>9. ProgressInv'
    BY <1>7 DEF ProgressInv, IteratingFor
  <1>10. me.time_ < Infinity /\ me.tend_ < Infinity /\ rb.time_ < Infinity
         /\ call.tend + Eighth < Infinity
    BY <1>1 DEF AnyStepperInv, ClockInv
  <1>11. IsOdeint => rb'.state_ = rb'.time_ /\ fmu'.state = fmu'.time
    <2>1. IsOdeint =>
             /\ fmu.state = fmu.time \/ ~fmu.stateless
             /\ rb.state_ = rb.time_ /\ fmu.time = rb.time_
      BY <1>1, <1>4 DEF OdeintInv, StatesInv, IteratingFor
    <2> QED BY <1>4, <1>6, <1>7, <2>1
  <1> QED BY <1>1, <1>2, <1>4, <1>5, <1>6, <1>7, <1>8, <1>9, <1>10, <1>11, HandlingKeeps

LEMMA IntegrateAgainKeeps ==
    ASSUME RollbackInv, NEW stepEvent \in BOOLEAN, IntegrateAgain(stepEvent)
    PROVE  RollbackInv'
  <1>1. TypeOK /\ AnyStepperInv /\ (IsOdeint => OdeintInv)
    BY DEF RollbackInv
  <1>2. fmu \in FmuRecord /\ me \in HandleRecord /\ call \in CallRecord
        /\ rb \in RollbackRecord
    BY <1>1 DEF TypeOK
  <1>3. /\ Iterated /\ call.then = "restored" /\ pc = "iterating"
        /\ Integrate(Continuous, me, call, stepEvent)
        /\ crossings' = crossings /\ rb' = rb /\ left' = left
    BY DEF IntegrateAgain, Iterated
  <1>4. /\ Continuous \in FmuRecord
        /\ Continuous.time = fmu.time /\ Continuous.state = fmu.state
        /\ Continuous.stateless = fmu.stateless
        /\ Continuous.acted = fmu.acted /\ Continuous.next = fmu.next
        /\ fmu.time < fmu.next /\ fmu.time = me.time_
        /\ IsOdeint => Told
    BY <1>3, IteratedEffect
  <1>5. rb.time_ < Infinity /\ call.tend + Eighth < Infinity
    BY <1>1 DEF AnyStepperInv, ClockInv
  <1>6. fmu.stateless => rb.abandoned
    BY <1>1, <1>3 DEF AnyStepperInv, PlacesInv, IteratingFor
  <1>7. IsOdeint => fmu.state = fmu.time /\ rb.state_ = rb.time_
    BY <1>1, <1>3 DEF OdeintInv, StatesInv, IteratingFor
  <1>8. me.time_ <= fmu.next
    BY <1>2, <1>4 DEF FmuRecord, HandleRecord
  <1> QED BY <1>2, <1>3, <1>4, <1>5, <1>6, <1>7, <1>8, IntegrateKeeps

LEMMA CallStepOverEventKeeps ==
    ASSUME RollbackInv, NEW stepEvent \in BOOLEAN, CallStepOverEvent(stepEvent)
    PROVE  RollbackInv'
  <1>1. TypeOK /\ AnyStepperInv /\ (IsOdeint => OdeintInv)
    BY DEF RollbackInv
  <1>2. fmu \in FmuRecord /\ me \in HandleRecord /\ call \in CallRecord
        /\ rb \in RollbackRecord /\ left \in 0 .. MaxReturns
    BY <1>1 DEF TypeOK
  <1>3. /\ pc = "idle" /\ ~fmu.stateless /\ StepOver(fmu, me, call, "over", stepEvent)
        /\ left > 0 /\ left' = left - 1 /\ ig' = ig /\ crossings' = crossings /\ rb' = rb
    BY DEF CallStepOverEvent
  <1>4. left' \in 0 .. MaxReturns
    BY <1>2, <1>3, RollbackFmuAssumption
  <1>5. /\ fmu' \in FmuRecord /\ fmu'.more
        /\ fmu'.time = me.tend_ /\ fmu'.state = fmu.state + (me.tend_ - me.time_)
        /\ fmu'.stateless = fmu.stateless
        /\ me' \in HandleRecord /\ me'.time_ = me.tend_ /\ me'.tend_ = me.tend_
        /\ me'.stopBeforeEvent_ = me.stopBeforeEvent_
        /\ me'.upcomingEvent_ = me.upcomingEvent_
        /\ call' \in CallRecord /\ call'.iterations = 0 /\ call'.then = "over"
        /\ call'.tend = call.tend /\ pc' = "iterating"
    BY <1>2, <1>3, StepOverEffect DEF Handles
  <1>6. PlacesInv'
    BY <1>1, <1>3, <1>5 DEF AnyStepperInv, PlacesInv, Integrating, IteratingFor
  <1>7. ProgressInv'
    BY <1>5 DEF ProgressInv, IteratingFor
  <1>8. me.tend_ < Infinity /\ rb.time_ < Infinity /\ call.tend + Eighth < Infinity
    BY <1>1 DEF AnyStepperInv, ClockInv
  <1>9. IsOdeint => rb'.state_ = rb'.time_ /\ fmu'.state = fmu'.time
    <2>1. me.time_ \in Int /\ me.tend_ \in Int
      BY <1>2 DEF HandleRecord
    <2>2. IsOdeint => fmu.time = me.time_ /\ fmu.state = fmu.time /\ rb.state_ = rb.time_
      BY <1>1, <1>3
         DEF AnyStepperInv, ClockInv, IsOdeint, OdeintInv, StatesInv, IteratingFor
    <2> QED BY <1>3, <1>5, <2>1, <2>2
  <1> QED BY <1>1, <1>2, <1>3, <1>4, <1>5, <1>6, <1>7, <1>8, <1>9, HandlingKeeps

(* What the invariant says between calls.                                  *)
LEMMA IdleFacts ==
    ASSUME RollbackInv, pc = "idle"
    PROVE  /\ TypeOK
           /\ me.upcomingEvent_ => me.stopBeforeEvent_
           /\ me.time_ < Infinity /\ me.tend_ < Infinity /\ rb.time_ < Infinity
           /\ call.tend + Eighth < Infinity
           /\ fmu.time = me.time_ \/ (IsDense /\ ~fmu.stateless)
           /\ me.time_ <= fmu.next
           /\ IsOdeint =>
                 /\ fmu.state = fmu.time /\ rb.state_ = rb.time_ /\ HorizonInv
                 /\ ~me.blind /\ ~rb.abandoned /\ ~me.upcomingEvent_ =>
                        /\ Sign(fmu.state) \in {0, fmu.acted}
                        /\ fmu.stateless => me.saved = fmu.acted
                 /\ ~rb.abandoned =>
                        \/ fmu.time < fmu.next
                        \/ /\ fmu.stateless /\ fmu.time = fmu.next
                           /\ me.timeEvent_ /\ me.upcomingEvent_
  <1>1. TypeOK /\ AnyStepperInv /\ (IsOdeint => OdeintInv)
    BY DEF RollbackInv
  <1>2. me.upcomingEvent_ => me.stopBeforeEvent_
    BY <1>1 DEF AnyStepperInv, PlacesInv
  <1>3. /\ me.time_ < Infinity /\ me.tend_ < Infinity /\ rb.time_ < Infinity
        /\ call.tend + Eighth < Infinity
        /\ fmu.time = me.time_ \/ (IsDense /\ ~fmu.stateless)
    BY <1>1 DEF AnyStepperInv, ClockInv
  <1>4. me.time_ <= fmu.next
    BY <1>1 DEF AnyStepperInv, EventInv, WantsLater
  <1>5. IsOdeint => fmu.state = fmu.time /\ rb.state_ = rb.time_ /\ HorizonInv
    BY <1>1 DEF OdeintInv, StatesInv, IteratingFor
  <1>6. IsOdeint /\ ~me.blind /\ ~rb.abandoned /\ ~me.upcomingEvent_ =>
            /\ Sign(fmu.state) \in {0, fmu.acted}
            /\ fmu.stateless => me.saved = fmu.acted
    BY <1>1 DEF OdeintInv, ToldInv, Told, SavedActed, Indicators
  <1>7. IsOdeint /\ ~rb.abandoned =>
            \/ fmu.time < fmu.next
            \/ /\ fmu.stateless /\ fmu.time = fmu.next
               /\ me.timeEvent_ /\ me.upcomingEvent_
    BY <1>1 DEF OdeintInv, ScheduleInv, Wanted, Due
  <1> QED BY <1>1, <1>2, <1>3, <1>4, <1>5, <1>6, <1>7

LEMMA SaveKeeps ==
    ASSUME RollbackInv, Save
    PROVE  RollbackInv'
  <1>1. pc = "idle" /\ UNCHANGED <<fmu, me, ig, pc, crossings, call, left>>
        /\ rb' = [rb EXCEPT !.time_ = me.time_, !.state_ = fmu.state, !.saved = TRUE]
    BY DEF Save
  <1>2. fmu \in FmuRecord /\ me \in HandleRecord /\ rb \in RollbackRecord
        /\ call \in CallRecord /\ ig \in IntegratorRecord /\ left \in 0 .. MaxReturns
    BY DEF RollbackInv, TypeOK
  <1>3. me.time_ \in Int /\ fmu.state \in Int
    BY <1>2 DEF HandleRecord, FmuRecord
  <1>4. rb' \in RollbackRecord /\ rb'.time_ = me.time_ /\ rb'.state_ = fmu.state
        /\ rb'.abandoned = rb.abandoned
    BY <1>1, <1>2, <1>3 DEF RollbackRecord
  <1>5. HorizonInv => HorizonInv'
    BY <1>1 DEF HorizonInv
  <1> QED BY <1>1, <1>2, <1>4, <1>5, IdleFacts, IdleKeeps DEF IsOdeint

LEMMA ReleaseKeeps ==
    ASSUME RollbackInv, Release
    PROVE  RollbackInv'
  <1>1. pc = "idle" /\ UNCHANGED <<fmu, me, ig, pc, crossings, call>>
        /\ rb' = [rb EXCEPT !.saved = FALSE] /\ left > 0 /\ left' = left - 1
    BY DEF Release
  <1>2. fmu \in FmuRecord /\ me \in HandleRecord /\ rb \in RollbackRecord
        /\ call \in CallRecord /\ ig \in IntegratorRecord /\ left \in 0 .. MaxReturns
    BY DEF RollbackInv, TypeOK
  <1>3. rb' \in RollbackRecord /\ rb'.time_ = rb.time_ /\ rb'.state_ = rb.state_
        /\ rb'.abandoned = rb.abandoned
    BY <1>1, <1>2 DEF RollbackRecord
  <1>5. left' \in 0 .. MaxReturns
    BY <1>1, <1>2, RollbackFmuAssumption
  <1>4. HorizonInv => HorizonInv'
    BY <1>1 DEF HorizonInv
  <1> QED BY <1>1, <1>2, <1>3, <1>4, <1>5, IdleFacts, IdleKeeps

LEMMA ResetEventFlagsKeeps ==
    ASSUME RollbackInv, ResetEventFlags
    PROVE  RollbackInv'
  <1>1. pc = "idle" /\ UNCHANGED <<fmu, ig, pc, crossings, call>>
        /\ me' = [me EXCEPT !.eventFlag_ = FALSE, !.timeEvent_ = FALSE, !.stateEvent_ = FALSE,
                            !.upcomingEvent_ = FALSE]
        /\ rb' = [rb EXCEPT !.abandoned = @ \/ me.upcomingEvent_]
        /\ left > 0 /\ left' = left - 1
    BY DEF ResetEventFlags
  <1>2. fmu \in FmuRecord /\ me \in HandleRecord /\ rb \in RollbackRecord
        /\ call \in CallRecord /\ ig \in IntegratorRecord /\ left \in 0 .. MaxReturns
    BY DEF RollbackInv, TypeOK
  <1>3. rb' \in RollbackRecord /\ rb'.time_ = rb.time_ /\ rb'.state_ = rb.state_
        /\ rb'.abandoned = (rb.abandoned \/ me.upcomingEvent_)
    <2>1. me.upcomingEvent_ \in BOOLEAN
      BY <1>2 DEF HandleRecord
    <2> QED BY <1>1, <1>2, <2>1 DEF RollbackRecord
  <1>4. me' \in HandleRecord /\ ~me'.upcomingEvent_ /\ me'.time_ = me.time_
        /\ me'.tend_ = me.tend_ /\ me'.saved = me.saved /\ me'.blind = me.blind
    BY <1>1, <1>2 DEF HandleRecord
  <1>5. HorizonInv'
    BY <1>4 DEF HorizonInv
  <1>6. left' \in 0 .. MaxReturns
    BY <1>1, <1>2, RollbackFmuAssumption
  <1> QED BY <1>1, <1>2, <1>3, <1>4, <1>5, <1>6, IdleFacts, IdleKeeps

LEMMA CheckEventsKeeps ==
    ASSUME RollbackInv, CheckEvents
    PROVE  RollbackInv'
  <1>1. pc = "idle" /\ UNCHANGED <<fmu, ig, pc, crossings, call, rb, left>>
        /\ me' = IF CheckStateEvent(me, fmu) THEN [me EXCEPT !.eventFlag_ = TRUE]
                 ELSE [me EXCEPT !.tnextevent_ = fmu.next]
    BY DEF CheckEvents
  <1>2. fmu \in FmuRecord /\ me \in HandleRecord /\ rb \in RollbackRecord
        /\ call \in CallRecord /\ ig \in IntegratorRecord /\ left \in 0 .. MaxReturns
    BY DEF RollbackInv, TypeOK
  <1>3. fmu.next \in Int
    BY <1>2 DEF FmuRecord
  <1>4. /\ me' \in HandleRecord /\ me'.upcomingEvent_ = me.upcomingEvent_
        /\ me'.stopBeforeEvent_ = me.stopBeforeEvent_
        /\ me'.time_ = me.time_ /\ me'.tend_ = me.tend_
        /\ me'.saved = me.saved /\ me'.blind = me.blind
        /\ me'.timeEvent_ = me.timeEvent_ /\ me'.stateEvent_ = me.stateEvent_
    BY <1>1, <1>2, <1>3 DEF HandleRecord
  <1>5. HorizonInv => HorizonInv'
    BY <1>1, <1>4 DEF HorizonInv
  <1> QED BY <1>1, <1>2, <1>4, <1>5, IdleFacts, IdleKeeps

-----------------------------------------------------------------------------
(* The invariant holds at first, and every step keeps it.                  *)

LEMMA InitKeeps == Init => RollbackInv
  <1> SUFFICES ASSUME Init PROVE RollbackInv
    OBVIOUS
  <1>1. PICK type \in StepperTypes : ig = AtRest(type, FALSE, SomeStep)
    BY DEF Init
  <1>2. PICK stateless \in Stateless :
           fmu = [stateless |-> stateless, time |-> 0, state |-> 0, acted |-> 1,
                  next |-> Infinity, mode |-> "continuous", more |-> FALSE]
    BY DEF Init
  <1>3. PICK version \in Versions, user \in Users, stop \in BOOLEAN :
           /\ me = [version |-> version, stopBeforeEvent_ |-> stop, time_ |-> 0, tend_ |-> 0,
                    tnextevent_ |-> Infinity, saved |-> 0, blind |-> FALSE,
                    timeEvent_ |-> FALSE, stateEvent_ |-> FALSE, upcomingEvent_ |-> FALSE,
                    eventFlag_ |-> FALSE, enterEventMode_ |-> FALSE]
           /\ rb = [used |-> user = "rollback", time_ |-> 0, state_ |-> 0, saved |-> FALSE,
                    abandoned |-> FALSE]
    BY DEF Init
  <1>4. crossings \in Crossings /\ call = NoCall /\ pc = "new" /\ left = MaxReturns
    BY DEF Init
  <1>5. ig \in IntegratorRecord
    <2>1. type \in ConstantSteppers \cup ControlledSteppers \cup DenseSteppers
      BY RollbackFmuAssumption
    <2> DEFINE info == [stepEvent |-> FALSE, stateEvent |-> FALSE, tLower |-> 0, tUpper |-> 0]
    <2>2. info \in EventInfo
      BY DEF EventInfo
    <2>3. ig = [type |-> type, states_ |-> 0, time_ |-> 0, end |-> 0, dt |-> SomeStep,
                previous |-> 0, current |-> 0, offset |-> 0, info |-> info]
      BY <1>1 DEF AtRest
    <2> HIDE DEF info
    <2> QED BY <2>1, <2>2, <2>3, SomeStepType DEF IntegratorRecord
  <1>6. Infinity \in Nat /\ 0 < Infinity
    BY IntegrationAssumption, PrecisionParts, NoCallBounded
  <1>7. fmu \in FmuRecord
    BY <1>2, <1>6, RollbackFmuAssumption DEF FmuRecord
  <1>8. me \in HandleRecord
    BY <1>3, <1>6, RollbackFmuAssumption DEF HandleRecord
  <1>9. rb \in RollbackRecord
    <2>1. PICK used \in BOOLEAN : used = (user = "rollback")
      OBVIOUS
    <2>2. rb = [used |-> used, time_ |-> 0, state_ |-> 0, saved |-> FALSE, abandoned |-> FALSE]
      BY <1>3, <2>1
    <2> QED BY <2>2 DEF RollbackRecord
  <1>10. call \in CallRecord /\ call.tend = 0
    BY <1>4, SomeStepType, ModelExchangeAssumption DEF NoCall, CallRecord
  <1>11. TypeOK
    BY <1>4, <1>5, <1>7, <1>8, <1>9, <1>10, RollbackFmuAssumption DEF TypeOK
  <1>12. fmu.time = 0 /\ fmu.state = 0 /\ me.time_ = 0 /\ me.tend_ = 0 /\ rb.time_ = 0
         /\ rb.state_ = 0 /\ ~me.upcomingEvent_
    BY <1>2, <1>3
  <1>13. PlacesInv /\ ClockInv /\ EventInv
    BY <1>4, <1>6, <1>10, <1>12, NoCallBounded
       DEF PlacesInv, ClockInv, EventInv, Integrating, IteratingFor
  <1>14. ContractInv
    BY <1>4 DEF ContractInv, EndInv, SpanInv, ProgressInv, Integrating, IteratingFor
  <1>15. OdeintInv
    BY <1>4, <1>12 DEF OdeintInv, StatesInv, SearchInv, HorizonInv, ToldInv, ScheduleInv,
                       Integrating, IteratingFor
  <1> QED BY <1>11, <1>13, <1>14, <1>15 DEF RollbackInv, AnyStepperInv

LEMMA StutterKeeps ==
    ASSUME RollbackInv, UNCHANGED vars
    PROVE  RollbackInv'
  <1>1. UNCHANGED <<fmu, me, ig, pc, crossings, call, rb, left>>
    BY DEF vars
  <1>2. TypeOK'
    BY <1>1 DEF RollbackInv, TypeOK
  <1>3. PlacesInv' /\ ClockInv' /\ EventInv'
    BY <1>1 DEF RollbackInv, AnyStepperInv, PlacesInv, ClockInv, EventInv, WantsLater,
                Integrating, IteratingFor, IsDense
  <1>4. Origin' = Origin
    BY <1>1 DEF Origin
  <1>5. EndInv' /\ SpanInv'
    BY <1>1, <1>4
       DEF RollbackInv, AnyStepperInv, ContractInv, EndInv, SpanInv, Integrating
  <1>6. ProgressInv'
    <2>1. ProgressInv
      BY DEF RollbackInv, AnyStepperInv, ContractInv
    <2>2. WithinReach(me.time_)' = WithinReach(me.time_) /\ Reached' = Reached
      BY <1>1, <1>4 DEF WithinReach, Reached
    <2> QED BY <1>1, <1>4, <2>1, <2>2 DEF ProgressInv, IteratingFor
  <1>7. IsOdeint' = IsOdeint
    BY <1>1 DEF IsOdeint, IsDense
  <1>8. IsOdeint => StatesInv' /\ HorizonInv' /\ ScheduleInv'
    BY <1>1 DEF RollbackInv, OdeintInv, StatesInv, HorizonInv, ScheduleInv, Wanted, Due,
                Integrating, IteratingFor
  <1>9. Indicators(fmu)' = Indicators(fmu) /\ CheckStateEvent(me, fmu)' = CheckStateEvent(me, fmu)
        /\ Sign(ig.info.tUpper)' = Sign(ig.info.tUpper)
    BY <1>1 DEF Indicators, CheckStateEvent, Sign
  <1>10. IsOdeint => SearchInv' /\ ToldInv'
    BY <1>1, <1>9 DEF RollbackInv, OdeintInv, SearchInv, ToldInv, Told, SavedActed, Integrating
  <1> QED BY <1>2, <1>3, <1>5, <1>6, <1>7, <1>8, <1>10
          DEF RollbackInv, AnyStepperInv, ContractInv, OdeintInv

LEMMA HandleKeeps ==
    ASSUME RollbackInv, Handle
    PROVE  RollbackInv'
  <1>1. UNCHANGED <<rb, left>>
    BY DEF Handle
  <1>2. CASE Iterate
    BY <1>1, <1>2, IterateKeeps
  <1>3. CASE StartAfterEvent
    BY <1>1, <1>3, StartAfterEventKeeps
  <1>4. CASE OdeintDone /\ UNCHANGED call
    BY <1>1, <1>4, OdeintDoneKeeps
  <1>5. ASSUME NEW h \in 1 .. End, NEW dt \in StepSizes, NEW stepEvent \in StepEvents,
               OdeintStep(h, dt, stepEvent), UNCHANGED call
        PROVE  RollbackInv'
    <2>1. stepEvent \in BOOLEAN
      BY RollbackFmuAssumption
    <2> QED BY <1>1, <1>5, <2>1, OdeintStepKeeps
  <1>6. ASSUME NEW h \in StepSizes, NEW stepEvent \in StepEvents,
               DenseStep(h, stepEvent), UNCHANGED call
        PROVE  RollbackInv'
    <2>1. stepEvent \in BOOLEAN
      BY RollbackFmuAssumption
    <2> QED BY <1>1, <1>6, <2>1, DenseStepKeeps
  <1>7. CASE (Clip \/ Bisect \/ Located) /\ UNCHANGED call
    BY <1>1, <1>7, ClipKeeps, BisectKeeps, LocatedKeeps
  <1>8. ASSUME NEW stepEvent \in StepEvents,
               AfterIntegration(stepEvent) \/ HandleArrival(stepEvent)
        PROVE  RollbackInv'
    <2>1. stepEvent \in BOOLEAN
      BY RollbackFmuAssumption
    <2> QED BY <1>1, <1>8, <2>1, AfterIntegrationKeeps, HandleArrivalKeeps
  <1>9. CASE FinishIntegration
    BY <1>1, <1>9, FinishIntegrationKeeps
  <1>10. CASE Arrived
    BY <1>1, <1>10, ArrivedKeeps
  <1> QED BY <1>2, <1>3, <1>4, <1>5, <1>6, <1>7, <1>8, <1>9, <1>10 DEF Handle

LEMMA ProgramKeeps ==
    ASSUME RollbackInv, Program
    PROVE  RollbackInv'
  <1>1. \A stepEvent \in StepEvents : stepEvent \in BOOLEAN
    BY RollbackFmuAssumption
  <1>2. ASSUME NEW tend \in Targets, NEW dt \in StepSizes, NEW stepEvent \in StepEvents,
               CallIntegrate(tend, dt, stepEvent)
        PROVE  RollbackInv'
    BY <1>1, <1>2, CallIntegrateKeeps
  <1>3. ASSUME NEW tend \in Targets, NEW dt \in StepSizes, RollbackTo(tend, dt)
        PROVE  RollbackInv'
    BY <1>3, RollbackToKeeps
  <1>4. ASSUME NEW stepEvent \in StepEvents,
               IntegrateAgain(stepEvent) \/ CallStepOverEvent(stepEvent)
        PROVE  RollbackInv'
    BY <1>1, <1>4, IntegrateAgainKeeps, CallStepOverEventKeeps
  <1>5. CASE Initialize
    BY <1>5, InitializeKeeps
  <1>6. CASE RolledBack \/ SteppedOverEvent
    BY <1>6, RolledBackKeeps, SteppedOverEventKeeps
  <1>7. CASE Save \/ Release \/ ResetEventFlags \/ CheckEvents
    BY <1>7, SaveKeeps, ReleaseKeeps, ResetEventFlagsKeeps, CheckEventsKeeps
  <1> QED BY <1>2, <1>3, <1>4, <1>5, <1>6, <1>7 DEF Program

LEMMA NextKeeps ==
    ASSUME RollbackInv, [Next]_vars
    PROVE  RollbackInv'
  <1>1. CASE Handle
    BY <1>1, HandleKeeps
  <1>2. CASE Program
    BY <1>2, ProgramKeeps
  <1>3. CASE Ended \/ UNCHANGED vars
    BY <1>3, StutterKeeps DEF Ended
  <1> QED BY <1>1, <1>2, <1>3 DEF Next

(* The inductive invariant, from which the properties follow.              *)
THEOREM RollbackInvHolds == Spec => []RollbackInv
  <1>1. Init => RollbackInv
    BY InitKeeps
  <1>2. RollbackInv /\ [Next]_vars => RollbackInv'
    BY NextKeeps
  <1> QED BY <1>1, <1>2, PTL DEF Spec

-----------------------------------------------------------------------------
(* The properties.                                                         *)

(* Every member of the handle, the instance and the Integrator keeps its   *)
(* type through all calls of FMUModelExchange and RollbackFMU.             *)
THEOREM HandleTypes == Spec => []TypeOK
  <1>1. RollbackInv => TypeOK
    BY DEF RollbackInv
  <1> QED BY <1>1, RollbackInvHolds, PTL

(* Between calls the object, the instance and the continuous states are at *)
(* one time, whatever the search for an event, step events and rollbacks   *)
(* did in between: of the steppers that are not dense.                     *)
THEOREM StatesMatchTime == Spec => []StateMatchesTime
  <1>1. RollbackInv => StateMatchesTime
    BY IdleFacts DEF StateMatchesTime, IsOdeint
  <1> QED BY <1>1, RollbackInvHolds, PTL

(* integrate() loses no change of sign between two calls, unless the       *)
(* program gave an event up or an integration began at a zero.             *)
THEOREM NoSignChangeLost == Spec => []SignChangesActedOn
  <1>1. RollbackInv => SignChangesActedOn
    BY IdleFacts DEF SignChangesActedOn, Indicators
  <1> QED BY <1>1, RollbackInvHolds, PTL

(* A state event that integrate() stopped before lies between time_ and    *)
(* tend_, which the search brought together to its precision.              *)
THEOREM HorizonHasEvent == Spec => []HorizonBracketsEvent
  <1>1. RollbackInv => HorizonBracketsEvent
    BY IdleFacts DEF HorizonBracketsEvent, HorizonInv
  <1> QED BY <1>1, RollbackInvHolds, PTL

(* No call passes a time event the FMU asked for, by the calls of          *)
(* integrate(), stepOverEvent() and rollback() in any order.               *)
THEOREM TimeEventsAreHandled == Spec => []NotPastTimeEvent
  <1>1. RollbackInv => NotPastTimeEvent
    BY IdleFacts DEF NotPastTimeEvent
  <1> QED BY <1>1, RollbackInvHolds, PTL

-----------------------------------------------------------------------------
(* integrate() keeps its contract. ContractFmu and ContractAsked are what  *)
(* the contract's variables stand for.                                     *)

ContractFmu == IF InIntegrate THEN call.before ELSE Outlook
ContractAsked == IF InIntegrate THEN call.tend ELSE None

LEMMA OutlookNext ==
    ASSUME me' \in HandleRecord, fmu' \in FmuRecord
    PROVE  /\ Outlook' \in Contract!FmuRecord
           /\ Outlook'.time = me'.time_ /\ Outlook'.upcoming = me'.upcomingEvent_
           /\ Outlook'.until = IF fmu'.stateless THEN me'.time_ ELSE me'.tend_
           /\ Outlook'.event =
                 (\/ me'.eventFlag_
                  \/ /\ fmu'.stateless
                     /\ me'.timeEvent_ \/ me'.stateEvent_ \/ me'.enterEventMode_)
  <1>1. me'.time_ \in Int /\ me'.tend_ \in Int /\ me'.upcomingEvent_ \in BOOLEAN
        /\ me'.eventFlag_ \in BOOLEAN
    BY DEF HandleRecord
  <1>2. PICK b \in BOOLEAN :
           b = (\/ me'.eventFlag_
                \/ /\ fmu'.stateless
                   /\ me'.timeEvent_ \/ me'.stateEvent_ \/ me'.enterEventMode_)
    OBVIOUS
  <1>3. PICK u \in Int : u = IF fmu'.stateless THEN me'.time_ ELSE me'.tend_
    BY <1>1
  <1>4. Outlook' = [time |-> me'.time_, until |-> u, upcoming |-> me'.upcomingEvent_,
                    event |-> b]
    BY <1>2, <1>3 DEF Outlook
  <1>5. PICK o : o = Outlook'
    OBVIOUS
  <1>6. o \in Contract!FmuRecord
    BY <1>1, <1>4, <1>5 DEF Contract!FmuRecord
  <1>7. o.time = me'.time_ /\ o.until = u /\ o.upcoming = me'.upcomingEvent_ /\ o.event = b
    BY <1>4, <1>5
  <1> QED BY <1>2, <1>3, <1>5, <1>6, <1>7

(* Four kinds of steps: within a call, into one, out of one and between    *)
(* calls.                                                                  *)

LEMMA GoesOnInCall ==
    ASSUME InIntegrate, InIntegrate', call'.before = call.before, call'.tend = call.tend
    PROVE  UNCHANGED <<ContractFmu, ContractAsked>>
  BY DEF ContractFmu, ContractAsked

LEMMA EntersCall ==
    ASSUME ~InIntegrate, InIntegrate', call'.before = Outlook, call'.tend \in Int
    PROVE  Contract!Integrate
  BY DEF Contract!Integrate

LEMMA LeavesCall ==
    ASSUME RollbackInv, InIntegrate, pc' = "idle", me' \in HandleRecord, fmu' \in FmuRecord,
           Least(Origin, call.tend) - Half <= me'.time_,
           me'.time_ <= Greatest(Origin, call.tend) + Eighth,
           \/ Outlook'.event
           \/ me'.time_ = Greatest(Origin, call.tend)
           \/ call.tend < Origin /\ me'.time_ = call.tend,
           me'.upcomingEvent_ =>
               /\ Outlook'.event
               /\ Least(me'.time_, call.tend) - Half <= Outlook'.until
               /\ Outlook'.until <= me'.time_ + (Half + Eighth)
    PROVE  Contract!Return
  <1>1. call \in CallRecord
    BY DEF RollbackInv, TypeOK
  <1>2. call.tend \in Int /\ call.tend # None
    BY <1>1, RollbackFmuAssumption DEF CallRecord
  <1>3. ~InIntegrate'
    BY DEF InIntegrate
  <1>4. PICK f, g : f = call.before /\ g = Outlook'
    OBVIOUS
  <1>5. g.time = me'.time_ /\ g.upcoming = me'.upcomingEvent_
    BY <1>4, OutlookNext
  <1>6. Contract!From(f) = Origin
    BY <1>4 DEF Contract!From, Origin
  <1>7. Contract!Earlier(Origin, call.tend) = Least(Origin, call.tend)
        /\ Contract!Later(Origin, call.tend) = Greatest(Origin, call.tend)
        /\ Contract!Earlier(g.time, call.tend) = Least(me'.time_, call.tend)
    BY <1>5 DEF Contract!Earlier, Contract!Later, Least, Greatest
  <1>8. Contract!Outcome(f, call.tend, g)
    BY <1>4, <1>5, <1>6, <1>7 DEF Contract!Outcome
  <1> QED BY <1>2, <1>3, <1>4, <1>8 DEF Contract!Return

LEMMA BetweenCalls ==
    ASSUME ~InIntegrate, ~InIntegrate', me' \in HandleRecord, fmu' \in FmuRecord,
           me'.upcomingEvent_ => me.upcomingEvent_
    PROVE  Contract!Put
  <1>1. Outlook' \in Contract!FmuRecord /\ Outlook'.upcoming = me'.upcomingEvent_
    BY OutlookNext
  <1>2. Outlook.upcoming = me.upcomingEvent_
    BY DEF Outlook
  <1> QED BY <1>1, <1>2 DEF Contract!Put

-----------------------------------------------------------------------------
(* The steps within a call.                                                *)

LEMMA SearchGoesOn ==
    ASSUME InIntegrate, pc' \in {"stepping", "searching", "integrated"}, UNCHANGED call
    PROVE  UNCHANGED <<ContractFmu, ContractAsked>>
  BY GoesOnInCall DEF InIntegrate

LEMMA IntegrationGoesOn ==
    ASSUME RollbackInv, UNCHANGED call,
           \/ OdeintDone
           \/ \E h \in 1 .. End, dt \in StepSizes, stepEvent \in StepEvents :
                 OdeintStep(h, dt, stepEvent)
           \/ \E h \in StepSizes, stepEvent \in StepEvents : DenseStep(h, stepEvent)
           \/ Clip \/ Bisect \/ Located
    PROVE  UNCHANGED <<ContractFmu, ContractAsked>>
  <1>1. TypeOK
    BY DEF RollbackInv
  <1>2. CASE OdeintDone
    BY <1>2, SearchGoesOn DEF OdeintDone, InIntegrate
  <1>3. ASSUME NEW h \in 1 .. End, NEW dt \in StepSizes, NEW stepEvent \in StepEvents,
               OdeintStep(h, dt, stepEvent)
        PROVE  UNCHANGED <<ContractFmu, ContractAsked>>
    <2>1. pc = "stepping" /\ pc' \in {"stepping", "searching", "integrated"}
      BY <1>1, <1>3, OdeintStepEffect, RollbackFmuAssumption
    <2> QED BY <2>1, SearchGoesOn DEF InIntegrate
  <1>4. ASSUME NEW h \in StepSizes, NEW stepEvent \in StepEvents, DenseStep(h, stepEvent)
        PROVE  UNCHANGED <<ContractFmu, ContractAsked>>
    <2>1. pc = "stepping" /\ pc' \in {"stepping", "searching", "integrated"}
      BY <1>1, <1>4, DenseStepEffect, RollbackFmuAssumption
    <2> QED BY <2>1, SearchGoesOn DEF InIntegrate
  <1>5. CASE Clip
    <2>1. pc = "searching" /\ pc' \in {"stepping", "searching", "integrated"}
      BY <1>1, <1>5, ClipEffect
    <2> QED BY <2>1, SearchGoesOn DEF InIntegrate
  <1>6. CASE Bisect
    <2>1. pc = "searching" /\ pc' = pc
      BY <1>6 DEF Bisect
    <2> QED BY <2>1, SearchGoesOn DEF InIntegrate
  <1>7. CASE Located
    <2>1. pc = "searching" /\ pc' = "integrated"
      BY <1>7 DEF Located
    <2> QED BY <2>1, SearchGoesOn DEF InIntegrate
  <1> QED BY <1>2, <1>3, <1>4, <1>5, <1>6, <1>7

LEMMA IterationGoesOn ==
    ASSUME RollbackInv, Iterate
    PROVE  UNCHANGED <<ContractFmu, ContractAsked>>
  <1>1. /\ pc = "iterating" /\ pc' = pc /\ me' = me
        /\ fmu' \in NewDiscreteStates(fmu)
        /\ call' = [call EXCEPT !.iterations = IF me.version = 2 THEN @ + 1 ELSE @]
    BY DEF Iterate
  <1>2. fmu \in FmuRecord /\ call \in CallRecord
    BY DEF RollbackInv, TypeOK
  <1>3. call'.then = call.then /\ call'.before = call.before /\ call'.tend = call.tend
    BY <1>1, <1>2 DEF CallRecord
  <1>4. InIntegrate' = InIntegrate
    BY <1>1, <1>3 DEF InIntegrate
  <1>5. fmu'.stateless = fmu.stateless
    BY <1>1, <1>2, NewDiscreteStatesEffect
  <1>6. Outlook' = Outlook
    BY <1>1, <1>5 DEF Outlook
  <1> QED BY <1>3, <1>4, <1>6 DEF ContractFmu, ContractAsked

LEMMA StartGoesOn ==
    ASSUME RollbackInv, StartAfterEvent
    PROVE  UNCHANGED <<ContractFmu, ContractAsked>>
  <1>1. /\ pc = "iterating" /\ call.then = "start" /\ call' = call
        /\ Start(Continuous, SteppedOver(Continuous), call.tend, call.dt)
    BY DEF StartAfterEvent, Iterated
  <1>2. pc' \in {"stepping", "arrived"}
    BY <1>1 DEF Start, Arrive, IntegrateStates
  <1> QED BY <1>1, <1>2, GoesOnInCall DEF InIntegrate

-----------------------------------------------------------------------------
(* The steps a call ends with, and the ones that only handle events first. *)

ContractStep == Contract!Next \/ UNCHANGED <<ContractFmu, ContractAsked>>

LEMMA AfterIntegrationReturns ==
    ASSUME RollbackInv, NEW stepEvent \in BOOLEAN, AfterIntegration(stepEvent)
    PROVE  ContractStep
  <1>1. TypeOK /\ AnyStepperInv
    BY DEF RollbackInv
  <1>2. pc = "integrated" /\ InIntegrate /\ Integrating
    BY DEF AfterIntegration, InIntegrate, Integrating
  <1>3. me \in HandleRecord /\ fmu \in FmuRecord /\ call \in CallRecord
        /\ ig \in IntegratorRecord
    BY <1>1 DEF TypeOK
  <1>4. ASSUME call'.tend = call.tend, call'.before = call.before, pc' = "iterating",
               call'.then \in {"step", "event"}
        PROVE  ContractStep
    BY <1>2, <1>4, GoesOnInCall DEF InIntegrate, ContractStep
  <1>5. ASSUME NEW m \in HandleRecord, HandleEvents(fmu, m, call, "step")
        PROVE  ContractStep
    BY <1>3, <1>4, <1>5, HandleEventsEffect DEF Handles
  <1>6. ASSUME NEW m \in HandleRecord, StepOver(fmu, m, call, "event", stepEvent)
        PROVE  ContractStep
    BY <1>3, <1>4, <1>6, StepOverEffect DEF Handles
  <1>7. ~me.upcomingEvent_ /\ ~fmu.stateless
    BY <1>1, <1>2 DEF AnyStepperInv, PlacesInv
  <1>8. WithinReach(me.time_)
        /\ \/ ig.info.stepEvent \/ ig.info.stateEvent
           \/ ig.end <= me.time_ /\ me.time_ <= fmu.next /\ (me.timeEvent_ \/ Reached)
    BY <1>1, <1>2 DEF AnyStepperInv, ContractInv, ProgressInv
  <1>9. me.time_ \in Int
    BY <1>3 DEF HandleRecord
  <1>10. ASSUME ~ig.info.stepEvent, ig.info.stateEvent \/ me.timeEvent_,
                fmu' = fmu, Return, NEW m \in HandleRecord, EventAhead(m),
                me' \in HandleRecord, me'.upcomingEvent_, me'.eventFlag_,
                me'.time_ = m.time_, me'.tend_ = m.tend_
         PROVE  ContractStep
    <2>1. Outlook'.event /\ Outlook'.until = m.tend_
      BY <1>3, <1>7, <1>10, OutlookNext
    <2>2. CASE ig.info.stateEvent
      <3>1. m.time_ = ig.info.tLower /\ m.tend_ = ig.info.tUpper
        BY <1>10, <2>2 DEF EventAhead
      <3>2. /\ Origin <= ig.info.tLower /\ ig.info.tLower <= Greatest(Origin, ig.end)
            /\ Least(ig.info.tLower, call.tend) - Half <= ig.info.tUpper
            /\ ig.info.tUpper - ig.info.tLower <= Half + Eighth
        BY <1>1, <1>2, <2>2 DEF AnyStepperInv, ContractInv, SpanInv
      <3>3. Least(Origin, call.tend) - Half <= m.time_
            /\ m.time_ <= Greatest(Origin, call.tend) + Eighth
            /\ m.tend_ <= m.time_ + (Half + Eighth)
        BY <1>2, <3>1, <3>2, CallBounds, PrecisionParts DEF Least, Greatest
      <3> QED BY <1>2, <1>3, <1>10, <2>1, <3>1, <3>2, <3>3, ReturnEffect, LeavesCall
              DEF ContractStep, Contract!Next
    <2>3. CASE ~ig.info.stateEvent
      <3>1. m.time_ = me.time_ /\ m.tend_ = fmu.next
        BY <1>2, <1>10, <2>3, CallBounds DEF EventAhead
      <3>2. me.timeEvent_ /\ ig.end = fmu.next - Half
        BY <1>2, <1>10, <2>3, CallBounds
      <3>3. ig.end <= me.time_ /\ me.time_ <= fmu.next
        BY <1>8, <1>10, <2>3
      <3>4. /\ Least(Origin, call.tend) - Half <= m.time_
            /\ m.time_ <= Greatest(Origin, call.tend) + Eighth
            /\ m.tend_ <= m.time_ + (Half + Eighth)
            /\ Least(m.time_, call.tend) - Half <= m.tend_
        BY <1>2, <1>8, <1>9, <3>1, <3>2, <3>3, CallBounds, PrecisionParts
           DEF WithinReach, Least, Greatest
      <3> QED BY <1>2, <1>3, <1>10, <2>1, <3>4, ReturnEffect, LeavesCall
              DEF ContractStep, Contract!Next
    <2> QED BY <2>2, <2>3
  <1>11. ASSUME ~ig.info.stepEvent, ~ig.info.stateEvent, ~me.timeEvent_,
                fmu' = fmu, Return, me' \in HandleRecord,
                me'.upcomingEvent_ = me.upcomingEvent_, me'.time_ = me.time_
         PROVE  ContractStep
    <2>1. \/ me'.time_ = Greatest(Origin, call.tend)
          \/ call.tend < Origin /\ me'.time_ = call.tend
      BY <1>8, <1>11 DEF Reached
    <2>2. Least(Origin, call.tend) - Half <= me'.time_
          /\ me'.time_ <= Greatest(Origin, call.tend) + Eighth
      BY <1>8, <1>9, <1>11, CallBounds, PrecisionParts DEF WithinReach, Least, Greatest
    <2> QED BY <1>2, <1>3, <1>7, <1>11, <2>1, <2>2, ReturnEffect, LeavesCall
            DEF ContractStep, Contract!Next
  <1> QED BY <1>1, <1>5, <1>6, <1>10, <1>11, AfterIntegrationEffect

LEMMA HandleArrivalReturns ==
    ASSUME RollbackInv, NEW stepEvent \in BOOLEAN, HandleArrival(stepEvent)
    PROVE  ContractStep
  <1>1. TypeOK /\ AnyStepperInv
    BY DEF RollbackInv
  <1>2. PICK m \in HandleRecord :
           /\ SameHandle(m, me) /\ m.upcomingEvent_ = me.upcomingEvent_
           /\ LET event == m.timeEvent_ \/ m.enterEventMode_ \/ m.stateEvent_
              IN  \/ /\ event /\ ~m.stopBeforeEvent_
                     /\ HandleEvents(fmu, m, call, "arrived") /\ ig' = ig
                  \/ /\ ~event \/ m.stopBeforeEvent_
                     /\ fmu' = fmu /\ Return
                     /\ me' \in HandleRecord
                     /\ me'.upcomingEvent_ = (me.upcomingEvent_ \/ event)
                     /\ me'.enterEventMode_ = m.enterEventMode_
                     /\ SameHandle(me', m)
    BY <1>1, HandleArrivalEffect
  <1>3. pc = "arrived" /\ InIntegrate
    BY DEF HandleArrival, InIntegrate
  <1>4. me \in HandleRecord /\ fmu \in FmuRecord /\ call \in CallRecord
        /\ ig \in IntegratorRecord
    BY <1>1 DEF TypeOK
  <1>5. fmu.stateless /\ ~me.upcomingEvent_ /\ WithinReach(me.time_)
        /\ (me.timeEvent_ \/ Reached)
    BY <1>1, <1>3 DEF AnyStepperInv, PlacesInv, ContractInv, ProgressInv
  <1>6. me.time_ \in Int
    BY <1>4 DEF HandleRecord
  <1>7. ASSUME HandleEvents(fmu, m, call, "arrived")
        PROVE  ContractStep
    <2>1. pc' = "iterating" /\ call'.then = "arrived"
          /\ call'.tend = call.tend /\ call'.before = call.before
      BY <1>4, <1>7, HandleEventsEffect DEF Handles
    <2> QED BY <1>3, <2>1, GoesOnInCall DEF InIntegrate, ContractStep
  <1>8. ASSUME NEW event, event = (m.timeEvent_ \/ m.enterEventMode_ \/ m.stateEvent_),
               fmu' = fmu, Return, me' \in HandleRecord,
               me'.upcomingEvent_ = (me.upcomingEvent_ \/ event),
               me'.enterEventMode_ = m.enterEventMode_, SameHandle(me', m)
        PROVE  ContractStep
    <2>1. me'.time_ = me.time_ /\ me'.timeEvent_ = me.timeEvent_
          /\ me'.timeEvent_ = m.timeEvent_ /\ me'.stateEvent_ = m.stateEvent_
      BY <1>2, <1>8 DEF SameHandle
    <2>2. (event => Outlook'.event) /\ Outlook'.until = me.time_
      BY <1>4, <1>5, <1>8, <2>1, OutlookNext
    <2>3. event \/ Reached
      BY <1>5, <1>8, <2>1
    <2>4. /\ Least(Origin, call.tend) - Half <= me'.time_
          /\ me'.time_ <= Greatest(Origin, call.tend) + Eighth
          /\ Least(me'.time_, call.tend) - Half <= me.time_
          /\ me.time_ <= me'.time_ + (Half + Eighth)
      BY <1>5, <1>6, <2>1, CallBounds, PrecisionParts DEF WithinReach, Least, Greatest
    <2>5. \/ Outlook'.event
          \/ me'.time_ = Greatest(Origin, call.tend)
          \/ call.tend < Origin /\ me'.time_ = call.tend
      BY <2>1, <2>2, <2>3 DEF Reached
    <2> QED BY <1>3, <1>4, <1>5, <1>8, <2>2, <2>4, <2>5, ReturnEffect, LeavesCall
            DEF ContractStep, Contract!Next
  <1> QED BY <1>2, <1>7, <1>8

LEMMA ArrivedReturns ==
    ASSUME RollbackInv, Arrived
    PROVE  ContractStep
  <1>1. TypeOK /\ AnyStepperInv
    BY DEF RollbackInv
  <1>2. /\ pc = "iterating" /\ Iterated /\ call.then = "arrived"
        /\ fmu' = Continuous /\ me' = SaveEventIndicators(me, Continuous) /\ Return
    BY DEF Arrived, Iterated
  <1>3. InIntegrate
    BY <1>2 DEF InIntegrate
  <1>4. me \in HandleRecord /\ ig \in IntegratorRecord /\ Continuous \in FmuRecord
        /\ Continuous.stateless = fmu.stateless
    BY <1>1, <1>2, IteratedEffect DEF TypeOK
  <1>5. ~me.upcomingEvent_ /\ fmu.stateless /\ WithinReach(me.time_)
        /\ (me.timeEvent_ \/ me.enterEventMode_ \/ me.stateEvent_)
    BY <1>1, <1>2 DEF AnyStepperInv, PlacesInv, ContractInv, ProgressInv, IteratingFor
  <1>6. /\ me' \in HandleRecord /\ me'.upcomingEvent_ = me.upcomingEvent_
        /\ SameHandle(me', me)
    BY <1>2, <1>4, SaveEffect
  <1>7. me'.enterEventMode_ = me.enterEventMode_
    BY <1>2, <1>4 DEF SaveEventIndicators, HandleRecord
  <1>8. me'.time_ = me.time_ /\ me'.timeEvent_ = me.timeEvent_
        /\ me'.stateEvent_ = me.stateEvent_
    BY <1>6 DEF SameHandle
  <1>9. Outlook'.event
    BY <1>2, <1>4, <1>5, <1>6, <1>7, <1>8, OutlookNext
  <1>10. me.time_ \in Int
    BY <1>4 DEF HandleRecord
  <1>11. Least(Origin, call.tend) - Half <= me'.time_
         /\ me'.time_ <= Greatest(Origin, call.tend) + Eighth
    BY <1>5, <1>8, <1>10, CallBounds, PrecisionParts DEF WithinReach, Least, Greatest
  <1> QED BY <1>2, <1>3, <1>4, <1>5, <1>6, <1>9, <1>11, ReturnEffect, LeavesCall
          DEF ContractStep, Contract!Next

LEMMA FinishIntegrationReturns ==
    ASSUME RollbackInv, FinishIntegration
    PROVE  ContractStep
  <1>1. TypeOK /\ AnyStepperInv
    BY DEF RollbackInv
  <1>2. me \in HandleRecord /\ ig \in IntegratorRecord
    BY <1>1 DEF TypeOK
  <1>3. Continuous \in FmuRecord /\ pc = "iterating" /\ Iterated
        /\ call.then \in {"step", "event"} /\ InIntegrate
    BY IteratedEffect DEF FinishIntegration, Iterated, InIntegrate
  <1>4. PICK m : m = IF call.then = "event" THEN SteppedOver(Continuous) ELSE me
    OBVIOUS
  <1>5. me' = [m EXCEPT !.eventFlag_ = EventFlag(m)] /\ fmu' = Continuous /\ Return
    BY <1>4 DEF FinishIntegration
  <1>6. ~me.upcomingEvent_
    BY <1>1, <1>3 DEF AnyStepperInv, PlacesInv, IteratingFor
  <1>7. m \in HandleRecord /\ ~m.upcomingEvent_ /\ m.time_ = me.time_
        /\ m.timeEvent_ = me.timeEvent_ /\ m.stateEvent_ = me.stateEvent_
    BY <1>2, <1>3, <1>4, <1>6, SteppedOverEffect DEF SameHandle
  <1>8. IF call.then = "step" THEN ig.info.stepEvent ELSE me.stateEvent_ \/ me.timeEvent_
    BY <1>1, <1>3 DEF AnyStepperInv, ContractInv, ProgressInv, IteratingFor
  <1>9. PICK n : n = [m EXCEPT !.eventFlag_ = EventFlag(m)]
    OBVIOUS
  <1>10. n \in HandleRecord /\ ~n.upcomingEvent_ /\ n.time_ = me.time_ /\ n.eventFlag_
    <2>1. n \in HandleRecord
          /\ n.eventFlag_ = (m.timeEvent_ \/ m.stateEvent_ \/ m.upcomingEvent_
                             \/ ig.info.stepEvent)
          /\ n.upcomingEvent_ = m.upcomingEvent_ /\ n.time_ = m.time_
      BY <1>2, <1>7, <1>9, EventFlagEffect
    <2> QED BY <1>7, <1>8, <2>1
  <1>11. me' = n
    BY <1>5, <1>9
  <1>12. Outlook'.event
    BY <1>3, <1>5, <1>10, <1>11, OutlookNext
  <1>13. me.time_ \in Int
    BY <1>2 DEF HandleRecord
  <1>14. Least(Origin, call.tend) - Half <= me.time_
         /\ me.time_ <= Greatest(Origin, call.tend) + Eighth
    <2>1. CASE call.then = "step"
      <3>1. WithinReach(me.time_)
        BY <1>1, <1>3, <2>1 DEF AnyStepperInv, ContractInv, ProgressInv, IteratingFor
      <3> QED BY <1>13, <3>1, CallBounds, PrecisionParts DEF WithinReach, Least, Greatest
    <2>2. CASE call.then = "event"
      BY <1>1, <1>3, <2>2 DEF AnyStepperInv, ContractInv, ProgressInv, IteratingFor
    <2> QED BY <1>3, <2>1, <2>2
  <1> QED BY <1>2, <1>3, <1>5, <1>10, <1>11, <1>12, <1>14, ReturnEffect, LeavesCall
          DEF ContractStep, Contract!Next

-----------------------------------------------------------------------------
(* The steps between calls, and the calls.                                 *)

(* How a call of integrate() begins.                                       *)
LEMMA IntegrateEnters ==
    ASSUME RollbackInv, ~InIntegrate, NEW f \in FmuRecord, NEW c \in CallRecord,
           NEW stepEvent \in BOOLEAN, f.stateless = fmu.stateless,
           Integrate(f, me, c, stepEvent)
    PROVE  Contract!Integrate
  <1>1. TypeOK
    BY DEF RollbackInv
  <1>2. me \in HandleRecord
    BY <1>1 DEF TypeOK
  <1>3. PICK d \in CallRecord, n \in HandleRecord :
           /\ d.tend = c.tend /\ d.then = "start" /\ d.before = Outlook
           /\ \/ HandleEvents(f, n, d, "start")
              \/ StepOver(f, me, d, "start", stepEvent)
              \/ Start(f, n, d.tend, d.dt) /\ call' = d
    BY <1>1, IntegrateEffect
  <1>4. c.tend \in Int
    BY DEF CallRecord
  <1>5. CASE HandleEvents(f, n, d, "start")
    <2>1. pc' = "iterating" /\ call'.then = "start"
          /\ call'.tend = d.tend /\ call'.before = d.before
      BY <1>3, <1>5, HandleEventsEffect DEF Handles
    <2> QED BY <1>3, <1>4, <2>1, EntersCall DEF InIntegrate
  <1>6. CASE StepOver(f, me, d, "start", stepEvent)
    <2>1. pc' = "iterating" /\ call'.then = "start"
          /\ call'.tend = d.tend /\ call'.before = d.before
      BY <1>2, <1>3, <1>6, StepOverEffect DEF Handles
    <2> QED BY <1>3, <1>4, <2>1, EntersCall DEF InIntegrate
  <1>7. CASE Start(f, n, d.tend, d.dt) /\ call' = d
    <2>1. pc' \in {"stepping", "arrived"}
      BY <1>7 DEF Start, Arrive, IntegrateStates
    <2> QED BY <1>3, <1>4, <1>7, <2>1, EntersCall DEF InIntegrate
  <1> QED BY <1>3, <1>5, <1>6, <1>7

LEMMA CallEnters ==
    ASSUME RollbackInv, NEW tend \in Targets, NEW dt \in StepSizes, NEW stepEvent \in BOOLEAN,
           CallIntegrate(tend, dt, stepEvent)
    PROVE  ContractStep
  <1>1. fmu \in FmuRecord /\ call \in CallRecord
    BY DEF RollbackInv, TypeOK
  <1>2. PICK c : c = [call EXCEPT !.tend = tend, !.dt = dt]
    OBVIOUS
  <1>3. pc = "idle" /\ Integrate(fmu, me, c, stepEvent)
    BY <1>2 DEF CallIntegrate
  <1>4. tend \in Int
    BY RollbackFmuAssumption
  <1>5. c \in CallRecord
    BY <1>1, <1>2, <1>4 DEF CallRecord
  <1>6. ~InIntegrate
    BY <1>3 DEF InIntegrate
  <1> QED BY <1>1, <1>3, <1>5, <1>6, IntegrateEnters DEF ContractStep, Contract!Next

LEMMA AgainEnters ==
    ASSUME RollbackInv, NEW stepEvent \in BOOLEAN, IntegrateAgain(stepEvent)
    PROVE  ContractStep
  <1>1. Iterated /\ pc = "iterating" /\ call.then = "restored"
        /\ Integrate(Continuous, me, call, stepEvent)
    BY DEF IntegrateAgain, Iterated
  <1>2. call \in CallRecord /\ Continuous \in FmuRecord
        /\ Continuous.stateless = fmu.stateless
    BY <1>1, IteratedEffect DEF RollbackInv, TypeOK
  <1>3. ~InIntegrate
    BY <1>1 DEF InIntegrate
  <1> QED BY <1>1, <1>2, <1>3, IntegrateEnters DEF ContractStep, Contract!Next

(* What a program may do with the object in between.                       *)
LEMMA InitializePuts ==
    ASSUME RollbackInv, RollbackInv', Initialize
    PROVE  ContractStep
  <1>1. pc = "new" /\ pc' = "idle"
    BY DEF Initialize
  <1>2. ~InIntegrate /\ ~InIntegrate'
    BY <1>1 DEF InIntegrate
  <1>3. me \in HandleRecord /\ me' \in HandleRecord /\ fmu' \in FmuRecord
    BY DEF RollbackInv, TypeOK
  <1>4. me'.upcomingEvent_ = me.upcomingEvent_
    <2>1. PICK next : me' = SaveEventIndicators([me EXCEPT !.tnextevent_ = next], fmu)
      BY DEF Initialize
    <2> QED BY <1>3, <2>1 DEF SaveEventIndicators, HandleRecord
  <1> QED BY <1>2, <1>3, <1>4, BetweenCalls DEF ContractStep, Contract!Next

LEMMA RollbackPuts ==
    ASSUME RollbackInv, RollbackInv', 
           \/ \E tend \in Targets, dt \in StepSizes : RollbackTo(tend, dt)
           \/ RolledBack
    PROVE  ContractStep
  <1>1. me \in HandleRecord /\ me' \in HandleRecord /\ fmu' \in FmuRecord
        /\ call \in CallRecord
    BY DEF RollbackInv, TypeOK
  <1>2. ASSUME NEW tend \in Targets, NEW dt \in StepSizes, RollbackTo(tend, dt)
        PROVE  ~InIntegrate /\ ~InIntegrate' /\ me'.upcomingEvent_ = me.upcomingEvent_
    <2>1. PICK c : c = [call EXCEPT !.tend = tend, !.dt = dt]
      OBVIOUS
    <2>2. pc = "idle" /\ pc' = "iterating" /\ call' = [c EXCEPT !.then = "rolled", !.iterations = 0]
          /\ me' = [me EXCEPT !.time_ = rb.time_]
      BY <1>2, <2>1 DEF RollbackTo, HandleEvents
    <2>3. call'.then = "rolled"
      BY <1>1, <2>1, <2>2 DEF CallRecord
    <2>4. me'.upcomingEvent_ = me.upcomingEvent_
      BY <1>1, <2>2 DEF HandleRecord
    <2> QED BY <2>2, <2>3, <2>4 DEF InIntegrate
  <1>3. ASSUME RolledBack
        PROVE  ~InIntegrate /\ ~InIntegrate' /\ me' = me
    <2>1. pc = "iterating" /\ call.then = "rolled" /\ pc' = "iterating" /\ me' = me
          /\ call' = [call EXCEPT !.then = "restored", !.iterations = 0]
      BY <1>3 DEF RolledBack, Iterated, HandleEvents
    <2>2. call'.then = "restored"
      BY <1>1, <2>1 DEF CallRecord
    <2> QED BY <2>1, <2>2 DEF InIntegrate
  <1> QED BY <1>1, <1>2, <1>3, BetweenCalls DEF ContractStep, Contract!Next

LEMMA StepOverPuts ==
    ASSUME RollbackInv, RollbackInv',
           \/ \E stepEvent \in StepEvents : CallStepOverEvent(stepEvent)
           \/ SteppedOverEvent
    PROVE  ContractStep
  <1>1. me \in HandleRecord /\ me' \in HandleRecord /\ fmu' \in FmuRecord
        /\ fmu \in FmuRecord /\ call \in CallRecord
    BY DEF RollbackInv, TypeOK
  <1>2. ASSUME NEW stepEvent \in StepEvents, CallStepOverEvent(stepEvent)
        PROVE  ~InIntegrate /\ ~InIntegrate' /\ me'.upcomingEvent_ = me.upcomingEvent_
    <2>1. stepEvent \in BOOLEAN
      BY RollbackFmuAssumption
    <2>2. pc = "idle" /\ StepOver(fmu, me, call, "over", stepEvent)
      BY <1>2 DEF CallStepOverEvent
    <2>3. me'.upcomingEvent_ = me.upcomingEvent_ /\ pc' = "iterating" /\ call'.then = "over"
      BY <1>1, <2>1, <2>2, StepOverEffect DEF Handles
    <2> QED BY <2>2, <2>3 DEF InIntegrate
  <1>3. ASSUME SteppedOverEvent
        PROVE  ~InIntegrate /\ ~InIntegrate' /\ ~me'.upcomingEvent_
    <2>1. pc = "iterating" /\ Iterated /\ call.then = "over" /\ pc' = "idle"
          /\ me' = SteppedOver(Continuous)
      BY <1>3 DEF SteppedOverEvent, Iterated, Return
    <2>2. ~me'.upcomingEvent_
      BY <1>1, <2>1, IteratedEffect, SteppedOverEffect
    <2> QED BY <2>1, <2>2 DEF InIntegrate
  <1> QED BY <1>1, <1>2, <1>3, BetweenCalls DEF ContractStep, Contract!Next

LEMMA FlagsPut ==
    ASSUME RollbackInv, RollbackInv', ResetEventFlags \/ CheckEvents
    PROVE  ContractStep
  <1>1. me \in HandleRecord /\ me' \in HandleRecord /\ fmu' \in FmuRecord
    BY DEF RollbackInv, TypeOK
  <1>2. pc = "idle" /\ pc' = "idle"
    BY DEF ResetEventFlags, CheckEvents
  <1>3. CASE ResetEventFlags
    <2>1. ~me'.upcomingEvent_
      BY <1>1, <1>3 DEF ResetEventFlags, HandleRecord
    <2> QED BY <1>1, <1>2, <2>1, BetweenCalls DEF InIntegrate, ContractStep, Contract!Next
  <1>4. CASE CheckEvents
    <2>1. me'.upcomingEvent_ = me.upcomingEvent_
      BY <1>1, <1>4 DEF CheckEvents, HandleRecord
    <2> QED BY <1>1, <1>2, <2>1, BetweenCalls DEF InIntegrate, ContractStep, Contract!Next
  <1> QED BY <1>3, <1>4

LEMMA NothingMoves ==
    ASSUME UNCHANGED <<fmu, me, pc, call>>
    PROVE  ContractStep
  <1>1. InIntegrate' = InIntegrate /\ Outlook' = Outlook
    BY DEF InIntegrate, Outlook
  <1> QED BY <1>1 DEF ContractStep, ContractFmu, ContractAsked

-----------------------------------------------------------------------------

LEMMA InitPromised == Init => Contract!Init
  <1> SUFFICES ASSUME Init PROVE Contract!Init
    OBVIOUS
  <1>1. pc = "new" /\ ~me.upcomingEvent_
    BY DEF Init
  <1>2. me \in HandleRecord /\ fmu \in FmuRecord
    BY InitKeeps DEF RollbackInv, TypeOK
  <1>3. ~InIntegrate
    BY <1>1 DEF InIntegrate
  <1>4. Outlook \in Contract!FmuRecord /\ ~Outlook.upcoming
    <2>1. me.time_ \in Int /\ me.tend_ \in Int /\ me.upcomingEvent_ \in BOOLEAN
          /\ me.eventFlag_ \in BOOLEAN
      BY <1>2 DEF HandleRecord
    <2>2. PICK b \in BOOLEAN :
             b = (\/ me.eventFlag_
                  \/ fmu.stateless /\ (me.timeEvent_ \/ me.stateEvent_ \/ me.enterEventMode_))
      OBVIOUS
    <2>3. PICK u \in Int : u = IF fmu.stateless THEN me.time_ ELSE me.tend_
      BY <2>1
    <2>4. Outlook = [time |-> me.time_, until |-> u, upcoming |-> me.upcomingEvent_,
                     event |-> b]
      BY <2>2, <2>3 DEF Outlook
    <2> QED BY <1>1, <2>1, <2>4 DEF Contract!FmuRecord
  <1> QED BY <1>3, <1>4 DEF Contract!Init

LEMMA HandlePromised ==
    ASSUME RollbackInv, Handle
    PROVE  ContractStep
  <1>1. \A stepEvent \in StepEvents : stepEvent \in BOOLEAN
    BY RollbackFmuAssumption
  <1>2. CASE Iterate \/ StartAfterEvent
    BY <1>2, IterationGoesOn, StartGoesOn DEF ContractStep
  <1>3. CASE /\ \/ OdeintDone
                \/ \E h \in 1 .. End, dt \in StepSizes, stepEvent \in StepEvents :
                      OdeintStep(h, dt, stepEvent)
                \/ \E h \in StepSizes, stepEvent \in StepEvents : DenseStep(h, stepEvent)
                \/ Clip \/ Bisect \/ Located
             /\ UNCHANGED call
    BY <1>3, IntegrationGoesOn DEF ContractStep
  <1>4. ASSUME NEW stepEvent \in StepEvents,
               AfterIntegration(stepEvent) \/ HandleArrival(stepEvent)
        PROVE  ContractStep
    BY <1>1, <1>4, AfterIntegrationReturns, HandleArrivalReturns
  <1>5. CASE FinishIntegration \/ Arrived
    BY <1>5, FinishIntegrationReturns, ArrivedReturns
  <1> QED BY <1>2, <1>3, <1>4, <1>5 DEF Handle

LEMMA ProgramPromised ==
    ASSUME RollbackInv, RollbackInv', Program
    PROVE  ContractStep
  <1>1. \A stepEvent \in StepEvents : stepEvent \in BOOLEAN
    BY RollbackFmuAssumption
  <1>2. ASSUME NEW tend \in Targets, NEW dt \in StepSizes, NEW stepEvent \in StepEvents,
               CallIntegrate(tend, dt, stepEvent)
        PROVE  ContractStep
    BY <1>1, <1>2, CallEnters
  <1>3. ASSUME NEW stepEvent \in StepEvents, IntegrateAgain(stepEvent)
        PROVE  ContractStep
    BY <1>1, <1>3, AgainEnters
  <1>4. CASE Initialize
    BY <1>4, InitializePuts
  <1>5. CASE Save \/ Release
    BY <1>5, NothingMoves DEF Save, Release
  <1> QED BY <1>2, <1>3, <1>4, <1>5, RollbackPuts, StepOverPuts, FlagsPut DEF Program

(* integrate() of FMUModelExchange goes until tend or until the first      *)
(* event, and an event it stopped before lies no further than the horizon: *)
(* of all steppers, with and without continuous states, and whatever the   *)
(* program does between its calls.                                         *)
THEOREM IntegrateKeepsItsContract == Spec => ImplementsContract
  <1>1. Init => Contract!Init
    BY InitPromised
  <1>2. RollbackInv /\ RollbackInv' /\ [Next]_vars
        => [Contract!Next]_<<ContractFmu, ContractAsked>>
    <2> SUFFICES ASSUME RollbackInv, RollbackInv', [Next]_vars PROVE ContractStep
      BY DEF ContractStep
    <2>1. CASE Handle
      BY <2>1, HandlePromised
    <2>2. CASE Program
      BY <2>2, ProgramPromised
    <2>3. CASE Ended \/ UNCHANGED vars
      BY <2>3, NothingMoves DEF Ended, vars
    <2> QED BY <2>1, <2>2, <2>3 DEF Next
  <1> QED BY <1>1, <1>2, RollbackInvHolds, PTL
          DEF Spec, ImplementsContract, Contract!Spec, ContractFmu, ContractAsked

=============================================================================
