---------------------------- MODULE IncrementalFmu ----------------------------
(***************************************************************************)
(* IncrementalFMU: a program synchronizes a model exchange FMU up to End.  *)
(* Each synchronization puts the FMU to a predicted state, may give it new *)
(* inputs and predicts its states for a horizon, or until the next event.  *)
(* The FMU has continuous states that grow with its time, and real outputs *)
(* that add an input to them; its other outputs tell when it last handled  *)
(* events. Of integrate() only the contract is used.                       *)
(***************************************************************************)
EXTENDS Integers, SequencesExt

CONSTANTS
    TimeDiffResolution,              \* timeDiffResolution_
    LookAheadHorizon,                \* lookAheadHorizon_
    LookAheadStepSize,               \* lookaheadStepSize_
    StartTime, End,                  \* where a program starts, and is done
    StateEvents, TimeEvents,         \* states and times at which FMUs have events
    StepEvents,                      \* whether an FMU has step events
    Inputs,                          \* inputs of an FMU
    Programs,                        \* times a program asks for: "answered" or "any"
    Back, Ahead, Horizon,            \* of the contract of integrate()
    MaxDrift,                        \* bound: how far a program is off the predicted times in all
    Infinity, None

ASSUME IncrementalFmuAssumption ==
    /\ TimeDiffResolution \in Nat \ {0}
    /\ LookAheadHorizon \in Nat \ {0} /\ LookAheadStepSize \in Nat \ {0}
    /\ StartTime \in Nat /\ End \in Nat
    /\ StateEvents \subseteq Nat /\ TimeEvents \subseteq Nat
    /\ StepEvents \subseteq BOOLEAN /\ Inputs \subseteq Nat
    /\ Programs \subseteq {"answered", "any"}
    /\ {Back, Ahead, Horizon, MaxDrift} \subseteq Nat
    /\ Infinity \in Nat /\ None \notin Int

(* A synchronization predicts something.                                   *)
ASSUME HorizonAssumption == LookAheadHorizon > TimeDiffResolution

VARIABLES
    fmu,               \* fmu_, an FMUModelExchange object that stops before events
    predictions_,
    currentState_,
    lastEventTime_,
    pc,                \* what the program does next
    program,           \* the times it asks for
    now,               \* a history: the time of the last synchronization
    drift              \* a history: how far it was off the predicted times in all

vars == <<fmu, predictions_, currentState_, lastEventTime_, pc, program, now, drift>>

M == INSTANCE IntegrationContract WITH m <- fmu, asked <- None

FmuRecord ==
    [time : Int, until : Int, upcoming : BOOLEAN, event : BOOLEAN,
     state : Int, acted : Int, input : Inputs, steps : BOOLEAN]

(* Entries are values: a copy of one has arrays of its own.                *)
HistoryEntry == [time_ : Int, state_ : Int, realValues_ : Int, otherValues_ : Int]

Distance(s, t) == IF s < t THEN t - s ELSE s - t

-----------------------------------------------------------------------------
(* The FMU and integrate().                                                *)

SetInputs(f, input) == [f EXCEPT !.input = input]

(* What the FMU does in handleEvents().                                    *)
HandleEvents(f) == [f EXCEPT !.acted = f.time]

RealOutput(f, state) == state + (End + 1) * f.input

RetrieveStates(f, time) ==     \* mutant
    [time_ |-> time, state_ |-> f.state, realValues_ |-> None, otherValues_ |-> f.acted]
RetrieveFMUState(f, time) ==
    [time_ |-> time, state_ |-> f.state, realValues_ |-> RealOutput(f, f.state), otherValues_ |-> f.acted]

InitializeIntegration(f, entry) == [f EXCEPT !.state = entry.state_]

ResetEventFlags(f) == [f EXCEPT !.event = FALSE, !.upcoming = FALSE]

MoveTo(f, t) == [f EXCEPT !.time = t, !.until = t, !.state = @ + (t - f.time), !.event = FALSE]

StepOverEvent(f) ==
    IF f.upcoming THEN HandleEvents([MoveTo(f, f.until) EXCEPT !.upcoming = FALSE]) ELSE f

(* When events are due: the states reach the value, or the time comes.     *)
Due(f) ==
    {f.time + (e - f.state) : e \in {s \in StateEvents : s > f.state}}
        \cup {e \in TimeEvents : e > f.acted}

Quiet(f, tend) ==
    IF \E d \in Due(f) : d <= tend THEN {} ELSE {MoveTo(f, M!Later(f.time, tend)), MoveTo(f, tend)}

StopBefore(f, tend) ==
    {[MoveTo(f, h[1]) EXCEPT !.until = h[2], !.event = TRUE, !.upcoming = TRUE] :
        h \in {x \in (f.time - Back .. tend + Ahead) \X (f.time .. tend + Ahead + Horizon) :
                  \E d \in Due(f) : /\ d <= tend + Ahead
                                    /\ \A e \in Due(f) : d <= e
                                    /\ x[1] <= d /\ d <= x[2] /\ x[1] < x[2]}}

AtStepEvent(f, tend) ==
    {HandleEvents([MoveTo(f, t) EXCEPT !.event = TRUE]) :
        t \in {s \in f.time + 1 .. tend : f.steps /\ \A d \in Due(f) : s <= d}}

Integrate(f, tend) ==
    LET g == StepOverEvent(f)
    IN  {h \in Quiet(g, tend) \cup StopBefore(g, tend) \cup AtStepEvent(g, tend) : M!Outcome(f, tend, h)}

-----------------------------------------------------------------------------

NewHandle(input, steps) ==
    [time |-> StartTime, until |-> StartTime, upcoming |-> FALSE, event |-> FALSE,
     state |-> StartTime, acted |-> StartTime, input |-> input, steps |-> steps]

(* init(): the program can only go on if nothing of it failed.             *)
InitFmu(input) ==
    LET f == HandleEvents(SetInputs(fmu, input))
        initial == RetrieveFMUState(f, StartTime)
    IN  /\ pc = "new"
        /\ fmu' = f
        /\ predictions_' = <<initial>>
        /\ currentState_' = initial
        /\ pc' = "predicted"
        /\ UNCHANGED <<lastEventTime_, program, now, drift>>

InitFails ==
    /\ pc = "new"
    /\ pc' = "unusable"
    /\ UNCHANGED <<fmu, predictions_, currentState_, lastEventTime_, program, now, drift>>

(* getState(): the latest prediction at t or before t, within the          *)
(* resolution, or between two of them.                                     *)
OutOfRangeTwice(t) ==     \* mutant
    \/ t <= Head(predictions_).time_ - TimeDiffResolution
    \/ t >= Last(predictions_).time_ + 2 * TimeDiffResolution
OutOfRange(t) ==
    \/ t <= Head(predictions_).time_ - TimeDiffResolution
    \/ t >= Last(predictions_).time_ + TimeDiffResolution

Near(t, entry) == Distance(t, entry.time_) <= TimeDiffResolution

Found(t) ==
    SelectLastInSeq(predictions_, LAMBDA entry : Near(t, entry) \/ t > entry.time_)

InterpolateValue(x, x0, y0, x1, y1) == y0 + ((x - x0) * (y1 - y0)) \div (x1 - x0)

(* Outputs that are not real stay as they were.                            *)
InterpolateState(t, left, right) ==
    LET value(y0, y1) == InterpolateValue(t, left.time_, y0, right.time_, y1)
    IN  [currentState_ EXCEPT !.time_ = t,
                              !.state_ = value(left.state_, right.state_),
                              !.realValues_ = value(left.realValues_, right.realValues_)]

GetState(t) ==
    LET i == Found(t)
    IN  IF OutOfRange(t) THEN [currentState_ EXCEPT !.time_ = Infinity]
        ELSE IF Near(t, predictions_[i]) THEN predictions_[i]
        ELSE InterpolateState(t, predictions_[i], predictions_[i + 1])

OffPrediction(t) ==
    LET i == Found(t) IN IF Near(t, predictions_[i]) THEN Distance(t, predictions_[i].time_) ELSE 0

(* updateState() where getState() has an answer. The event flag goes with  *)
(* the event a prediction stopped before, and the FMU handles events.      *)
UpdateTime(entry, t1) ==
    IF Distance(t1, entry.time_) < TimeDiffResolution THEN [entry EXCEPT !.time_ = t1] ELSE entry

UpdateKeepsStates(f, entry, t1) ==     \* mutant
    HandleEvents([f EXCEPT !.event = @ /\ t1 > lastEventTime_, !.time = t1])
UpdateFmu(f, entry, t1) ==
    HandleEvents([InitializeIntegration(f, entry) EXCEPT !.event = @ /\ t1 > lastEventTime_, !.time = t1])

UpdateState(t1) ==
    /\ pc \in {"predicted", "refused"}
    /\ ~OutOfRange(t1) /\ drift + OffPrediction(t1) <= MaxDrift
    /\ currentState_' = UpdateTime(GetState(t1), t1)
    /\ fmu' = UpdateFmu(fmu, currentState_', t1)
    /\ pc' = "updated"
    /\ now' = t1
    /\ drift' = drift + OffPrediction(t1)
    /\ UNCHANGED <<predictions_, lastEventTime_, program>>

(* The program gets INVALID_FMI_TIME; it may ask for another time.         *)
UpdateRefused(t1) ==
    /\ pc \in {"predicted", "refused"} /\ OutOfRange(t1)
    /\ currentState_' = GetState(t1)
    /\ fmu' = [fmu EXCEPT !.event = @ /\ t1 > lastEventTime_]
    /\ pc' = "refused"
    /\ UNCHANGED <<predictions_, lastEventTime_, program, now, drift>>

(* updateStateFromTheRight(): near the newest prediction the FMU goes on   *)
(* over the event it may have stopped before. Elsewhere it is              *)
(* updateState().                                                          *)
UpdateStateFromTheRight(t1) ==
    LET entry == UpdateTime(GetState(t1), t1)
        f == UpdateFmu(fmu, entry, t1)
    IN  /\ pc \in {"predicted", "refused"}
        /\ ~OutOfRange(t1) /\ drift + OffPrediction(t1) <= MaxDrift
        /\ Distance(Last(predictions_).time_, t1) < TimeDiffResolution
        /\ \E g \in Integrate(f, entry.time_ + TimeDiffResolution) :
              /\ fmu' = HandleEvents(g)
              /\ now' = g.time
        /\ currentState_' = RetrieveFMUState(fmu', now')
        /\ predictions_' = ReplaceAt(predictions_, Len(predictions_), currentState_')
        /\ pc' = "updated"
        /\ drift' = drift + OffPrediction(t1)
        /\ UNCHANGED <<lastEventTime_, program>>

(* syncState(): new inputs, and the outputs that go with them.             *)
SyncState(input) ==
    /\ pc = "updated"
    /\ fmu' = HandleEvents(SetInputs(fmu, input))
    /\ currentState_' = RetrieveFMUState(fmu', now)
    /\ pc' = "synced"
    /\ UNCHANGED <<predictions_, lastEventTime_, program, now, drift>>

(* predictState(): until the horizon or until an event. The FMU forgets an *)
(* event it stopped before that lies later than where it starts from.      *)
ResetNever(t1) == FALSE     \* mutant
StartsBeforeEvent(t1) == t1 < lastEventTime_ - TimeDiffResolution

StartPrediction ==
    LET prediction == [currentState_ EXCEPT !.time_ = now]
        f == IF StartsBeforeEvent(now) THEN ResetEventFlags(fmu) ELSE fmu
    IN  /\ pc \in {"updated", "synced"}
        /\ predictions_' = <<prediction>>
        /\ fmu' = InitializeIntegration(f, prediction)
        /\ pc' = "predicting"
        /\ UNCHANGED <<currentState_, lastEventTime_, program, now, drift>>

BeforeStart == now - Last(predictions_).time_ > TimeDiffResolution     \* mutant
BeforeHorizon == now + LookAheadHorizon - Last(predictions_).time_ > TimeDiffResolution

(* Only an event of this call ends the predictions.                        *)
GoesOnPastEvent == BeforeHorizon     \* mutant
GoesOn == BeforeHorizon /\ (Len(predictions_) > 1 => ~fmu.event)

PredictState ==
    /\ pc = "predicting" /\ GoesOn
    /\ \E g \in Integrate(fmu, Last(predictions_).time_ + LookAheadStepSize) :
          /\ fmu' = g
          /\ lastEventTime_' = g.time
    /\ predictions_' = Append(predictions_, RetrieveFMUState(fmu', lastEventTime_'))
    /\ UNCHANGED <<currentState_, pc, program, now, drift>>

StatePredicted ==
    /\ pc = "predicting" /\ ~GoesOn
    /\ pc' = "predicted"
    /\ UNCHANGED <<fmu, predictions_, currentState_, lastEventTime_, program, now, drift>>

-----------------------------------------------------------------------------

Init ==
    /\ \E input \in Inputs, steps \in StepEvents : fmu = NewHandle(input, steps)
    /\ predictions_ = <<>>
    /\ currentState_ = RetrieveFMUState(fmu, Infinity)
    /\ lastEventTime_ = Infinity
    /\ pc = "new"
    /\ program \in Programs
    /\ now = StartTime
    /\ drift = 0

(* A program asks for the time sync() told it, the newest prediction, or   *)
(* for any time.                                                           *)
Asked == IF program = "answered" THEN {Last(predictions_).time_} ELSE StartTime .. End

Program ==
    /\ now < End
    /\ \/ \E input \in Inputs : InitFmu(input)
       \/ InitFails
       \/ /\ pc \in {"predicted", "refused"}
          /\ \E t1 \in Asked :
                UpdateState(t1) \/ UpdateRefused(t1) \/ UpdateStateFromTheRight(t1)
       \/ \E input \in Inputs : SyncState(input)

Ended == (pc = "unusable" \/ now >= End) /\ UNCHANGED vars

Next ==
    \/ Program
    \/ StartPrediction
    \/ PredictState
    \/ StatePredicted
    \/ Ended

(* Calls return, and the program goes on calling.                          *)
Fairness == WF_vars(Next)

Spec == Init /\ [][Next]_vars /\ Fairness

TypeOK ==
    /\ fmu \in FmuRecord
    /\ predictions_ \in Seq(HistoryEntry)
    /\ currentState_ \in HistoryEntry
    /\ lastEventTime_ \in Int
    /\ pc \in {"new", "unusable", "predicted", "refused", "updated", "synced", "predicting"}
    /\ program \in Programs
    /\ now \in Int
    /\ drift \in 0 .. MaxDrift

-----------------------------------------------------------------------------

(* Of every time that is in range there is a prediction, or there are two  *)
(* the states are interpolated between: one before it and one after it.    *)
InterpolationBetween ==
    pc \in {"predicted", "refused"} =>
        \A t \in StartTime .. End + LookAheadHorizon :
            LET i == Found(t)
            IN  \/ OutOfRange(t)
                \/ /\ i > 0
                   /\ \/ Near(t, predictions_[i])
                      \/ /\ i < Len(predictions_)
                         /\ predictions_[i].time_ < t /\ t < predictions_[i + 1].time_

(* States go with the time, but for what the program asked beside the      *)
(* predicted times, and real outputs go with the states and the inputs the *)
(* FMU has: of the FMU, of what it predicts and of what the program reads. *)
(* What it reads of the other outputs shows no later event, but for one    *)
(* the FMU had stopped before; step events are left out.                   *)
Slack == TimeDiffResolution + Horizon

StatesGoWithTime ==
    /\ Distance(fmu.state, fmu.time) <= drift
    /\ pc = "predicted" =>
           \A i \in 1 .. Len(predictions_) :
               LET entry == predictions_[i]
               IN  /\ Distance(entry.state_, entry.time_) <= drift
                   /\ entry.realValues_ = RealOutput(fmu, entry.state_)
    /\ pc \in {"updated", "synced"} =>
           /\ currentState_.state_ = fmu.state
           /\ currentState_.realValues_ = RealOutput(fmu, currentState_.state_)
           /\ ~fmu.steps => currentState_.otherValues_ <= now + Slack + drift

(* Predictions make no update: the FMU has handled no event later than the *)
(* synchronized time, but for the event it had stopped before, whose far   *)
(* side is within the resolution and the horizon of that time. Step events *)
(* are left out: an integration handles them.                              *)
NoUpdateAhead == ~fmu.steps => fmu.acted <= now + Slack

(* The time the program is told to synchronize at is not later than the    *)
(* next event, but for the event the predictions begin at.                 *)
NoEventSkipped ==
    pc = "predicted" =>
        LET first == Head(predictions_)
            newest == Last(predictions_)
        IN  /\ \A e \in StateEvents : newest.state_ <= e \/ e <= first.state_ + Slack
            /\ \A e \in TimeEvents : newest.time_ <= e \/ e <= first.time_ + Slack

(* A program that synchronizes at the times it is told gets to its end.    *)
ReachesEnd == program = "answered" => <>(now >= End \/ pc = "unusable")

=============================================================================
