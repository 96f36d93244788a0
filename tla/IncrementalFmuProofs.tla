------------------------ MODULE IncrementalFmuProofs -------------------------
(***************************************************************************)
(* Proofs about IncrementalFMU: types, what the search for a prediction    *)
(* finds, that a prediction updates nothing ahead of its time, that states *)
(* and outputs go with time and inputs, and that no event is skipped, for  *)
(* any resolution, look-ahead, events and inputs.                          *)
(***************************************************************************)
EXTENDS IncrementalFmu, Loops, TLAPS

Predicting == {"predicted", "refused", "updated", "synced", "predicting"}

TypeInv ==
    /\ TypeOK
    /\ pc \in Predicting => predictions_ # <<>>

-----------------------------------------------------------------------------
(* What integrate() returns.                                               *)

LEMMA MoveToType ==
    ASSUME NEW f \in FmuRecord, NEW t \in Int
    PROVE  /\ MoveTo(f, t) \in FmuRecord
           /\ MoveTo(f, t).steps = f.steps
           /\ MoveTo(f, t).input = f.input
           /\ MoveTo(f, t).acted = f.acted
           /\ MoveTo(f, t).time = t
           /\ MoveTo(f, t).upcoming = f.upcoming
           /\ ~MoveTo(f, t).event
           /\ MoveTo(f, t).state = f.state + (t - f.time)
  <1>1. f.state \in Int /\ f.time \in Int /\ f.state + (t - f.time) \in Int
    BY DEF FmuRecord
  <1> DEFINE s == f.state + (t - f.time)
  <1> HIDE DEF s
  <1>2. MoveTo(f, t) = [f EXCEPT !.time = t, !.until = t, !.state = s, !.event = FALSE]
    BY DEF MoveTo, s
  <1>3. s \in Int
    BY <1>1 DEF s
  <1>4. MoveTo(f, t) \in FmuRecord
    BY <1>2, <1>3 DEF FmuRecord
  <1>5. /\ MoveTo(f, t).steps = f.steps /\ MoveTo(f, t).input = f.input
        /\ MoveTo(f, t).acted = f.acted /\ MoveTo(f, t).time = t
    BY <1>2 DEF FmuRecord
  <1>6. MoveTo(f, t).upcoming = f.upcoming
    BY <1>2 DEF FmuRecord
  <1>7. ~MoveTo(f, t).event /\ MoveTo(f, t).state = f.state + (t - f.time)
    BY <1>2 DEF FmuRecord, s
  <1> QED BY <1>4, <1>5, <1>6, <1>7

LEMMA StepOverEventType ==
    ASSUME NEW f \in FmuRecord
    PROVE  /\ StepOverEvent(f) \in FmuRecord
           /\ StepOverEvent(f).steps = f.steps
           /\ StepOverEvent(f).input = f.input
           /\ StepOverEvent(f).acted = IF f.upcoming THEN f.until ELSE f.acted
           /\ ~StepOverEvent(f).upcoming
           /\ StepOverEvent(f).time = M!From(f)
           /\ StepOverEvent(f).state = f.state + (M!From(f) - f.time)
  <1>1. CASE f.upcoming
    <2> DEFINE g == [MoveTo(f, f.until) EXCEPT !.upcoming = FALSE]
    <2>1. f.until \in Int
      BY DEF FmuRecord
    <2>2. MoveTo(f, f.until) \in FmuRecord /\ MoveTo(f, f.until).time = f.until
          /\ MoveTo(f, f.until).steps = f.steps /\ MoveTo(f, f.until).input = f.input
          /\ MoveTo(f, f.until).state = f.state + (f.until - f.time)
      BY <2>1, MoveToType
    <2>3. /\ g \in FmuRecord /\ g.time = f.until /\ g.steps = f.steps /\ g.input = f.input /\ ~g.upcoming
          /\ g.state = f.state + (f.until - f.time)
      BY <2>2 DEF FmuRecord
    <2> HIDE DEF g
    <2>4. StepOverEvent(f) = [g EXCEPT !.acted = g.time]
      BY <1>1 DEF StepOverEvent, HandleEvents, g
    <2> QED BY <1>1, <2>1, <2>3, <2>4 DEF FmuRecord, M!From
  <1>2. CASE ~f.upcoming
    BY <1>2 DEF StepOverEvent, FmuRecord, M!From
  <1> QED BY <1>1, <1>2

(* An integration stays within its contract; only a step event makes the   *)
(* FMU handle more than the event it had stopped before.                   *)
LEMMA Integrates ==
    ASSUME NEW f \in FmuRecord, NEW tend \in Int, NEW h \in Integrate(f, tend)
    PROVE  /\ h \in FmuRecord
           /\ h.steps = f.steps /\ h.input = f.input
           /\ h.state = f.state + (h.time - f.time)
           /\ ~h.event => h.time >= tend
           /\ h.upcoming => h.event /\ h.until <= h.time + Horizon
           /\ ~f.steps => h.acted = IF f.upcoming THEN f.until ELSE f.acted
  <1> DEFINE g == StepOverEvent(f)
  <1>0. /\ g \in FmuRecord /\ g.steps = f.steps /\ g.input = f.input /\ ~g.upcoming
        /\ g.time = M!From(f) /\ g.state = f.state + (M!From(f) - f.time)
        /\ g.acted = IF f.upcoming THEN f.until ELSE f.acted
    BY StepOverEventType
  <1> HIDE DEF g
  <1>1. h \in Quiet(g, tend) \cup StopBefore(g, tend) \cup AtStepEvent(g, tend) /\ M!Outcome(f, tend, h)
    BY DEF Integrate, g
  <1>2. h.upcoming => h.event /\ h.until <= h.time + Horizon
    BY <1>1 DEF M!Outcome
  <1>00. M!From(f) \in Int /\ f.time \in Int /\ f.state \in Int
    BY DEF M!From, FmuRecord
  <1>02. ~h.event => h.time >= tend
    BY <1>00, <1>1 DEF M!Outcome, M!Later
  <1>03. ASSUME NEW t \in Int PROVE g.state + (t - g.time) = f.state + (t - f.time)
    BY <1>0, <1>00
  <1>3. CASE h \in Quiet(g, tend)
    <2>1. g.time \in Int
      BY <1>0 DEF FmuRecord
    <2>2. M!Later(g.time, tend) \in Int
      BY <2>1 DEF M!Later
    <2>3. h = MoveTo(g, M!Later(g.time, tend)) \/ h = MoveTo(g, tend)
      BY <1>3 DEF Quiet
    <2>4. PICK t \in Int : h = MoveTo(g, t)
      BY <2>2, <2>3, IncrementalFmuAssumption
    <2>5. /\ h \in FmuRecord /\ h.steps = f.steps /\ h.acted = g.acted /\ h.input = f.input
          /\ h.time = t /\ h.state = g.state + (t - g.time)
      BY <1>0, <2>4, MoveToType
    <2> QED BY <1>0, <1>2, <1>02, <1>03, <2>5
  <1>4. CASE h \in StopBefore(g, tend)
    <2>1. PICK t \in Int, u \in Int :
             h = [MoveTo(g, t) EXCEPT !.until = u, !.event = TRUE, !.upcoming = TRUE]
      <3>1. g.time \in Int
        BY <1>0 DEF FmuRecord
      <3>2. PICK x \in (g.time - Back .. tend + Ahead) \X (g.time .. tend + Ahead + Horizon) :
               h = [MoveTo(g, x[1]) EXCEPT !.until = x[2], !.event = TRUE, !.upcoming = TRUE]
        BY <1>4 DEF StopBefore
      <3>3. x[1] \in Int /\ x[2] \in Int
        BY <3>1, <3>2, IncrementalFmuAssumption
      <3> QED BY <3>2, <3>3
    <2>2. /\ MoveTo(g, t) \in FmuRecord /\ MoveTo(g, t).steps = f.steps /\ MoveTo(g, t).acted = g.acted
          /\ MoveTo(g, t).input = f.input /\ MoveTo(g, t).time = t
          /\ MoveTo(g, t).state = g.state + (t - g.time)
      BY <1>0, MoveToType
    <2>3. /\ h \in FmuRecord /\ h.steps = f.steps /\ h.acted = g.acted /\ h.input = f.input
          /\ h.time = t /\ h.state = g.state + (t - g.time)
      BY <2>1, <2>2 DEF FmuRecord
    <2> QED BY <1>0, <1>2, <1>02, <1>03, <2>3
  <1>5. CASE h \in AtStepEvent(g, tend)
    <2>1. g.time \in Int
      BY <1>0 DEF FmuRecord
    <2>2. PICK t \in g.time + 1 .. tend :
             g.steps /\ h = HandleEvents([MoveTo(g, t) EXCEPT !.event = TRUE])
      BY <1>5 DEF AtStepEvent
    <2>3. t \in Int
      BY <2>1, <2>2
    <2>4. /\ MoveTo(g, t) \in FmuRecord /\ MoveTo(g, t).steps = f.steps
          /\ MoveTo(g, t).input = f.input /\ MoveTo(g, t).time = t
          /\ MoveTo(g, t).state = g.state + (t - g.time)
      BY <1>0, <2>3, MoveToType
    <2>5. /\ h \in FmuRecord /\ h.steps = f.steps /\ h.input = f.input
          /\ h.time = t /\ h.state = g.state + (t - g.time)
      BY <2>2, <2>4 DEF HandleEvents, FmuRecord
    <2> QED BY <1>0, <1>2, <1>02, <1>03, <2>2, <2>3, <2>5
  <1> QED BY <1>1, <1>3, <1>4, <1>5

-----------------------------------------------------------------------------
(* What the search for a prediction finds.                                 *)

(* So the search from the newest prediction finds the first that fits.     *)
LEMMA IndicesHaveMax ==
    ASSUME NEW n \in Nat, NEW I \in SUBSET (1 .. n), I # {}
    PROVE  Max(I) \in I /\ \A i \in I : i <= Max(I)
  <1> DEFINE T == {n - i : i \in I}
  <1>1. T \in SUBSET Nat
    <2> SUFFICES ASSUME NEW i \in I PROVE n - i \in Nat
      OBVIOUS
    <2>1. i \in 1 .. n
      OBVIOUS
    <2> QED BY <2>1
  <1>0. T # {}
    OBVIOUS
  <1> HIDE DEF T
  <1>2. PICK x \in T : \A y \in T : x <= y
    BY <1>0, <1>1, NatHasMin
  <1>3. PICK i \in I : x = n - i
    BY <1>2 DEF T
  <1>4. \A j \in I : i >= j
    <2> SUFFICES ASSUME NEW j \in I PROVE i >= j
      OBVIOUS
    <2>1. n - i <= n - j
      BY <1>2, <1>3 DEF T
    <2>2. i \in Nat /\ j \in Nat
      OBVIOUS
    <2> QED BY <2>1, <2>2
  <1>5. \A j \in I : Max(I) >= j
    BY <1>4 DEF Max
  <1> QED
    <2>1. Max(I) \in I
      BY <1>4 DEF Max
    <2> QED BY <1>5, <2>1

LEMMA EntryType ==
    ASSUME TypeInv, NEW i \in 1 .. Len(predictions_)
    PROVE  predictions_[i] \in HistoryEntry /\ predictions_[i].time_ \in Int
  <1>1. predictions_[i] \in HistoryEntry
    BY DEF TypeInv, TypeOK
  <1> QED BY <1>1 DEF HistoryEntry

LEMMA Finds ==
    ASSUME TypeInv, predictions_ # <<>>, NEW t \in Int, ~OutOfRange(t)
    PROVE  /\ Found(t) \in 1 .. Len(predictions_)
           /\ \/ Near(t, predictions_[Found(t)])
              \/ /\ Found(t) + 1 \in 1 .. Len(predictions_)
                 /\ predictions_[Found(t)].time_ < t
                 /\ t < predictions_[Found(t) + 1].time_
           /\ Near(t, Last(predictions_)) => Found(t) = Len(predictions_)
  <1> DEFINE n == Len(predictions_)
             I == {i \in 1 .. n : Near(t, predictions_[i]) \/ t > predictions_[i].time_}
  <1>1. n \in Nat \ {0}
    BY DEF TypeInv, TypeOK
  <1>2. \A i \in 1 .. n : predictions_[i].time_ \in Int
    BY EntryType
  <1>3. 1 \in I
    <2>1. 1 \in 1 .. n
      BY <1>1
    <2>2. t > predictions_[1].time_ - TimeDiffResolution
      BY <1>2, <2>1, IncrementalFmuAssumption DEF OutOfRange
    <2> QED BY <1>2, <2>1, <2>2, IncrementalFmuAssumption DEF Near, Distance
  <1>4. Found(t) = IF I # {} THEN Max(I) ELSE 0
    BY DEF Found, SelectLastInSeq
  <1>5. I \in SUBSET (1 .. n)
    OBVIOUS
  <1>6. Found(t) \in I /\ \A i \in I : i <= Found(t)
    <2> HIDE DEF n, I
    <2> QED BY <1>1, <1>3, <1>4, <1>5, IndicesHaveMax
  <1>7. ASSUME ~Near(t, predictions_[Found(t)])
        PROVE  /\ Found(t) + 1 \in 1 .. Len(predictions_)
               /\ predictions_[Found(t)].time_ < t
               /\ t < predictions_[Found(t) + 1].time_
    <2>1. Found(t) \in 1 .. n /\ predictions_[Found(t)].time_ < t
      BY <1>2, <1>6, <1>7
    <2>2. Found(t) # n
      <3> SUFFICES ASSUME Found(t) = n PROVE FALSE
        OBVIOUS
      <3>1. t < predictions_[n].time_ + TimeDiffResolution
        BY <1>1, <1>2, IncrementalFmuAssumption DEF OutOfRange, Last
      <3> QED BY <1>2, <1>7, <2>1, <3>1, IncrementalFmuAssumption DEF Near, Distance
    <2>3. Found(t) + 1 \in 1 .. n /\ Found(t) + 1 \notin I
      BY <1>1, <1>6, <2>1, <2>2
    <2>4. predictions_[Found(t) + 1].time_ \in Int
      BY <1>2, <2>3
    <2>5. t < predictions_[Found(t) + 1].time_
      BY <2>3, <2>4, IncrementalFmuAssumption DEF Near, Distance
    <2> QED BY <2>1, <2>3, <2>5
  <1>8. Near(t, Last(predictions_)) => Found(t) = n
    <2>1. Near(t, Last(predictions_)) => n \in I
      BY <1>1 DEF Last
    <2>2. Found(t) \in 1 .. n
      BY <1>6
    <2> HIDE DEF n, I
    <2> QED BY <1>1, <1>6, <2>1, <2>2
  <1> QED BY <1>6, <1>7, <1>8

LEMMA InterpolatedType ==
    ASSUME NEW x \in Int, NEW x0 \in Int, NEW x1 \in Int, x0 < x1, NEW y0 \in Int, NEW y1 \in Int
    PROVE  InterpolateValue(x, x0, y0, x1, y1) \in Int
  <1>1. (x - x0) * (y1 - y0) \in Int /\ x1 - x0 \in Nat \ {0}
    OBVIOUS
  <1>2. ((x - x0) * (y1 - y0)) \div (x1 - x0) \in Int
    BY <1>1
  <1> QED BY <1>2 DEF InterpolateValue

LEMMA GetStateType ==
    ASSUME TypeInv, predictions_ # <<>>, NEW t \in Int
    PROVE  /\ GetState(t) \in HistoryEntry
           /\ (OffPrediction(t) \in Nat \/ OutOfRange(t))
  <1>1. CASE OutOfRange(t)
    <2>1. GetState(t) = [currentState_ EXCEPT !.time_ = Infinity]
      BY <1>1 DEF GetState
    <2>2. currentState_ \in HistoryEntry /\ Infinity \in Int
      BY IncrementalFmuAssumption DEF TypeInv, TypeOK
    <2>3. GetState(t) \in HistoryEntry
      BY <2>1, <2>2 DEF HistoryEntry
    <2> QED BY <1>1, <2>3
  <1>2. CASE ~OutOfRange(t)
    <2> DEFINE i == Found(t)
    <2>1. i \in 1 .. Len(predictions_) /\ predictions_[i] \in HistoryEntry /\ predictions_[i].time_ \in Int
      BY <1>2, Finds, EntryType
    <2>2. CASE Near(t, predictions_[i])
      <3>1. GetState(t) = predictions_[i]
        BY <1>2, <2>2 DEF GetState
      <3> QED BY <2>1, <2>2, <3>1 DEF OffPrediction, Distance
    <2>3. CASE ~Near(t, predictions_[i])
      <3>1. /\ predictions_[i + 1] \in HistoryEntry
            /\ predictions_[i].time_ < t /\ t < predictions_[i + 1].time_
        BY <1>2, <2>3, Finds, EntryType
      <3>2. GetState(t) = InterpolateState(t, predictions_[i], predictions_[i + 1])
        BY <1>2, <2>3 DEF GetState
      <3> DEFINE left == predictions_[i]
                 right == predictions_[i + 1]
                 s == InterpolateValue(t, left.time_, left.state_, right.time_, right.state_)
                 r == InterpolateValue(t, left.time_, left.realValues_, right.time_, right.realValues_)
      <3>3. left \in HistoryEntry /\ right \in HistoryEntry /\ left.time_ < right.time_
        BY <2>1, <3>1 DEF HistoryEntry
      <3>4. s \in Int /\ r \in Int
        <4> HIDE DEF left, right
        <4> QED BY <3>3, InterpolatedType DEF HistoryEntry
      <3>5. InterpolateState(t, left, right) = [currentState_ EXCEPT !.time_ = t, !.state_ = s, !.realValues_ = r]
        BY DEF InterpolateState
      <3>6. currentState_ \in HistoryEntry
        BY DEF TypeInv, TypeOK
      <3> HIDE DEF s, r
      <3>7. GetState(t) \in HistoryEntry
        BY <3>2, <3>4, <3>5, <3>6 DEF HistoryEntry
      <3> QED BY <2>3, <3>7 DEF OffPrediction
    <2> QED BY <2>2, <2>3
  <1> QED BY <1>1, <1>2

-----------------------------------------------------------------------------
(* Types.                                                                  *)

LEMMA RetrievedType ==
    ASSUME NEW f \in FmuRecord, NEW t \in Int
    PROVE  RetrieveFMUState(f, t) \in HistoryEntry
  <1>0. f.state \in Int /\ f.acted \in Int /\ f.input \in Inputs
    BY DEF FmuRecord
  <1>1. Inputs \subseteq Nat /\ End \in Nat
    BY IncrementalFmuAssumption
  <1>2. f.input \in Nat
    BY <1>0, <1>1
  <1>3. RealOutput(f, f.state) \in Int
    BY <1>0, <1>1, <1>2 DEF RealOutput
  <1> QED BY <1>0, <1>3 DEF RetrieveFMUState, HistoryEntry

LEMMA HandledType ==
    ASSUME NEW f \in FmuRecord
    PROVE  /\ HandleEvents(f) \in FmuRecord
           /\ HandleEvents(f).acted = f.time
           /\ HandleEvents(f).steps = f.steps
           /\ HandleEvents(f).time = f.time
           /\ HandleEvents(f).until = f.until
           /\ HandleEvents(f).upcoming = f.upcoming
           /\ HandleEvents(f).event = f.event
           /\ HandleEvents(f).state = f.state
           /\ HandleEvents(f).input = f.input
  BY DEF HandleEvents, FmuRecord

LEMMA UpdatedType ==
    ASSUME TypeInv, predictions_ # <<>>, NEW t \in Int, NEW entry \in HistoryEntry
    PROVE  /\ UpdateTime(entry, t) \in HistoryEntry
           /\ UpdateTime(entry, t).state_ = entry.state_
           /\ UpdateTime(entry, t).realValues_ = entry.realValues_
           /\ UpdateTime(entry, t).otherValues_ = entry.otherValues_
           /\ UpdateFmu(fmu, entry, t) \in FmuRecord
           /\ UpdateFmu(fmu, entry, t).time = t
           /\ UpdateFmu(fmu, entry, t).acted = t
           /\ UpdateFmu(fmu, entry, t).state = entry.state_
           /\ UpdateFmu(fmu, entry, t).input = fmu.input
           /\ UpdateFmu(fmu, entry, t).steps = fmu.steps
           /\ UpdateFmu(fmu, entry, t).until = fmu.until
           /\ UpdateFmu(fmu, entry, t).upcoming = fmu.upcoming
  <1> DEFINE f == [InitializeIntegration(fmu, entry) EXCEPT !.event = @ /\ t > lastEventTime_, !.time = t]
  <1>1. fmu \in FmuRecord /\ entry.state_ \in Int
    BY DEF TypeInv, TypeOK, HistoryEntry
  <1>2. /\ f \in FmuRecord /\ f.time = t /\ f.steps = fmu.steps
        /\ f.until = fmu.until /\ f.upcoming = fmu.upcoming
        /\ f.state = entry.state_ /\ f.input = fmu.input
    BY <1>1 DEF InitializeIntegration, FmuRecord
  <1>3. UpdateFmu(fmu, entry, t) = HandleEvents(f)
    BY DEF UpdateFmu
  <1> HIDE DEF f
  <1>4. /\ UpdateTime(entry, t) \in HistoryEntry
        /\ UpdateTime(entry, t).state_ = entry.state_
        /\ UpdateTime(entry, t).realValues_ = entry.realValues_
        /\ UpdateTime(entry, t).otherValues_ = entry.otherValues_
    BY DEF UpdateTime, HistoryEntry
  <1> QED BY <1>2, <1>3, <1>4, HandledType

LEMMA LastType ==
    ASSUME TypeInv, predictions_ # <<>>
    PROVE  Len(predictions_) \in Nat \ {0} /\ Last(predictions_).time_ \in Int
  <1>1. Len(predictions_) \in Nat \ {0}
    BY DEF TypeInv, TypeOK
  <1>2. Len(predictions_) \in 1 .. Len(predictions_)
    BY <1>1
  <1> QED BY <1>1, <1>2, EntryType DEF Last

LEMMA InitTypes ==
    Init => TypeInv
  <1> SUFFICES ASSUME Init PROVE TypeInv
    OBVIOUS
  <1>1. PICK input \in Inputs, steps \in StepEvents : fmu = NewHandle(input, steps)
    BY DEF Init
  <1>2. fmu \in FmuRecord
    BY <1>1, IncrementalFmuAssumption DEF NewHandle, FmuRecord
  <1>3. currentState_ \in HistoryEntry
    BY <1>2, RetrievedType, IncrementalFmuAssumption DEF Init
  <1>4. predictions_ \in Seq(HistoryEntry)
    BY DEF Init
  <1> QED BY <1>2, <1>3, <1>4, IncrementalFmuAssumption DEF Init, TypeInv, TypeOK, Predicting


LEMMA NextTypes ==
    TypeInv /\ [Next]_vars => TypeInv'
  <1> SUFFICES ASSUME TypeInv, [Next]_vars PROVE TypeInv'
    OBVIOUS
  <1>0. fmu \in FmuRecord /\ now \in Int /\ predictions_ \in Seq(HistoryEntry) /\ drift \in 0 .. MaxDrift
    BY DEF TypeInv, TypeOK
  <1>1. ASSUME NEW input \in Inputs, InitFmu(input) PROVE TypeInv'
    <2>1. SetInputs(fmu, input) \in FmuRecord
      BY <1>0 DEF SetInputs, FmuRecord
    <2>2. fmu' \in FmuRecord
      BY <1>1, <2>1, HandledType DEF InitFmu
    <2>3. RetrieveFMUState(fmu', StartTime) \in HistoryEntry
      BY <2>2, RetrievedType, IncrementalFmuAssumption
    <2>4. currentState_' \in HistoryEntry /\ predictions_' \in Seq(HistoryEntry) /\ predictions_' # <<>>
      BY <1>1, <2>3 DEF InitFmu
    <2> QED BY <1>1, <2>2, <2>4 DEF InitFmu, TypeInv, TypeOK
  <1>2. CASE InitFails
    BY <1>2 DEF InitFails, TypeInv, TypeOK, Predicting
  <1>3. ASSUME NEW t1 \in Int, UpdateState(t1) PROVE TypeInv'
    <2>1. predictions_ # <<>> /\ ~OutOfRange(t1)
      BY <1>3 DEF UpdateState, TypeInv, Predicting
    <2>2. GetState(t1) \in HistoryEntry /\ OffPrediction(t1) \in Nat
      BY <2>1, GetStateType
    <2>3. currentState_' \in HistoryEntry
      BY <1>3, <2>1, <2>2, UpdatedType DEF UpdateState
    <2>4. fmu' \in FmuRecord
      BY <1>3, <2>1, <2>3, UpdatedType DEF UpdateState
    <2>5. drift' \in 0 .. MaxDrift
      BY <1>0, <1>3, <2>2, IncrementalFmuAssumption DEF UpdateState
    <2> QED BY <1>3, <2>1, <2>3, <2>4, <2>5 DEF UpdateState, TypeInv, TypeOK
  <1>4. ASSUME NEW t1 \in Int, UpdateRefused(t1) PROVE TypeInv'
    <2>1. predictions_ # <<>>
      BY <1>4 DEF UpdateRefused, TypeInv, Predicting
    <2>2. currentState_' \in HistoryEntry
      BY <1>4, <2>1, GetStateType DEF UpdateRefused
    <2>3. fmu' \in FmuRecord
      BY <1>0, <1>4 DEF UpdateRefused, FmuRecord
    <2> QED BY <1>4, <2>1, <2>2, <2>3 DEF UpdateRefused, TypeInv, TypeOK
  <1>5. ASSUME NEW t1 \in Int, UpdateStateFromTheRight(t1) PROVE TypeInv'
    <2> DEFINE entry == UpdateTime(GetState(t1), t1)
               f == UpdateFmu(fmu, entry, t1)
    <2>1. predictions_ # <<>> /\ ~OutOfRange(t1)
      BY <1>5 DEF UpdateStateFromTheRight, TypeInv, Predicting
    <2>2. GetState(t1) \in HistoryEntry /\ OffPrediction(t1) \in Nat
      BY <2>1, GetStateType
    <2>3. entry \in HistoryEntry /\ f \in FmuRecord
      BY <2>1, <2>2, UpdatedType
    <2>4. entry.time_ + TimeDiffResolution \in Int
      BY <2>3, IncrementalFmuAssumption DEF HistoryEntry
    <2>5. PICK g \in Integrate(f, entry.time_ + TimeDiffResolution) : fmu' = HandleEvents(g) /\ now' = g.time
      BY <1>5 DEF UpdateStateFromTheRight
    <2> HIDE DEF entry, f
    <2>6. g \in FmuRecord
      BY <2>3, <2>4, <2>5, Integrates
    <2>7. fmu' \in FmuRecord /\ now' \in Int
      BY <2>5, <2>6, HandledType DEF FmuRecord
    <2>8. currentState_' \in HistoryEntry
      BY <1>5, <2>7, RetrievedType DEF UpdateStateFromTheRight
    <2>9. predictions_' \in Seq(HistoryEntry) /\ predictions_' # <<>>
      <3>1. predictions_' = [predictions_ EXCEPT ![Len(predictions_)] = currentState_']
        BY <1>5 DEF UpdateStateFromTheRight, ReplaceAt
      <3> QED BY <1>0, <2>1, <2>8, <3>1
    <2>10. drift' \in 0 .. MaxDrift
      BY <1>0, <1>5, <2>2, IncrementalFmuAssumption DEF UpdateStateFromTheRight
    <2> QED BY <1>5, <2>7, <2>8, <2>9, <2>10 DEF UpdateStateFromTheRight, TypeInv, TypeOK
  <1>6. ASSUME NEW input \in Inputs, SyncState(input) PROVE TypeInv'
    <2>1. SetInputs(fmu, input) \in FmuRecord
      BY <1>0 DEF SetInputs, FmuRecord
    <2>2. fmu' \in FmuRecord
      BY <1>6, <2>1, HandledType DEF SyncState
    <2>3. currentState_' \in HistoryEntry
      BY <1>0, <1>6, <2>2, RetrievedType DEF SyncState
    <2> QED BY <1>6, <2>2, <2>3 DEF SyncState, TypeInv, TypeOK, Predicting
  <1>7. CASE StartPrediction
    <2> DEFINE prediction == [currentState_ EXCEPT !.time_ = now]
               f == IF StartsBeforeEvent(now) THEN ResetEventFlags(fmu) ELSE fmu
    <2>1. prediction \in HistoryEntry
      BY <1>0 DEF TypeInv, TypeOK, HistoryEntry
    <2>2. f \in FmuRecord
      BY <1>0 DEF ResetEventFlags, FmuRecord
    <2> HIDE DEF f, prediction
    <2>3. InitializeIntegration(f, prediction) \in FmuRecord
      BY <2>1, <2>2 DEF InitializeIntegration, FmuRecord, HistoryEntry
    <2>4. fmu' \in FmuRecord /\ predictions_' \in Seq(HistoryEntry) /\ predictions_' # <<>>
      BY <1>7, <2>1, <2>3 DEF StartPrediction, f, prediction
    <2> QED BY <1>7, <2>4 DEF StartPrediction, TypeInv, TypeOK
  <1>8. CASE PredictState
    <2>1. predictions_ # <<>>
      BY <1>8 DEF PredictState, TypeInv, Predicting
    <2>2. Last(predictions_).time_ + LookAheadStepSize \in Int
      BY <2>1, LastType, IncrementalFmuAssumption
    <2>3. PICK g \in Integrate(fmu, Last(predictions_).time_ + LookAheadStepSize) :
             fmu' = g /\ lastEventTime_' = g.time
      BY <1>8 DEF PredictState
    <2>4. fmu' \in FmuRecord /\ lastEventTime_' \in Int
      BY <1>0, <2>2, <2>3, Integrates DEF FmuRecord
    <2>5. RetrieveFMUState(fmu', lastEventTime_') \in HistoryEntry
      BY <2>4, RetrievedType
    <2>6. predictions_' \in Seq(HistoryEntry) /\ predictions_' # <<>>
      BY <1>0, <1>8, <2>5 DEF PredictState
    <2> QED BY <1>8, <2>4, <2>6 DEF PredictState, TypeInv, TypeOK
  <1>9. CASE StatePredicted
    BY <1>9 DEF StatePredicted, TypeInv, TypeOK, Predicting
  <1>10. CASE UNCHANGED vars
    BY <1>10 DEF vars, TypeInv, TypeOK, Predicting
  <1>11. CASE Program
    <2>1. ASSUME NEW t1 \in Asked, pc \in {"predicted", "refused"} PROVE t1 \in Int
      <3>1. predictions_ # <<>>
        BY <2>1 DEF TypeInv, Predicting
      <3> QED BY <2>1, <3>1, LastType, IncrementalFmuAssumption DEF Asked
    <2> QED BY <1>1, <1>2, <1>3, <1>4, <1>5, <1>6, <1>11, <2>1 DEF Program
  <1> QED BY <1>7, <1>8, <1>9, <1>10, <1>11 DEF Next, Ended

(* Types are kept: what the search finds exists, what is interpolated lies *)
(* between times that differ, and the drift stays within its bound.        *)
THEOREM IncrementalTypeCorrect == Spec => []TypeOK
  <1>1. TypeInv => TypeOK
    BY DEF TypeInv
  <1> QED BY <1>1, InitTypes, NextTypes, PTL DEF Spec

(* Whatever time in range a program asks for, updateState() finds a        *)
(* prediction near it, or interpolates between an earlier and a later one: *)
(* it never reads beyond the newest and never divides by zero.             *)
THEOREM InterpolatesBetween == Spec => []InterpolationBetween
  <1>1. TypeInv => InterpolationBetween
    <2> SUFFICES ASSUME TypeInv, pc \in {"predicted", "refused"},
                        NEW t \in StartTime .. End + LookAheadHorizon, ~OutOfRange(t)
                 PROVE  /\ Found(t) > 0
                        /\ \/ Near(t, predictions_[Found(t)])
                           \/ /\ Found(t) < Len(predictions_)
                              /\ predictions_[Found(t)].time_ < t
                              /\ t < predictions_[Found(t) + 1].time_
      BY DEF InterpolationBetween
    <2>1. predictions_ # <<>> /\ t \in Int
      BY IncrementalFmuAssumption DEF TypeInv, Predicting
    <2>2. Len(predictions_) \in Nat
      BY <2>1, LastType
    <2> QED BY <2>1, <2>2, Finds
  <1> QED BY <1>1, InitTypes, NextTypes, PTL DEF Spec

-----------------------------------------------------------------------------
(* What the FMU may step over. Before a prediction that starts near the    *)
(* event, and in its first integration, the far side of the event is near  *)
(* the synchronized time; after that an FMU that stands before an event    *)
(* has told so, and is not integrated.                                     *)

FarSideNear ==
    /\ pc = "new" => ~fmu.upcoming /\ fmu.time = now
    /\ pc \in {"predicted", "refused"} =>
           (fmu.upcoming => fmu.until <= lastEventTime_ + Horizon)
    /\ pc = "updated" => fmu.time = now
    /\ pc \in {"updated", "synced"} =>
           (fmu.upcoming => StartsBeforeEvent(now) \/ fmu.until <= now + Slack)
    /\ pc = "predicting" =>
           IF Len(predictions_) = 1
           THEN /\ Last(predictions_).time_ = now
                /\ fmu.upcoming => fmu.until <= now + Slack
           ELSE fmu.upcoming => fmu.event /\ fmu.until <= lastEventTime_ + Horizon

AheadInv == FarSideNear /\ NoUpdateAhead

IncrementalInv == TypeInv /\ AheadInv

LEMMA Numbers ==
    /\ TimeDiffResolution \in Nat /\ Horizon \in Nat /\ Slack \in Nat
    /\ Slack = TimeDiffResolution + Horizon
    /\ StartTime \in Int
  BY IncrementalFmuAssumption DEF Slack

LEMMA HandleNumbers ==
    ASSUME NEW f \in FmuRecord
    PROVE  /\ f.time \in Int /\ f.until \in Int /\ f.acted \in Int
           /\ f.upcoming \in BOOLEAN /\ f.event \in BOOLEAN /\ f.steps \in BOOLEAN
  BY DEF FmuRecord

(* The loop of predictState() goes round once at least.                    *)
LEMMA PredictsSomething ==
    ASSUME TypeInv, FarSideNear, pc = "predicting", ~GoesOn
    PROVE  Len(predictions_) \in Nat /\ Len(predictions_) > 1 /\ Len(predictions_) # 1
  <1>1. Len(predictions_) \in Nat \ {0} /\ now \in Int
    BY LastType DEF TypeInv, TypeOK, Predicting
  <1>2. Len(predictions_) # 1
    <2> SUFFICES ASSUME Len(predictions_) = 1 PROVE GoesOn
      OBVIOUS
    <2>1. Last(predictions_).time_ = now
      BY DEF FarSideNear
    <2>2. BeforeHorizon
      BY <1>1, <2>1, IncrementalFmuAssumption, HorizonAssumption DEF BeforeHorizon
    <2> QED BY <2>2 DEF GoesOn
  <1> DEFINE n == Len(predictions_)
  <1>3. n \in Nat /\ n # 0 /\ n # 1
    BY <1>1, <1>2
  <1> HIDE DEF n
  <1>4. n > 1
    BY <1>3
  <1> QED BY <1>3, <1>4 DEF n

LEMMA InitAhead ==
    Init => AheadInv
  <1> SUFFICES ASSUME Init PROVE AheadInv
    OBVIOUS
  <1>1. PICK input \in Inputs, steps \in StepEvents : fmu = NewHandle(input, steps)
    BY DEF Init
  <1>2. ~fmu.upcoming /\ fmu.acted = StartTime /\ fmu.time = StartTime
    BY <1>1 DEF NewHandle
  <1> QED BY <1>2, Numbers DEF Init, AheadInv, FarSideNear, NoUpdateAhead

LEMMA NextAhead ==
    IncrementalInv /\ TypeInv' /\ [Next]_vars => AheadInv'
  <1> SUFFICES ASSUME IncrementalInv, TypeInv', [Next]_vars
               PROVE  FarSideNear' /\ NoUpdateAhead'
    BY DEF AheadInv
  <1>0. /\ fmu \in FmuRecord /\ fmu' \in FmuRecord
        /\ now \in Int /\ now' \in Int /\ lastEventTime_ \in Int /\ lastEventTime_' \in Int
    BY DEF IncrementalInv, TypeInv, TypeOK
  <1>00. /\ fmu.time \in Int /\ fmu.until \in Int /\ fmu.acted \in Int
         /\ fmu'.time \in Int /\ fmu'.until \in Int /\ fmu'.acted \in Int
    BY <1>0, HandleNumbers
  <1>i. FarSideNear /\ NoUpdateAhead
    BY DEF IncrementalInv, AheadInv
  <1>1. ASSUME NEW input \in Inputs, InitFmu(input)
        PROVE  FarSideNear' /\ NoUpdateAhead'
    <2> DEFINE f == SetInputs(fmu, input)
    <2>1. f \in FmuRecord /\ f.steps = fmu.steps /\ f.upcoming = fmu.upcoming /\ f.acted = fmu.acted
          /\ f.time = fmu.time /\ f.until = fmu.until
      BY <1>0 DEF SetInputs, FmuRecord
    <2> HIDE DEF f
    <2>2. fmu' = HandleEvents(f)
      BY <1>1 DEF InitFmu, f
    <2>3. fmu'.steps = fmu.steps /\ fmu'.upcoming = fmu.upcoming /\ fmu'.acted = fmu.time
      BY <2>1, <2>2, HandledType
    <2>4. ~fmu.upcoming /\ fmu.time = now
      BY <1>1, <1>i, <2>3 DEF FarSideNear, InitFmu
    <2>5. fmu'.acted <= now' + Slack
      BY <1>0, <1>1, <2>3, <2>4, Numbers DEF InitFmu
    <2> QED BY <1>1, <2>3, <2>4, <2>5 DEF InitFmu, FarSideNear, NoUpdateAhead
  <1>2. CASE InitFails
    BY <1>2, <1>i DEF InitFails, FarSideNear, NoUpdateAhead
  <1>3. ASSUME NEW t1 \in Int, UpdateState(t1)
        PROVE  FarSideNear' /\ NoUpdateAhead'
    <2>1. predictions_ # <<>>
      BY <1>3 DEF UpdateState, IncrementalInv, TypeInv, Predicting
    <2>2. currentState_' \in HistoryEntry
      BY DEF TypeInv, TypeOK
    <2>3. /\ fmu'.time = t1 /\ fmu'.acted = t1 /\ fmu'.steps = fmu.steps
          /\ fmu'.until = fmu.until /\ fmu'.upcoming = fmu.upcoming
      BY <1>3, <2>1, <2>2, UpdatedType DEF UpdateState, IncrementalInv
    <2>4. /\ pc \in {"predicted", "refused"} /\ pc' = "updated"
          /\ now' = t1 /\ lastEventTime_' = lastEventTime_
      BY <1>3 DEF UpdateState
    <2>5. fmu.upcoming => fmu.until <= lastEventTime_ + Horizon
      BY <1>i, <2>3, <2>4 DEF FarSideNear
    <2>6. fmu.upcoming => t1 < lastEventTime_ - TimeDiffResolution \/ fmu.until <= t1 + Slack
      BY <1>0, <1>00, <2>5, Numbers
    <2>7. fmu'.acted <= now' + Slack
      BY <2>3, <2>4, Numbers
    <2> QED BY <2>3, <2>4, <2>6, <2>7 DEF FarSideNear, NoUpdateAhead, StartsBeforeEvent
  <1>4. ASSUME NEW t1 \in Int, UpdateRefused(t1)
        PROVE  FarSideNear' /\ NoUpdateAhead'
    <2>1. /\ fmu'.acted = fmu.acted /\ fmu'.steps = fmu.steps
          /\ fmu'.until = fmu.until /\ fmu'.upcoming = fmu.upcoming
      BY <1>0, <1>4 DEF UpdateRefused, FmuRecord
    <2> QED BY <1>4, <1>i, <2>1 DEF UpdateRefused, FarSideNear, NoUpdateAhead
  <1>5. ASSUME NEW t1 \in Int, UpdateStateFromTheRight(t1)
        PROVE  FarSideNear' /\ NoUpdateAhead'
    <2> DEFINE entry == UpdateTime(GetState(t1), t1)
               f == UpdateFmu(fmu, entry, t1)
    <2>1. predictions_ # <<>> /\ TypeInv
      BY <1>5 DEF UpdateStateFromTheRight, IncrementalInv, TypeInv, Predicting
    <2>2. entry \in HistoryEntry /\ f \in FmuRecord
      BY <2>1, GetStateType, UpdatedType
    <2>3. entry.time_ + TimeDiffResolution \in Int
      BY <2>2, Numbers DEF HistoryEntry
    <2>4. PICK g \in Integrate(f, entry.time_ + TimeDiffResolution) : fmu' = HandleEvents(g) /\ now' = g.time
      BY <1>5 DEF UpdateStateFromTheRight
    <2>5. pc' = "updated"
      BY <1>5 DEF UpdateStateFromTheRight
    <2> HIDE DEF entry, f
    <2>6. g \in FmuRecord /\ (g.upcoming => g.until <= g.time + Horizon)
      BY <2>2, <2>3, <2>4, Integrates
    <2>7. fmu'.upcoming => fmu'.until <= now' + Horizon
      BY <2>4, <2>6, HandledType
    <2>10. fmu'.time = now' /\ fmu'.acted = now'
      BY <2>4, <2>6, HandledType
    <2>8. fmu'.acted <= now' + Slack
      <3>1. ASSUME NEW t \in Int PROVE t <= t + Slack
        BY Numbers
      <3>2. now' <= now' + Slack
        BY <1>0, <3>1
      <3> QED BY <2>10, <3>2
    <2>9. fmu'.until <= now' + Horizon => fmu'.until <= now' + Slack
      BY <1>0, <1>00, Numbers
    <2> QED BY <2>5, <2>7, <2>8, <2>9, <2>10 DEF FarSideNear, NoUpdateAhead
  <1>6. ASSUME NEW input \in Inputs, SyncState(input)
        PROVE  FarSideNear' /\ NoUpdateAhead'
    <2> DEFINE f == SetInputs(fmu, input)
    <2>1. /\ f \in FmuRecord /\ f.steps = fmu.steps /\ f.upcoming = fmu.upcoming
          /\ f.time = fmu.time /\ f.until = fmu.until
      BY <1>0 DEF SetInputs, FmuRecord
    <2> HIDE DEF f
    <2>2. fmu' = HandleEvents(f)
      BY <1>6 DEF SyncState, f
    <2>3. /\ fmu'.steps = fmu.steps /\ fmu'.upcoming = fmu.upcoming
          /\ fmu'.until = fmu.until /\ fmu'.acted = fmu.time
      BY <2>1, <2>2, HandledType
    <2>4. /\ pc = "updated" /\ pc' = "synced" /\ now' = now
          /\ lastEventTime_' = lastEventTime_
      BY <1>6 DEF SyncState
    <2>5. fmu.time = now /\ (fmu.upcoming => StartsBeforeEvent(now) \/ fmu.until <= now + Slack)
      BY <1>i, <2>3, <2>4 DEF FarSideNear
    <2>6. fmu'.acted <= now' + Slack
      BY <1>0, <2>3, <2>4, <2>5, Numbers
    <2> QED BY <2>3, <2>4, <2>5, <2>6 DEF FarSideNear, NoUpdateAhead, StartsBeforeEvent
  <1>7. CASE StartPrediction
    <2> DEFINE prediction == [currentState_ EXCEPT !.time_ = now]
               f == IF StartsBeforeEvent(now) THEN ResetEventFlags(fmu) ELSE fmu
    <2>1. /\ f \in FmuRecord /\ f.steps = fmu.steps /\ f.until = fmu.until /\ f.acted = fmu.acted
          /\ f.upcoming => fmu.upcoming /\ ~StartsBeforeEvent(now)
      BY <1>0 DEF ResetEventFlags, FmuRecord
    <2>2. prediction.time_ = now
      BY DEF IncrementalInv, TypeInv, TypeOK, HistoryEntry
    <2> HIDE DEF f, prediction
    <2>3. /\ pc \in {"updated", "synced"} /\ pc' = "predicting" /\ now' = now
          /\ fmu' = InitializeIntegration(f, prediction) /\ predictions_' = <<prediction>>
      BY <1>7 DEF StartPrediction, f, prediction
    <2>4. /\ fmu'.steps = f.steps /\ fmu'.until = f.until /\ fmu'.acted = f.acted
          /\ fmu'.upcoming = f.upcoming
      BY <2>1, <2>3 DEF InitializeIntegration, FmuRecord
    <2>5. /\ ~fmu'.steps => fmu'.acted <= now' + Slack
          /\ fmu'.upcoming => fmu'.until <= now' + Slack
      BY <1>i, <2>1, <2>3, <2>4 DEF FarSideNear, NoUpdateAhead
    <2>6. Len(predictions_') = 1 /\ Last(predictions_').time_ = now'
      BY <2>2, <2>3 DEF Last
    <2> QED BY <2>3, <2>5, <2>6 DEF FarSideNear, NoUpdateAhead
  <1>8. CASE PredictState
    <2>1. predictions_ # <<>> /\ TypeInv
      BY <1>8 DEF PredictState, IncrementalInv, TypeInv, Predicting
    <2>2. Len(predictions_) \in Nat \ {0} /\ Last(predictions_).time_ + LookAheadStepSize \in Int
      BY <2>1, LastType, IncrementalFmuAssumption
    <2>3. PICK g \in Integrate(fmu, Last(predictions_).time_ + LookAheadStepSize) :
             fmu' = g /\ lastEventTime_' = g.time
      BY <1>8 DEF PredictState
    <2>4. /\ fmu'.steps = fmu.steps
          /\ fmu'.upcoming => fmu'.event /\ fmu'.until <= lastEventTime_' + Horizon
          /\ ~fmu.steps => fmu'.acted = IF fmu.upcoming THEN fmu.until ELSE fmu.acted
      BY <1>0, <2>2, <2>3, Integrates
    <2>5. pc = "predicting" /\ pc' = "predicting" /\ now' = now /\ GoesOn
      BY <1>8 DEF PredictState
    <2>6. Len(predictions_') # 1
      <3> DEFINE entry == RetrieveFMUState(fmu', lastEventTime_')
      <3>1. predictions_' = Append(predictions_, entry)
        BY <1>8 DEF PredictState
      <3> HIDE DEF entry
      <3>2. Len(predictions_') = Len(predictions_) + 1
        BY <2>1, <3>1 DEF TypeInv, TypeOK
      <3> QED BY <2>2, <3>2
    <2>7. NoUpdateAhead'
      <3>1. FarSideNear /\ NoUpdateAhead
        BY <1>i
      <3>2. CASE Len(predictions_) = 1
        BY <2>4, <2>5, <3>1, <3>2 DEF FarSideNear, NoUpdateAhead
      <3>3. CASE Len(predictions_) # 1
        <4>0. Len(predictions_) > 1
          <5> DEFINE n == Len(predictions_)
          <5>1. n \in Nat /\ n # 0 /\ n # 1
            BY <2>2, <3>3
          <5> HIDE DEF n
          <5>2. n > 1
            BY <5>1
          <5> QED BY <5>2 DEF n
        <4>1. ~fmu.event
          BY <2>5, <4>0, Zenon DEF GoesOn
        <4> QED BY <2>4, <2>5, <3>1, <3>3, <4>1 DEF FarSideNear, NoUpdateAhead
      <3> QED BY <3>2, <3>3
    <2> QED BY <2>4, <2>5, <2>6, <2>7 DEF FarSideNear, NoUpdateAhead
  <1>9. CASE StatePredicted
    <2>1. /\ pc = "predicting" /\ pc' = "predicted" /\ ~GoesOn
          /\ fmu' = fmu /\ now' = now /\ lastEventTime_' = lastEventTime_
      BY <1>9 DEF StatePredicted
    <2>2. FarSideNear /\ NoUpdateAhead
      BY <1>i
    <2>3. Len(predictions_) # 1
      BY <1>i, <2>1, PredictsSomething DEF IncrementalInv
    <2> QED BY <2>1, <2>2, <2>3 DEF FarSideNear, NoUpdateAhead
  <1>10. CASE UNCHANGED vars
    BY <1>10, <1>i DEF vars, FarSideNear, NoUpdateAhead, StartsBeforeEvent
  <1>11. CASE Program
    <2>1. ASSUME NEW t1 \in Asked, pc \in {"predicted", "refused"} PROVE t1 \in Int
      <3>1. predictions_ # <<>> /\ TypeInv
        BY <2>1 DEF IncrementalInv, TypeInv, Predicting
      <3> QED BY <2>1, <3>1, LastType, IncrementalFmuAssumption DEF Asked
    <2> QED BY <1>1, <1>2, <1>3, <1>4, <1>5, <1>6, <1>11, <2>1 DEF Program
  <1> QED BY <1>7, <1>8, <1>9, <1>10, <1>11 DEF Next, Ended

(* A prediction makes no update: whatever times a program asks for, the    *)
(* FMU has handled no event later than the synchronized time, but for the  *)
(* one it had stopped before, and that is near.                            *)
THEOREM PredictionsUpdateNothing == Spec => []NoUpdateAhead
  <1>1. IncrementalInv => NoUpdateAhead
    BY DEF IncrementalInv, AheadInv, NoUpdateAhead
  <1>2. Init => IncrementalInv
    BY InitTypes, InitAhead DEF IncrementalInv
  <1>3. IncrementalInv /\ [Next]_vars => IncrementalInv'
    BY NextTypes, NextAhead DEF IncrementalInv
  <1> QED BY <1>1, <1>2, <1>3, PTL DEF Spec

-----------------------------------------------------------------------------
(* States that go with the time.                                           *)

LEMMA Divides ==
    ASSUME NEW p \in Int, NEW n \in Nat \ {0}
    PROVE  p \div n \in Int /\ (p \div n) * n <= p /\ p < (p \div n + 1) * n
  <1> DEFINE q == p \div n
             r == p % n
  <1>1. q \in Int /\ r \in Int /\ p = n * q + r /\ 0 <= r /\ r < n
    OBVIOUS
  <1> HIDE DEF q, r
  <1>2. q * n <= p /\ p < (q + 1) * n
    <2>1. q * n = n * q /\ (q + 1) * n = n * q + n
      BY <1>1
    <2>2. n * q \in Int
      BY <1>1
    <2> QED BY <1>1, <2>1, <2>2
  <1> QED BY <1>1, <1>2 DEF q

LEMMA ProductsInOrder ==
    ASSUME NEW m \in Int, NEW k \in Int, NEW n \in Nat, m <= k
    PROVE  m * n <= k * n
  <1>1. PICK j \in Nat : k = m + j
    BY k - m \in Nat
  <1>2. k * n = m * n + j * n
    BY <1>1
  <1>3. j * n \in Nat /\ m * n \in Int
    BY <1>1
  <1> QED BY <1>2, <1>3

LEMMA ProductIsNat ==
    ASSUME NEW m \in Nat, NEW n \in Nat
    PROVE  m * n \in Nat
  OBVIOUS

(* Between two states that go with their times lie states that do so.      *)
LEMMA InterpolatedGoes ==
    ASSUME NEW x \in Int, NEW x0 \in Int, NEW x1 \in Int, x0 < x, x < x1,
           NEW y0 \in Int, NEW y1 \in Int, NEW d \in Nat,
           Distance(y0, x0) <= d, Distance(y1, x1) <= d
    PROVE  /\ InterpolateValue(x, x0, y0, x1, y1) \in Int
           /\ Distance(InterpolateValue(x, x0, y0, x1, y1), x) <= d
  <1>1. PICK a \in Nat : x = x0 + a
    BY x - x0 \in Nat
  <1>2. PICK n \in Nat \ {0} : x1 = x0 + n
    BY x1 - x0 \in Nat \ {0}
  <1>3. PICK c \in Nat : n = a + c
    BY <1>1, <1>2, n - a \in Nat
  <1>4. PICK e0 \in Int : y0 = x0 + e0
    BY y0 - x0 \in Int
  <1>5. PICK e1 \in Int : y1 = x1 + e1
    BY y1 - x1 \in Int
  <1>6. d + e0 \in Nat /\ d - e0 \in Nat /\ d + e1 \in Nat /\ d - e1 \in Nat
    BY <1>4, <1>5 DEF Distance
  <1> DEFINE p == a * (n + e1 - e0)
             q == p \div n
  <1>7. p \in Int
    OBVIOUS
  <1>8. InterpolateValue(x, x0, y0, x1, y1) = y0 + q
    <2>1. x - x0 = a /\ x1 - x0 = n /\ y1 - y0 = n + e1 - e0
      BY <1>1, <1>2, <1>4, <1>5
    <2> QED BY <2>1 DEF InterpolateValue
  <1> HIDE DEF q
  <1>9. q \in Int /\ q * n <= p /\ p < (q + 1) * n
    <2> HIDE DEF p
    <2> QED BY <1>7, Divides DEF q
  <1>10. (a - d - e0) * n <= p
    <2>1. a * (d + e1) \in Nat /\ (d + e0) * c \in Nat
      BY <1>6, ProductIsNat
    <2>2. p - (a - d - e0) * n = a * (d + e1) + (d + e0) * c
      BY <1>3
    <2>3. (a - d - e0) * n \in Int
      OBVIOUS
    <2> HIDE DEF p
    <2> QED BY <1>7, <2>1, <2>2, <2>3
  <1>11. p <= (a + d - e0) * n
    <2>1. a * (d - e1) \in Nat /\ (d - e0) * c \in Nat
      BY <1>6, ProductIsNat
    <2>2. (a + d - e0) * n - p = a * (d - e1) + (d - e0) * c
      BY <1>3
    <2>3. (a + d - e0) * n \in Int
      OBVIOUS
    <2> HIDE DEF p
    <2> QED BY <1>7, <2>1, <2>2, <2>3
  <1> HIDE DEF p
  <1>12. a - d - e0 <= q
    <2> SUFFICES ASSUME q + 1 <= a - d - e0 PROVE FALSE
      BY <1>9
    <2>1. (q + 1) * n <= (a - d - e0) * n
      BY <1>9, ProductsInOrder
    <2>2. (q + 1) * n \in Int /\ (a - d - e0) * n \in Int
      BY <1>9
    <2> QED BY <1>7, <1>9, <1>10, <2>1, <2>2
  <1>13. q <= a + d - e0
    <2> SUFFICES ASSUME a + d - e0 + 1 <= q PROVE FALSE
      BY <1>9
    <2>1. (a + d - e0 + 1) * n <= q * n
      BY <1>9, ProductsInOrder
    <2>2. (a + d - e0 + 1) * n = (a + d - e0) * n + n
      OBVIOUS
    <2>3. (a + d - e0) * n \in Int /\ q * n \in Int
      BY <1>9
    <2> QED BY <1>7, <1>9, <1>11, <2>1, <2>2, <2>3
  <1> QED BY <1>1, <1>4, <1>8, <1>9, <1>12, <1>13 DEF Distance

(* The predictions there are while a program may ask for a time, or while  *)
(* they are made.                                                          *)
Listed == {"predicted", "refused", "predicting"}

EntryGoes(entry) ==
    /\ Distance(entry.state_, entry.time_) <= drift
    /\ entry.realValues_ = RealOutput(fmu, entry.state_)

DriftInv ==
    /\ Distance(fmu.state, fmu.time) <= drift
    /\ pc = "new" => fmu.time = now /\ now = StartTime
    /\ pc \in {"updated", "synced"} =>
           /\ fmu.time = now /\ fmu.acted = now
           /\ currentState_.state_ = fmu.state
           /\ currentState_.realValues_ = RealOutput(fmu, fmu.state)
    /\ pc \in Listed => \A i \in 1 .. Len(predictions_) : EntryGoes(predictions_[i])

(* Predictions begin at the synchronized time, and go on from it: only an  *)
(* event, which ends them, takes the last one back.                        *)
Continues == Len(predictions_) > 1 => ~fmu.event

TimesInv ==
    /\ pc \in Listed =>
           /\ predictions_[1].time_ = now
           /\ \A i \in 1 .. Len(predictions_) - 1 : predictions_[i].time_ >= now
           /\ Len(predictions_) > 1 => lastEventTime_ = Last(predictions_).time_
    /\ pc \in {"predicted", "refused"} => (fmu.upcoming => Len(predictions_) > 1)
    /\ pc = "predicting" =>
           /\ fmu.time = Last(predictions_).time_
           /\ fmu.state = Last(predictions_).state_
           /\ Continues => Last(predictions_).time_ >= now

(* Other outputs show no event later than the far side of the one the FMU  *)
(* had stopped before, which is near the synchronized time.                *)
ReachOfEvent == now + Horizon + drift
ReachOfOutput == now + Slack + drift

OutputsInv ==
    ~fmu.steps =>
        /\ pc \in {"updated", "synced"} =>
               (fmu.upcoming => StartsBeforeEvent(now) \/ fmu.until <= ReachOfEvent)
        /\ pc = "predicting" =>
               /\ fmu.acted <= ReachOfEvent
               /\ fmu.upcoming /\ Len(predictions_) = 1 => fmu.until <= ReachOfEvent
        /\ pc \in Listed =>
               /\ predictions_[1].otherValues_ <= ReachOfOutput
               /\ \A i \in 2 .. Len(predictions_) : predictions_[i].otherValues_ <= ReachOfEvent
        /\ pc \in Predicting => currentState_.otherValues_ <= ReachOfOutput

FollowsInv == DriftInv /\ TimesInv /\ OutputsInv

LEMMA DistanceType ==
    ASSUME NEW s \in Int, NEW t \in Int
    PROVE  Distance(s, t) \in Nat /\ Distance(t, s) = Distance(s, t)
  BY DEF Distance

(* What updateState() takes from the predictions goes with the time it is  *)
(* asked for.                                                              *)
LEMMA GetStateGoes ==
    ASSUME TypeInv, DriftInv, pc \in {"predicted", "refused"}, NEW t \in Int, ~OutOfRange(t)
    PROVE  /\ OffPrediction(t) \in Nat
           /\ Distance(GetState(t).state_, t) <= drift + OffPrediction(t)
           /\ GetState(t).realValues_ = RealOutput(fmu, GetState(t).state_)
  <1> DEFINE i == Found(t)
  <1>1. predictions_ # <<>> /\ drift \in Nat
    BY IncrementalFmuAssumption DEF TypeInv, TypeOK, Predicting
  <1>2. \A j \in 1 .. Len(predictions_) :
           /\ predictions_[j].time_ \in Int /\ predictions_[j].state_ \in Int
           /\ predictions_[j].realValues_ \in Int
           /\ EntryGoes(predictions_[j])
    BY EntryType DEF DriftInv, Listed, HistoryEntry
  <1>3. i \in 1 .. Len(predictions_)
    BY <1>1, Finds
  <1> HIDE DEF i
  <1>4. CASE Near(t, predictions_[i])
    <2>1. GetState(t) = predictions_[i] /\ OffPrediction(t) = Distance(t, predictions_[i].time_)
      BY <1>4 DEF GetState, OffPrediction, i
    <2> PICK entry : entry = predictions_[i]
      OBVIOUS
    <2>2. /\ entry.time_ \in Int /\ entry.state_ \in Int
          /\ Distance(entry.state_, entry.time_) <= drift
          /\ entry.realValues_ = RealOutput(fmu, entry.state_)
      BY <1>2, <1>3 DEF EntryGoes
    <2>3. /\ Distance(t, entry.time_) \in Nat
          /\ Distance(entry.state_, t) <= drift + Distance(t, entry.time_)
      <3>1. /\ Distance(t, entry.time_) \in Nat /\ Distance(entry.state_, entry.time_) \in Nat
            /\ Distance(entry.state_, t) \in Nat
        BY <2>2 DEF Distance
      <3>2. Distance(entry.state_, t)
               <= Distance(entry.state_, entry.time_) + Distance(t, entry.time_)
        BY <2>2 DEF Distance
      <3> QED BY <1>1, <2>2, <3>1, <3>2
    <2> QED BY <2>1, <2>2, <2>3
  <1>5. CASE ~Near(t, predictions_[i])
    <2>1. i + 1 \in 1 .. Len(predictions_) /\ predictions_[i].time_ < t /\ t < predictions_[i + 1].time_
      BY <1>1, <1>5, Finds DEF i
    <2>2. GetState(t) = InterpolateState(t, predictions_[i], predictions_[i + 1]) /\ OffPrediction(t) = 0
      BY <1>5 DEF GetState, OffPrediction, i
    <2> DEFINE left == predictions_[i]
               right == predictions_[i + 1]
               s == InterpolateValue(t, left.time_, left.state_, right.time_, right.state_)
               r == InterpolateValue(t, left.time_, left.realValues_, right.time_, right.realValues_)
    <2>0. PICK c \in Int : c = (End + 1) * fmu.input
      <3>1. fmu.input \in Nat /\ End \in Nat
        BY IncrementalFmuAssumption DEF TypeInv, TypeOK, FmuRecord
      <3> QED BY <3>1
    <2>3. /\ left.time_ \in Int /\ left.state_ \in Int /\ EntryGoes(left)
          /\ right.time_ \in Int /\ right.state_ \in Int /\ EntryGoes(right)
          /\ left.time_ < t /\ t < right.time_
      BY <1>2, <1>3, <2>1
    <2>4. left.realValues_ = left.state_ + c /\ right.realValues_ = right.state_ + c
      BY <2>0, <2>3 DEF EntryGoes, RealOutput
    <2>5. GetState(t).state_ = s /\ GetState(t).realValues_ = r
      <3>1. currentState_ \in HistoryEntry
        BY DEF TypeInv, TypeOK
      <3>2. GetState(t) = [currentState_ EXCEPT !.time_ = t, !.state_ = s, !.realValues_ = r]
        BY <2>2 DEF InterpolateState
      <3> HIDE DEF s, r
      <3> QED BY <3>1, <3>2 DEF HistoryEntry
    <2> HIDE DEF left, right
    <2>6. s \in Int /\ Distance(s, t) <= drift
      BY <1>1, <2>3, InterpolatedGoes DEF EntryGoes
    <2>7. r = s + c
      <3> DEFINE q == ((t - left.time_) * (right.state_ - left.state_)) \div (right.time_ - left.time_)
      <3>1. right.realValues_ - left.realValues_ = right.state_ - left.state_
        BY <2>3, <2>4
      <3>2. s = left.state_ + q /\ r = left.realValues_ + q
        BY <3>1 DEF InterpolateValue
      <3>3. q \in Int
        <4>1. (t - left.time_) * (right.state_ - left.state_) \in Int
              /\ right.time_ - left.time_ \in Nat \ {0}
          BY <2>3
        <4> QED BY <4>1
      <3> HIDE DEF q, s, r
      <3> QED BY <2>3, <2>4, <3>2, <3>3
    <2>8. RealOutput(fmu, s) = s + c
      BY <2>0 DEF RealOutput
    <2> QED BY <1>1, <2>2, <2>5, <2>6, <2>7, <2>8 DEF Distance
  <1> QED BY <1>4, <1>5

(* and so do the outputs that are not real.                                *)
LEMMA GetStateReaches ==
    ASSUME TypeInv, TimesInv, OutputsInv, ~fmu.steps,
           pc \in {"predicted", "refused"}, NEW t \in Int, ~OutOfRange(t)
    PROVE  GetState(t).otherValues_ <= t + Slack + drift + OffPrediction(t)
  <1> DEFINE i == Found(t)
  <1>1. predictions_ # <<>> /\ drift \in Nat /\ now \in Int /\ currentState_.otherValues_ \in Int
    BY IncrementalFmuAssumption DEF TypeInv, TypeOK, Predicting, HistoryEntry
  <1>2. \A j \in 1 .. Len(predictions_) :
           predictions_[j].time_ \in Int /\ predictions_[j].otherValues_ \in Int
    BY EntryType DEF HistoryEntry
  <1>3. i \in 1 .. Len(predictions_)
    BY <1>1, Finds
  <1>4. /\ predictions_[1].time_ = now
        /\ \A j \in 1 .. Len(predictions_) - 1 : predictions_[j].time_ >= now
        /\ predictions_[1].otherValues_ <= now + Slack + drift
        /\ \A j \in 2 .. Len(predictions_) : predictions_[j].otherValues_ <= now + Horizon + drift
        /\ currentState_.otherValues_ <= now + Slack + drift
    BY DEF TimesInv, OutputsInv, Listed, Predicting, ReachOfEvent, ReachOfOutput
  <1>5. now < t + TimeDiffResolution
    BY <1>1, <1>4, Numbers DEF OutOfRange
  <1>6. Len(predictions_) \in Nat
    BY <1>1, LastType
  <1> HIDE DEF i
  <1>7. CASE Near(t, predictions_[i])
    <2>1. GetState(t) = predictions_[i] /\ OffPrediction(t) = Distance(t, predictions_[i].time_)
      BY <1>7 DEF GetState, OffPrediction, i
    <2>2. OffPrediction(t) \in Nat
      BY <1>2, <1>3, <2>1, DistanceType
    <2>3. CASE i = 1
      <3>1. now <= t + OffPrediction(t)
        BY <1>1, <1>2, <1>3, <1>4, <2>1, <2>3 DEF Distance
      <3> QED BY <1>1, <1>2, <1>3, <1>4, <2>1, <2>2, <2>3, <3>1, Numbers
    <2>4. CASE i # 1
      <3>1. i \in 2 .. Len(predictions_)
        BY <1>3, <1>6, <2>4
      <3>2. predictions_[i].otherValues_ <= now + Horizon + drift
        BY <1>4, <3>1
      <3> QED BY <1>1, <1>2, <1>3, <1>5, <2>1, <2>2, <3>2, Numbers
    <2> QED BY <2>3, <2>4
  <1>8. CASE ~Near(t, predictions_[i])
    <2>1. i + 1 \in 1 .. Len(predictions_) /\ predictions_[i].time_ < t
      BY <1>1, <1>8, Finds DEF i
    <2>2. GetState(t) = InterpolateState(t, predictions_[i], predictions_[i + 1]) /\ OffPrediction(t) = 0
      BY <1>8 DEF GetState, OffPrediction, i
    <2>3. GetState(t).otherValues_ = currentState_.otherValues_
      <3>1. currentState_ \in HistoryEntry
        BY DEF TypeInv, TypeOK
      <3> QED BY <2>2, <3>1 DEF InterpolateState, HistoryEntry
    <2>4. i \in 1 .. Len(predictions_) - 1
      BY <1>3, <1>6, <2>1
    <2>5. now < t
      BY <1>1, <1>2, <1>3, <1>4, <2>1, <2>4
    <2> QED BY <1>1, <1>4, <2>2, <2>3, <2>5, Numbers
  <1> QED BY <1>7, <1>8

LEMMA InitFollows ==
    Init => FollowsInv
  <1> SUFFICES ASSUME Init PROVE FollowsInv
    OBVIOUS
  <1>1. PICK input \in Inputs, steps \in StepEvents : fmu = NewHandle(input, steps)
    BY DEF Init
  <1>2. fmu.state = StartTime /\ fmu.time = StartTime /\ pc = "new" /\ now = StartTime /\ drift = 0
    BY <1>1 DEF Init, NewHandle
  <1>3. Distance(fmu.state, fmu.time) <= drift
    BY <1>2, Numbers DEF Distance
  <1> QED BY <1>2, <1>3 DEF FollowsInv, DriftInv, TimesInv, OutputsInv, Listed, Predicting

LEMMA InitFmuFollows ==
    ASSUME TypeInv, AheadInv, FollowsInv, NEW input \in Inputs, InitFmu(input)
    PROVE  FollowsInv'
  <1> DEFINE g == SetInputs(fmu, input)
             f == HandleEvents(g)
             initial == RetrieveFMUState(f, StartTime)
  <1>1. fmu \in FmuRecord /\ drift \in Nat /\ now \in Int
    BY IncrementalFmuAssumption DEF TypeInv, TypeOK
  <1>2. /\ g \in FmuRecord /\ g.time = fmu.time /\ g.state = fmu.state /\ g.upcoming = fmu.upcoming
    BY <1>1 DEF SetInputs, FmuRecord
  <1> HIDE DEF g
  <1>3. /\ f \in FmuRecord /\ f.time = fmu.time /\ f.state = fmu.state /\ f.upcoming = fmu.upcoming
        /\ f.acted = fmu.time
    BY <1>2, HandledType
  <1> HIDE DEF f
  <1>4. /\ pc = "new" /\ fmu' = f /\ predictions_' = <<initial>> /\ currentState_' = initial
        /\ pc' = "predicted" /\ now' = now /\ drift' = drift
    BY <1>1 DEF InitFmu, f, g
  <1>5. /\ Distance(fmu.state, fmu.time) <= drift /\ fmu.time = now /\ now = StartTime
        /\ ~fmu.upcoming
    BY <1>4 DEF FollowsInv, DriftInv, AheadInv, FarSideNear
  <1>6. /\ initial.time_ = StartTime /\ initial.state_ = f.state /\ initial.otherValues_ = f.acted
        /\ initial.realValues_ = RealOutput(f, f.state)
    BY DEF RetrieveFMUState
  <1> HIDE DEF initial
  <1>7. Len(predictions_') = 1 /\ predictions_'[1] = initial
    BY <1>4
  <1>8. DriftInv'
    <2>1. ASSUME NEW i \in 1 .. Len(predictions_') PROVE EntryGoes(predictions_[i])'
      BY <1>3, <1>4, <1>5, <1>6, <1>7 DEF EntryGoes
    <2> QED BY <1>3, <1>4, <1>5, <2>1 DEF DriftInv
  <1>9. TimesInv'
    BY <1>3, <1>4, <1>5, <1>6, <1>7 DEF TimesInv
  <1>10. OutputsInv'
    <2>1. initial.otherValues_ <= now + Slack + drift
      BY <1>1, <1>3, <1>5, <1>6, Numbers
    <2>2. predictions_'[1].otherValues_ <= ReachOfOutput' /\ currentState_'.otherValues_ <= ReachOfOutput'
      BY <1>4, <1>7, <2>1 DEF ReachOfOutput
    <2> QED BY <1>4, <1>7, <2>2 DEF OutputsInv
  <1> QED BY <1>8, <1>9, <1>10 DEF FollowsInv

(* An event that the FMU stands before when it is put to another time lies *)
(* after it, and is forgotten, or its far side is near.                    *)
LEMMA EventNear ==
    ASSUME TypeInv, AheadInv, TimesInv, pc \in {"predicted", "refused"}, fmu.upcoming,
           NEW t \in Int, ~OutOfRange(t), OffPrediction(t) \in Nat
    PROVE  \/ t < lastEventTime_ - TimeDiffResolution
           \/ fmu.until <= t + Horizon + OffPrediction(t)
  <1> SUFFICES ASSUME ~(t < lastEventTime_ - TimeDiffResolution)
               PROVE  fmu.until <= t + Horizon + OffPrediction(t)
    OBVIOUS
  <1>1. predictions_ # <<>> /\ fmu.until \in Int /\ lastEventTime_ \in Int
    BY HandleNumbers DEF TypeInv, TypeOK, Predicting
  <1>2. fmu.until <= lastEventTime_ + Horizon /\ lastEventTime_ = Last(predictions_).time_
    BY DEF AheadInv, FarSideNear, TimesInv, Listed
  <1>3. t < lastEventTime_ + TimeDiffResolution
    BY <1>1, <1>2, Numbers DEF OutOfRange
  <1>4. Near(t, Last(predictions_))
    <2>1. Distance(t, lastEventTime_) <= TimeDiffResolution
      BY <1>1, <1>3, Numbers DEF Distance
    <2> QED BY <1>2, <2>1 DEF Near
  <1>5. OffPrediction(t) = Distance(t, lastEventTime_)
    <2>1. Found(t) = Len(predictions_)
      BY <1>1, <1>4, Finds
    <2> QED BY <1>2, <1>4, <2>1 DEF OffPrediction, Last
  <1>6. lastEventTime_ <= t + OffPrediction(t)
    BY <1>1, <1>5 DEF Distance
  <1>7. fmu.until <= lastEventTime_ + Horizon
    BY <1>2
  <1> QED BY <1>1, <1>6, <1>7, Numbers

LEMMA UpdateFollows ==
    ASSUME TypeInv, AheadInv, FollowsInv, NEW t1 \in Int, UpdateState(t1), TypeInv'
    PROVE  FollowsInv'
  <1>1. /\ pc \in {"predicted", "refused"} /\ ~OutOfRange(t1)
        /\ currentState_' = UpdateTime(GetState(t1), t1)
        /\ fmu' = UpdateFmu(fmu, currentState_', t1)
        /\ pc' = "updated" /\ now' = t1 /\ drift' = drift + OffPrediction(t1)
        /\ lastEventTime_' = lastEventTime_
    BY DEF UpdateState
  <1>2. predictions_ # <<>> /\ drift \in Nat /\ fmu \in FmuRecord /\ DriftInv /\ TimesInv /\ OutputsInv
    BY <1>1, IncrementalFmuAssumption DEF TypeInv, TypeOK, Predicting, FollowsInv
  <1> DEFINE entry == GetState(t1)
  <1>3. entry \in HistoryEntry
    BY <1>1, <1>2, GetStateType
  <1>4. /\ OffPrediction(t1) \in Nat
        /\ Distance(entry.state_, t1) <= drift'
        /\ entry.realValues_ = RealOutput(fmu, entry.state_)
    BY <1>1, <1>2, GetStateGoes
  <1>5. ~fmu.steps => entry.otherValues_ <= t1 + Slack + drift + OffPrediction(t1)
    BY <1>1, <1>2, GetStateReaches
  <1> HIDE DEF entry
  <1>6. /\ currentState_' \in HistoryEntry
        /\ currentState_'.state_ = entry.state_
        /\ currentState_'.realValues_ = entry.realValues_
        /\ currentState_'.otherValues_ = entry.otherValues_
    BY <1>1, <1>2, <1>3, UpdatedType DEF entry
  <1>7. /\ fmu'.time = t1 /\ fmu'.acted = t1 /\ fmu'.state = currentState_'.state_
        /\ fmu'.input = fmu.input /\ fmu'.steps = fmu.steps
        /\ fmu'.upcoming = fmu.upcoming /\ fmu'.until = fmu.until
    BY <1>1, <1>2, <1>6, UpdatedType
  <1>8. DriftInv'
    BY <1>1, <1>4, <1>6, <1>7 DEF DriftInv, RealOutput, Listed
  <1>9. TimesInv'
    BY <1>1 DEF TimesInv, Listed
  <1>10. OutputsInv'
    <2>1. fmu.upcoming => StartsBeforeEvent(now)' \/ fmu'.until <= ReachOfEvent'
      <3>1. fmu.upcoming => \/ t1 < lastEventTime_ - TimeDiffResolution
                            \/ fmu.until <= t1 + Horizon + OffPrediction(t1)
        BY <1>1, <1>2, <1>4, EventNear
      <3>2. fmu.until \in Int
        BY <1>2, HandleNumbers
      <3> QED BY <1>1, <1>2, <1>4, <1>7, <3>1, <3>2, Numbers DEF StartsBeforeEvent, ReachOfEvent
    <2>2. ~fmu.steps => currentState_'.otherValues_ <= ReachOfOutput'
      BY <1>1, <1>2, <1>3, <1>4, <1>5, <1>6, Numbers DEF ReachOfOutput, HistoryEntry
    <2> QED BY <1>1, <1>7, <2>1, <2>2 DEF OutputsInv, Listed
  <1> QED BY <1>8, <1>9, <1>10 DEF FollowsInv

LEMMA RefusedFollows ==
    ASSUME TypeInv, FollowsInv, NEW t1 \in Int, UpdateRefused(t1)
    PROVE  FollowsInv'
  <1>1. /\ pc \in {"predicted", "refused"} /\ pc' = "refused" /\ OutOfRange(t1)
        /\ currentState_' = GetState(t1)
        /\ fmu' = [fmu EXCEPT !.event = @ /\ t1 > lastEventTime_]
        /\ predictions_' = predictions_ /\ lastEventTime_' = lastEventTime_
        /\ now' = now /\ drift' = drift
    BY DEF UpdateRefused
  <1>2. fmu \in FmuRecord /\ currentState_ \in HistoryEntry
    BY DEF TypeInv, TypeOK
  <1>3. /\ fmu'.time = fmu.time /\ fmu'.state = fmu.state /\ fmu'.input = fmu.input
        /\ fmu'.steps = fmu.steps /\ fmu'.upcoming = fmu.upcoming
    BY <1>1, <1>2 DEF FmuRecord
  <1>4. currentState_'.otherValues_ = currentState_.otherValues_
    BY <1>1, <1>2 DEF GetState, HistoryEntry
  <1>5. DriftInv'
    BY <1>1, <1>3 DEF FollowsInv, DriftInv, EntryGoes, RealOutput, Listed
  <1>6. TimesInv'
    BY <1>1, <1>3 DEF FollowsInv, TimesInv, Listed
  <1>7. OutputsInv'
    BY <1>1, <1>3, <1>4 DEF FollowsInv, OutputsInv, ReachOfEvent, ReachOfOutput, Listed, Predicting
  <1> QED BY <1>5, <1>6, <1>7 DEF FollowsInv

LEMMA FromTheRightFollows ==
    ASSUME TypeInv, FollowsInv, NEW t1 \in Int, UpdateStateFromTheRight(t1), TypeInv'
    PROVE  FollowsInv'
  <1> DEFINE entry == UpdateTime(GetState(t1), t1)
             f == UpdateFmu(fmu, entry, t1)
  <1>1. /\ pc \in {"predicted", "refused"} /\ pc' = "updated" /\ ~OutOfRange(t1)
        /\ currentState_' = RetrieveFMUState(fmu', now')
        /\ drift' = drift + OffPrediction(t1)
    BY DEF UpdateStateFromTheRight
  <1>2. predictions_ # <<>> /\ drift \in Nat /\ fmu \in FmuRecord /\ now' \in Int /\ DriftInv
    BY <1>1, IncrementalFmuAssumption DEF TypeInv, TypeOK, Predicting, FollowsInv
  <1>3. GetState(t1) \in HistoryEntry
    BY <1>1, <1>2, GetStateType
  <1>4. OffPrediction(t1) \in Nat /\ Distance(GetState(t1).state_, t1) <= drift'
    BY <1>1, <1>2, GetStateGoes
  <1>5. /\ entry \in HistoryEntry /\ entry.state_ = GetState(t1).state_
        /\ f \in FmuRecord /\ f.time = t1 /\ f.state = entry.state_ /\ f.steps = fmu.steps
    <2>1. entry \in HistoryEntry /\ entry.state_ = GetState(t1).state_
      BY <1>2, <1>3, UpdatedType
    <2> HIDE DEF entry
    <2> QED BY <1>2, <2>1, UpdatedType
  <1>6. entry.time_ + TimeDiffResolution \in Int
    BY <1>5, Numbers DEF HistoryEntry
  <1>7. PICK g \in Integrate(f, entry.time_ + TimeDiffResolution) : fmu' = HandleEvents(g) /\ now' = g.time
    BY DEF UpdateStateFromTheRight
  <1> HIDE DEF entry, f
  <1>8. /\ g \in FmuRecord /\ g.state = f.state + (g.time - f.time)
        /\ g.upcoming => g.until <= g.time + Horizon
    BY <1>5, <1>6, <1>7, Integrates
  <1>9. /\ fmu'.time = now' /\ fmu'.acted = now' /\ fmu'.state = g.state
        /\ fmu'.upcoming = g.upcoming /\ fmu'.until = g.until
    BY <1>7, <1>8, HandledType
  <1>10. /\ currentState_'.state_ = fmu'.state /\ currentState_'.otherValues_ = now'
         /\ currentState_'.realValues_ = RealOutput(fmu', fmu'.state)
    BY <1>1, <1>9 DEF RetrieveFMUState
  <1>11. Distance(fmu'.state, fmu'.time) <= drift'
    <2>1. f.state \in Int /\ g.state \in Int /\ g.time \in Int
      BY <1>5, <1>8 DEF FmuRecord
    <2>2. Distance(g.state, g.time) = Distance(f.state, t1)
      BY <1>5, <1>8, <2>1 DEF Distance
    <2> QED BY <1>4, <1>5, <1>7, <1>9, <2>2
  <1>12. DriftInv'
    <2>1. RealOutput(fmu, fmu.state)' = RealOutput(fmu', fmu'.state)
      BY DEF RealOutput
    <2> QED BY <1>1, <1>9, <1>10, <1>11, <2>1 DEF DriftInv, Listed
  <1>13. TimesInv'
    BY <1>1 DEF TimesInv, Listed
  <1>14. OutputsInv'
    <2>0. drift' \in Nat /\ fmu'.until \in Int
      BY <1>1, <1>2, <1>4, <1>8, <1>9 DEF FmuRecord
    <2>1. fmu'.upcoming => fmu'.until <= ReachOfEvent'
      BY <1>2, <1>7, <1>8, <1>9, <2>0, Numbers DEF ReachOfEvent
    <2>2. currentState_'.otherValues_ <= ReachOfOutput'
      <3>1. now' <= ReachOfOutput'
        <4>1. ASSUME NEW t \in Int, NEW d \in Nat PROVE t <= t + Slack + d
          BY Numbers
        <4>2. now' <= now' + Slack + drift'
          BY <1>2, <2>0, <4>1
        <4> QED BY <4>2 DEF ReachOfOutput
      <3> QED BY <1>10, <3>1
    <2> QED BY <1>1, <2>1, <2>2 DEF OutputsInv, Listed
  <1> QED BY <1>12, <1>13, <1>14 DEF FollowsInv

LEMMA SyncFollows ==
    ASSUME TypeInv, FollowsInv, NEW input \in Inputs, SyncState(input)
    PROVE  FollowsInv'
  <1> DEFINE f == SetInputs(fmu, input)
  <1>1. fmu \in FmuRecord /\ drift \in Nat /\ now \in Int
    BY IncrementalFmuAssumption DEF TypeInv, TypeOK
  <1>2. /\ f \in FmuRecord /\ f.time = fmu.time /\ f.state = fmu.state /\ f.steps = fmu.steps
        /\ f.upcoming = fmu.upcoming /\ f.until = fmu.until
    BY <1>1 DEF SetInputs, FmuRecord
  <1>3. /\ pc = "updated" /\ pc' = "synced" /\ fmu' = HandleEvents(f)
        /\ currentState_' = RetrieveFMUState(fmu', now)
        /\ now' = now /\ drift' = drift /\ lastEventTime_' = lastEventTime_
    BY DEF SyncState
  <1> HIDE DEF f
  <1>4. /\ fmu'.time = fmu.time /\ fmu'.acted = fmu.time /\ fmu'.state = fmu.state
        /\ fmu'.steps = fmu.steps /\ fmu'.upcoming = fmu.upcoming /\ fmu'.until = fmu.until
    BY <1>2, <1>3, HandledType
  <1>5. /\ currentState_'.state_ = fmu'.state /\ currentState_'.otherValues_ = fmu'.acted
        /\ currentState_'.realValues_ = RealOutput(fmu', fmu'.state)
    BY <1>3 DEF RetrieveFMUState
  <1>6. fmu.time = now /\ Distance(fmu.state, fmu.time) <= drift
    BY <1>3 DEF FollowsInv, DriftInv
  <1>7. DriftInv'
    <2>1. RealOutput(fmu, fmu.state)' = RealOutput(fmu', fmu'.state)
      BY DEF RealOutput
    <2> QED BY <1>3, <1>4, <1>5, <1>6, <2>1 DEF DriftInv, Listed
  <1>8. TimesInv'
    BY <1>3 DEF TimesInv, Listed
  <1>9. OutputsInv'
    <2>1. currentState_'.otherValues_ <= ReachOfOutput'
      BY <1>1, <1>3, <1>4, <1>5, <1>6, Numbers DEF ReachOfOutput
    <2> QED BY <1>3, <1>4, <2>1 DEF FollowsInv, OutputsInv, ReachOfEvent, StartsBeforeEvent, Listed
  <1> QED BY <1>7, <1>8, <1>9 DEF FollowsInv

LEMMA StartFollows ==
    ASSUME TypeInv, FollowsInv, StartPrediction
    PROVE  FollowsInv'
  <1> DEFINE prediction == [currentState_ EXCEPT !.time_ = now]
             f == IF StartsBeforeEvent(now) THEN ResetEventFlags(fmu) ELSE fmu
  <1>1. /\ fmu \in FmuRecord /\ drift \in Nat /\ now \in Int /\ currentState_ \in HistoryEntry
    BY IncrementalFmuAssumption DEF TypeInv, TypeOK
  <1>2. /\ f \in FmuRecord /\ f.time = fmu.time /\ f.steps = fmu.steps /\ f.input = fmu.input
        /\ f.until = fmu.until /\ f.acted = fmu.acted
        /\ f.upcoming => fmu.upcoming /\ ~StartsBeforeEvent(now)
    BY <1>1 DEF ResetEventFlags, FmuRecord
  <1>3. /\ prediction.time_ = now /\ prediction.state_ = currentState_.state_
        /\ prediction.realValues_ = currentState_.realValues_
        /\ prediction.otherValues_ = currentState_.otherValues_
    BY <1>1 DEF HistoryEntry
  <1>4. /\ pc \in {"updated", "synced"} /\ pc' = "predicting"
        /\ predictions_' = <<prediction>> /\ fmu' = InitializeIntegration(f, prediction)
        /\ currentState_' = currentState_ /\ now' = now /\ drift' = drift
    BY DEF StartPrediction
  <1> HIDE DEF prediction, f
  <1>5. /\ fmu'.time = f.time /\ fmu'.state = currentState_.state_ /\ fmu'.steps = f.steps
        /\ fmu'.input = f.input /\ fmu'.until = f.until /\ fmu'.acted = f.acted
        /\ fmu'.upcoming = f.upcoming
    BY <1>2, <1>3, <1>4 DEF InitializeIntegration, FmuRecord
  <1>6. /\ Distance(fmu.state, fmu.time) <= drift /\ fmu.time = now /\ fmu.acted = now
        /\ currentState_.state_ = fmu.state
        /\ currentState_.realValues_ = RealOutput(fmu, fmu.state)
    BY <1>4 DEF FollowsInv, DriftInv
  <1>7. Len(predictions_') = 1 /\ predictions_'[1] = prediction /\ Last(predictions_') = prediction
    BY <1>4 DEF Last
  <1>8. DriftInv'
    <2>1. ASSUME NEW i \in 1 .. Len(predictions_') PROVE EntryGoes(predictions_[i])'
      BY <1>2, <1>3, <1>4, <1>5, <1>6, <1>7 DEF EntryGoes, RealOutput
    <2> QED BY <1>2, <1>4, <1>5, <1>6, <2>1 DEF DriftInv
  <1>9. TimesInv'
    BY <1>1, <1>2, <1>3, <1>4, <1>5, <1>6, <1>7 DEF TimesInv
  <1>10. OutputsInv'
    <2>1. now <= ReachOfEvent
      BY <1>1, Numbers DEF ReachOfEvent
    <2>2. ReachOfEvent' = ReachOfEvent /\ ReachOfOutput' = ReachOfOutput
      BY <1>4 DEF ReachOfEvent, ReachOfOutput
    <2> QED BY <1>2, <1>3, <1>4, <1>5, <1>6, <1>7, <2>1, <2>2 DEF FollowsInv, OutputsInv, Predicting
  <1> QED BY <1>8, <1>9, <1>10 DEF FollowsInv

(* Each round appends the state it got to; an FMU that goes on stands      *)
(* before no event, but for the one the predictions begin at.              *)
LEMMA Predicts ==
    ASSUME TypeInv, FarSideNear, PredictState
    PROVE  \E g \in Integrate(fmu, Last(predictions_).time_ + LookAheadStepSize) :
               /\ fmu' = g /\ lastEventTime_' = g.time
               /\ predictions_' = Append(predictions_, RetrieveFMUState(g, g.time))
               /\ Len(predictions_) \in Nat \ {0} /\ Len(predictions_') = Len(predictions_) + 1
               /\ \A i \in 1 .. Len(predictions_) : predictions_'[i] = predictions_[i]
               /\ predictions_'[Len(predictions_) + 1] = RetrieveFMUState(g, g.time)
               /\ Last(predictions_') = RetrieveFMUState(g, g.time)
               /\ Continues
               /\ fmu.upcoming => Len(predictions_) = 1
               /\ pc = "predicting" /\ pc' = "predicting"
               /\ now' = now /\ drift' = drift /\ currentState_' = currentState_
  <1>1. PICK g \in Integrate(fmu, Last(predictions_).time_ + LookAheadStepSize) :
           fmu' = g /\ lastEventTime_' = g.time
    BY DEF PredictState
  <1> DEFINE entry == RetrieveFMUState(g, g.time)
             n == Len(predictions_)
  <1>2. predictions_' = Append(predictions_, entry)
    BY <1>1 DEF PredictState
  <1>3. n \in Nat \ {0} /\ predictions_ \in Seq(HistoryEntry)
    BY LastType DEF TypeInv, TypeOK, PredictState, Predicting
  <1> HIDE DEF entry
  <1>4. /\ Len(predictions_') = n + 1
        /\ \A i \in 1 .. n : predictions_'[i] = predictions_[i]
        /\ predictions_'[n + 1] = entry
    BY <1>2, <1>3
  <1>5. Last(predictions_') = entry
    BY <1>4 DEF Last
  <1>6. /\ Continues /\ pc = "predicting" /\ pc' = "predicting"
        /\ now' = now /\ drift' = drift /\ currentState_' = currentState_
    BY Zenon DEF PredictState, GoesOn, Continues
  <1>7. ASSUME fmu.upcoming, n # 1 PROVE FALSE
    <2>1. fmu.event
      BY <1>6, <1>7 DEF FarSideNear
    <2> HIDE DEF n
    <2>2. n > 1
      BY <1>3, <1>7
    <2> QED BY <1>6, <2>1, <2>2 DEF Continues, n
  <1> QED BY <1>1, <1>2, <1>3, <1>4, <1>5, <1>6, <1>7 DEF entry

LEMMA PredictFollows ==
    ASSUME TypeInv, AheadInv, FollowsInv, PredictState
    PROVE  FollowsInv'
  <1> DEFINE tend == Last(predictions_).time_ + LookAheadStepSize
             n == Len(predictions_)
  <1>1. predictions_ # <<>> /\ fmu \in FmuRecord /\ drift \in Nat /\ now \in Int /\ FarSideNear
    BY IncrementalFmuAssumption DEF TypeInv, TypeOK, Predicting, PredictState, AheadInv
  <1>2. tend \in Int /\ Last(predictions_).time_ <= tend
    BY <1>1, LastType, IncrementalFmuAssumption
  <1>3. PICK g \in Integrate(fmu, tend) :
           /\ fmu' = g /\ lastEventTime_' = g.time
           /\ n \in Nat \ {0} /\ Len(predictions_') = n + 1
           /\ \A i \in 1 .. n : predictions_'[i] = predictions_[i]
           /\ predictions_'[n + 1] = RetrieveFMUState(g, g.time)
           /\ Last(predictions_') = RetrieveFMUState(g, g.time)
           /\ Continues
           /\ fmu.upcoming => n = 1
           /\ pc = "predicting" /\ pc' = "predicting"
           /\ now' = now /\ drift' = drift /\ currentState_' = currentState_
    BY <1>1, Predicts
  <1> HIDE DEF tend
  <1>4. /\ g \in FmuRecord /\ g.steps = fmu.steps /\ g.input = fmu.input
        /\ g.state = fmu.state + (g.time - fmu.time)
        /\ ~g.event => g.time >= tend
        /\ g.upcoming => g.event
        /\ ~fmu.steps => g.acted = IF fmu.upcoming THEN fmu.until ELSE fmu.acted
    BY <1>1, <1>2, <1>3, Integrates
  <1> DEFINE entry == RetrieveFMUState(g, g.time)
  <1>5. /\ entry.time_ = g.time /\ entry.state_ = g.state /\ entry.otherValues_ = g.acted
        /\ entry.realValues_ = RealOutput(g, g.state)
    BY DEF RetrieveFMUState
  <1>6. /\ predictions_'[n + 1] = entry /\ Last(predictions_') = entry
    BY <1>3
  <1> HIDE DEF entry, n
  <1>7. n + 1 > 1 /\ 1 \in 1 .. n
    BY <1>3
  <1>8. /\ Distance(fmu.state, fmu.time) <= drift
        /\ \A i \in 1 .. n : EntryGoes(predictions_[i])
    BY <1>3 DEF FollowsInv, DriftInv, Listed, n
  <1>9. Distance(g.state, g.time) <= drift
    <2>1. fmu.state \in Int /\ fmu.time \in Int /\ g.time \in Int
      BY <1>1, <1>4 DEF FmuRecord
    <2>2. Distance(g.state, g.time) = Distance(fmu.state, fmu.time)
      BY <1>4, <2>1 DEF Distance
    <2> QED BY <1>8, <2>2
  <1>10. DriftInv'
    <2>1. ASSUME NEW i \in 1 .. n + 1 PROVE EntryGoes(predictions_[i])'
      <3>1. CASE i \in 1 .. n
        <4>1. EntryGoes(predictions_[i]) /\ predictions_'[i] = predictions_[i]
          BY <1>3, <1>8, <3>1
        <4> QED BY <1>3, <1>4, <4>1 DEF EntryGoes, RealOutput
      <3>2. CASE i = n + 1
        BY <1>3, <1>5, <1>6, <1>9, <3>2 DEF EntryGoes
      <3> QED BY <1>3, <3>1, <3>2
    <2> QED BY <1>3, <1>9, <2>1 DEF DriftInv
  <1>11. /\ predictions_[1].time_ = now
         /\ \A i \in 1 .. n - 1 : predictions_[i].time_ >= now
         /\ Last(predictions_) = predictions_[n]
         /\ predictions_[n].time_ >= now
    BY <1>3 DEF FollowsInv, TimesInv, Listed, Last, n
  <1>12. TimesInv'
    <2>1. predictions_'[1].time_ = now'
      BY <1>3, <1>7, <1>11
    <2>2. ASSUME NEW i \in 1 .. n PROVE predictions_'[i].time_ >= now'
      <3>1. i \in 1 .. n - 1 \/ i = n
        BY <1>3
      <3> QED BY <1>3, <1>11, <3>1
    <2>3. ~g.event => g.time >= now
      <3>1. predictions_[n].time_ \in Int /\ g.time \in Int
        BY <1>1, <1>4, <1>11, LastType DEF FmuRecord
      <3> QED BY <1>1, <1>2, <1>4, <1>11, <3>1
    <2>4. (n + 1) - 1 = n
      BY <1>3
    <2>5. Continues' => ~g.event
      BY <1>3, <1>7, Zenon DEF Continues
    <2> QED BY <1>3, <1>5, <1>6, <2>1, <2>2, <2>3, <2>4, <2>5 DEF TimesInv
  <1>13. OutputsInv'
    <2>0. ReachOfEvent' = ReachOfEvent /\ ReachOfOutput' = ReachOfOutput
      BY <1>3 DEF ReachOfEvent, ReachOfOutput
    <2> SUFFICES ASSUME ~fmu.steps
                 PROVE  /\ g.acted <= ReachOfEvent
                        /\ predictions_'[1].otherValues_ <= ReachOfOutput
                        /\ \A i \in 2 .. n + 1 : predictions_'[i].otherValues_ <= ReachOfEvent
                        /\ currentState_.otherValues_ <= ReachOfOutput
      BY <1>3, <1>4, <1>7, <2>0 DEF OutputsInv
    <2>1. /\ fmu.acted <= ReachOfEvent
          /\ fmu.upcoming => fmu.until <= ReachOfEvent
          /\ predictions_[1].otherValues_ <= ReachOfOutput
          /\ \A i \in 2 .. n : predictions_[i].otherValues_ <= ReachOfEvent
          /\ currentState_.otherValues_ <= ReachOfOutput
      BY <1>3 DEF FollowsInv, OutputsInv, Listed, Predicting, n
    <2>2. g.acted <= ReachOfEvent
      BY <1>4, <2>1
    <2>3. ASSUME NEW i \in 2 .. n + 1 PROVE predictions_'[i].otherValues_ <= ReachOfEvent
      <3>1. CASE i = n + 1
        BY <1>5, <1>6, <2>2, <3>1
      <3>2. CASE i # n + 1
        <4>1. i \in 2 .. n /\ i \in 1 .. n
          BY <1>3, <3>2
        <4> QED BY <1>3, <2>1, <4>1
      <3> QED BY <3>1, <3>2
    <2> QED BY <1>3, <1>7, <2>1, <2>2, <2>3
  <1> QED BY <1>10, <1>12, <1>13 DEF FollowsInv

LEMMA PredictedFollows ==
    ASSUME TypeInv, AheadInv, FollowsInv, StatePredicted
    PROVE  FollowsInv'
  <1>1. /\ pc = "predicting" /\ pc' = "predicted" /\ ~GoesOn
        /\ fmu' = fmu /\ predictions_' = predictions_ /\ currentState_' = currentState_
        /\ lastEventTime_' = lastEventTime_ /\ now' = now /\ drift' = drift
    BY DEF StatePredicted
  <1>2. Len(predictions_) > 1
    BY <1>1, PredictsSomething DEF AheadInv
  <1>3. DriftInv'
    BY <1>1 DEF FollowsInv, DriftInv, EntryGoes, RealOutput, Listed
  <1>4. TimesInv'
    BY <1>1, <1>2 DEF FollowsInv, TimesInv, Listed
  <1>5. OutputsInv'
    BY <1>1 DEF FollowsInv, OutputsInv, ReachOfEvent, ReachOfOutput, Listed, Predicting
  <1> QED BY <1>3, <1>4, <1>5 DEF FollowsInv

LEMMA NextFollows ==
    IncrementalInv /\ FollowsInv /\ TypeInv' /\ [Next]_vars => FollowsInv'
  <1> SUFFICES ASSUME IncrementalInv, FollowsInv, TypeInv', [Next]_vars PROVE FollowsInv'
    OBVIOUS
  <1>1. TypeInv /\ AheadInv
    BY DEF IncrementalInv
  <1>2. CASE Program
    <2>1. ASSUME NEW t1 \in Asked, pc \in {"predicted", "refused"} PROVE t1 \in Int
      <3>1. predictions_ # <<>>
        BY <1>1, <2>1 DEF TypeInv, Predicting
      <3> QED BY <1>1, <2>1, <3>1, LastType, IncrementalFmuAssumption DEF Asked
    <2>2. CASE InitFails
      BY <2>2 DEF InitFails, FollowsInv, DriftInv, TimesInv, OutputsInv, Listed, Predicting
    <2> QED BY <1>1, <1>2, <2>1, <2>2, InitFmuFollows, UpdateFollows, RefusedFollows,
               FromTheRightFollows, SyncFollows DEF Program
  <1>3. CASE UNCHANGED vars
    BY <1>3 DEF vars, FollowsInv, DriftInv, TimesInv, OutputsInv, EntryGoes, RealOutput, Continues,
       StartsBeforeEvent, ReachOfEvent, ReachOfOutput
  <1> QED BY <1>1, <1>2, <1>3, StartFollows, PredictFollows, PredictedFollows DEF Next, Ended

(* States go with the time and outputs with states and inputs, of the FMU, *)
(* of what it predicts and of what a program reads, whatever times it asks *)
(* for; they are off by no more than the program itself was.               *)
THEOREM StatesFollowTime == Spec => []StatesGoWithTime
  <1>1. TypeInv /\ FollowsInv => StatesGoWithTime
    <2> SUFFICES ASSUME TypeInv, FollowsInv PROVE StatesGoWithTime
      OBVIOUS
    <2>1. DriftInv /\ OutputsInv
      BY DEF FollowsInv
    <2> QED BY <2>1 DEF StatesGoWithTime, DriftInv, OutputsInv, EntryGoes, Listed, Predicting,
                        ReachOfOutput
  <1>2. Init => IncrementalInv /\ FollowsInv
    BY InitTypes, InitAhead, InitFollows DEF IncrementalInv
  <1>3. IncrementalInv /\ FollowsInv /\ [Next]_vars => (IncrementalInv /\ FollowsInv)'
    BY NextTypes, NextAhead, NextFollows DEF IncrementalInv
  <1>4. IncrementalInv => TypeInv
    BY DEF IncrementalInv
  <1> QED BY <1>1, <1>2, <1>3, <1>4, PTL DEF Spec

-----------------------------------------------------------------------------
(* Events.                                                                 *)

(* An integration stops at the first event, or before it, and tells of it. *)
LEMMA StopsAtEvents ==
    ASSUME NEW f \in FmuRecord, NEW tend \in Int, NEW h \in Integrate(f, tend),
           f.upcoming \/ f.time <= tend
    PROVE  /\ \A e \in StateEvents :
                  e > StepOverEvent(f).state => h.state <= e /\ (~h.event => h.state < e)
           /\ \A e \in TimeEvents :
                  e > StepOverEvent(f).acted => h.time <= e /\ (~h.event => h.time < e)
           /\ ~h.event => h.acted = StepOverEvent(f).acted
  <1> DEFINE g == StepOverEvent(f)
  <1>1. /\ g \in FmuRecord /\ g.time \in Int /\ g.state \in Int /\ g.acted \in Int
        /\ g.time = M!From(f) /\ g.acted = IF f.upcoming THEN f.until ELSE f.acted
    BY StepOverEventType DEF FmuRecord
  <1>2. h \in Quiet(g, tend) \cup StopBefore(g, tend) \cup AtStepEvent(g, tend)
    BY DEF Integrate, g
  <1>3. g.time <= tend \/ g.acted = g.time
    BY <1>1 DEF M!From
  <1> HIDE DEF g
  <1>4. /\ \A e \in StateEvents : e > g.state => g.time + (e - g.state) \in Due(g)
        /\ \A e \in TimeEvents : e > g.acted => e \in Due(g)
    BY DEF Due
  <1>5. \A e \in StateEvents \cup TimeEvents : e \in Int
    BY IncrementalFmuAssumption
  <1>6. CASE h \in Quiet(g, tend)
    <2>1. \A d \in Due(g) : ~(d <= tend)
      BY <1>6 DEF Quiet
    <2>2. PICK t \in Int : h = MoveTo(g, t) /\ (t = tend \/ t = g.time) /\ (t <= tend \/ t = g.time)
      <3>1. h = MoveTo(g, M!Later(g.time, tend)) \/ h = MoveTo(g, tend)
        BY <1>6 DEF Quiet
      <3> QED BY <1>1, <3>1 DEF M!Later
    <2>2a. t <= tend \/ t = g.acted
      BY <1>1, <1>3, <2>2
    <2>3. h.time = t /\ h.state = g.state + (t - g.time) /\ h.acted = g.acted
      BY <1>1, <2>2, MoveToType
    <2>4. ASSUME NEW e \in StateEvents, e > g.state PROVE h.state < e
      <3>1. ~(g.time + (e - g.state) <= tend)
        BY <1>4, <2>1, <2>4
      <3> QED BY <1>1, <1>5, <2>2, <2>3, <2>4, <3>1
    <2>5. ASSUME NEW e \in TimeEvents, e > g.acted PROVE h.time < e
      <3>1. ~(e <= tend)
        BY <1>4, <2>1, <2>5
      <3> QED BY <1>1, <1>5, <2>2, <2>2a, <2>3, <2>5, <3>1
    <2>6. h.state \in Int /\ h.time \in Int
      BY <1>1, <2>2, <2>3
    <2> QED BY <1>5, <2>3, <2>4, <2>5, <2>6 DEF g
  <1>7. ASSUME NEW t \in Int, h.time = t, h.state = g.state + (t - g.time), h.event,
               \A d \in Due(g) : t <= d
        PROVE  /\ \A e \in StateEvents : e > g.state => h.state <= e
               /\ \A e \in TimeEvents : e > g.acted => h.time <= e
    <2>1. ASSUME NEW e \in StateEvents, e > g.state PROVE h.state <= e
      <3>1. t <= g.time + (e - g.state)
        BY <1>4, <1>7, <2>1
      <3> QED BY <1>1, <1>5, <1>7, <3>1
    <2> QED BY <1>4, <1>7, <2>1
  <1>8. CASE h \in StopBefore(g, tend)
    <2>1. PICK x \in (g.time - Back .. tend + Ahead) \X (g.time .. tend + Ahead + Horizon) :
             /\ h = [MoveTo(g, x[1]) EXCEPT !.until = x[2], !.event = TRUE, !.upcoming = TRUE]
             /\ \E d \in Due(g) : /\ \A e \in Due(g) : d <= e
                                  /\ x[1] <= d
      BY <1>8 DEF StopBefore
    <2>2. PICK t \in Int : t = x[1]
      BY <1>1, <2>1, IncrementalFmuAssumption
    <2>3. Due(g) \subseteq Int
      BY <1>1, <1>5 DEF Due
    <2>4. \A e \in Due(g) : t <= e
      BY <2>1, <2>2, <2>3
    <2>5. MoveTo(g, t) \in FmuRecord /\ MoveTo(g, t).time = t /\ MoveTo(g, t).state = g.state + (t - g.time)
      BY <1>1, MoveToType
    <2>6. h.time = t /\ h.state = g.state + (t - g.time) /\ h.event
      BY <2>1, <2>2, <2>5 DEF FmuRecord
    <2> QED BY <1>7, <2>4, <2>6 DEF g
  <1>9. CASE h \in AtStepEvent(g, tend)
    <2>1. PICK t \in g.time + 1 .. tend :
             /\ \A d \in Due(g) : t <= d
             /\ h = HandleEvents([MoveTo(g, t) EXCEPT !.event = TRUE])
      BY <1>9 DEF AtStepEvent
    <2>2. t \in Int
      BY <1>1, <2>1
    <2>3. MoveTo(g, t) \in FmuRecord /\ MoveTo(g, t).time = t /\ MoveTo(g, t).state = g.state + (t - g.time)
      BY <1>1, <2>2, MoveToType
    <2>4. h.time = t /\ h.state = g.state + (t - g.time) /\ h.event
      BY <2>1, <2>3 DEF HandleEvents, FmuRecord
    <2> QED BY <1>7, <2>1, <2>2, <2>4 DEF g
  <1> QED BY <1>2, <1>6, <1>8, <1>9

(* What is predicted has not passed an event that lies later than the far  *)
(* side of the one the predictions begin at, and before it goes on has not *)
(* reached one.                                                            *)
EventsInv ==
    /\ pc \in {"predicting", "predicted"} =>
           LET first == predictions_[1]
               newest == Last(predictions_)
               reached == pc = "predicting" /\ Len(predictions_) > 1 /\ Continues
           IN  /\ \A e \in StateEvents :
                      e > first.state_ + Slack => newest.state_ <= e /\ (reached => newest.state_ < e)
               /\ \A e \in TimeEvents :
                      e > first.time_ + Slack => newest.time_ <= e /\ (reached => newest.time_ < e)
    /\ pc = "predicting" /\ Continues => fmu.acted <= now + Slack

LEMMA InitFmuEvents ==
    ASSUME TypeInv, NEW input \in Inputs, InitFmu(input), TypeInv'
    PROVE  EventsInv'
  <1>1. pc' = "predicted" /\ Len(predictions_') = 1
    BY DEF InitFmu
  <1>2. predictions_'[1].time_ \in Int /\ predictions_'[1].state_ \in Int
    <2>1. predictions_' \in Seq(HistoryEntry) /\ 1 \in 1 .. Len(predictions_')
      BY <1>1 DEF TypeInv, TypeOK
    <2>2. predictions_'[1] \in HistoryEntry
      BY <2>1
    <2> QED BY <2>2 DEF HistoryEntry
  <1>3. Last(predictions_') = predictions_'[1]
    BY <1>1 DEF Last
  <1>4. \A e \in StateEvents \cup TimeEvents : e \in Int
    BY IncrementalFmuAssumption
  <1> QED BY <1>1, <1>2, <1>3, <1>4, Numbers DEF EventsInv

LEMMA StartEvents ==
    ASSUME TypeInv, FollowsInv, StartPrediction, TypeInv'
    PROVE  EventsInv'
  <1> DEFINE prediction == [currentState_ EXCEPT !.time_ = now]
             f == IF StartsBeforeEvent(now) THEN ResetEventFlags(fmu) ELSE fmu
  <1>1. /\ pc \in {"updated", "synced"} /\ pc' = "predicting" /\ now' = now
        /\ predictions_' = <<prediction>> /\ fmu' = InitializeIntegration(f, prediction)
    BY DEF StartPrediction
  <1>2. f \in FmuRecord /\ f.acted = fmu.acted
    BY DEF TypeInv, TypeOK, ResetEventFlags, FmuRecord
  <1> HIDE DEF prediction, f
  <1>3. fmu'.acted = fmu.acted
    BY <1>1, <1>2 DEF InitializeIntegration, FmuRecord
  <1>4. fmu.acted = now /\ now \in Int
    BY <1>1 DEF FollowsInv, DriftInv, TypeInv, TypeOK
  <1>5. /\ Len(predictions_') = 1
        /\ predictions_'[1].time_ \in Int /\ predictions_'[1].state_ \in Int
    BY <1>1 DEF TypeInv, TypeOK, HistoryEntry
  <1>6. Last(predictions_') = predictions_'[1]
    BY <1>5 DEF Last
  <1>7. \A e \in StateEvents \cup TimeEvents : e \in Int
    BY IncrementalFmuAssumption
  <1>8. fmu'.acted <= now' + Slack
    BY <1>1, <1>3, <1>4, Numbers
  <1> QED BY <1>1, <1>5, <1>6, <1>7, <1>8, Numbers DEF EventsInv

LEMMA PredictEvents ==
    ASSUME TypeInv, AheadInv, FollowsInv, EventsInv, PredictState
    PROVE  EventsInv'
  <1> DEFINE tend == Last(predictions_).time_ + LookAheadStepSize
             n == Len(predictions_)
             first == predictions_[1]
             newest == Last(predictions_)
             from == StepOverEvent(fmu)
  <1>1. predictions_ # <<>> /\ fmu \in FmuRecord /\ now \in Int /\ FarSideNear
    BY DEF TypeInv, TypeOK, Predicting, PredictState, AheadInv
  <1>2. tend \in Int /\ newest.time_ \in Int /\ newest.time_ <= tend
    BY <1>1, LastType, IncrementalFmuAssumption
  <1>3. PICK g \in Integrate(fmu, tend) :
           /\ fmu' = g /\ lastEventTime_' = g.time
           /\ n \in Nat \ {0} /\ Len(predictions_') = n + 1
           /\ \A i \in 1 .. n : predictions_'[i] = predictions_[i]
           /\ predictions_'[n + 1] = RetrieveFMUState(g, g.time)
           /\ Last(predictions_') = RetrieveFMUState(g, g.time)
           /\ Continues
           /\ fmu.upcoming => n = 1
           /\ pc = "predicting" /\ pc' = "predicting"
           /\ now' = now /\ drift' = drift /\ currentState_' = currentState_
    BY <1>1, Predicts
  <1>4. fmu.time = newest.time_ /\ fmu.state = newest.state_ /\ first.time_ = now
    BY <1>3 DEF FollowsInv, TimesInv, Listed
  <1>5. /\ fmu.time \in Int /\ fmu.state \in Int /\ fmu.acted \in Int /\ fmu.until \in Int
        /\ first.state_ \in Int /\ first.time_ \in Int
    <2>1. 1 \in 1 .. n
      BY <1>3
    <2> QED BY <1>1, <1>3, <2>1, EntryType DEF FmuRecord, HistoryEntry
  <1>6. \A e \in StateEvents \cup TimeEvents : e \in Int
    BY IncrementalFmuAssumption
  <1>7. n = 1 => newest = first
    BY DEF Last
  <1>8. n # 1 => n > 1
    <2> HIDE DEF n
    <2> QED BY <1>3
  <1>9. /\ \A e \in StateEvents : e > first.state_ + Slack /\ n > 1 => newest.state_ < e
        /\ fmu.acted <= now + Slack
        /\ fmu.upcoming => fmu.until <= now + Slack
    <2>1. fmu.upcoming => fmu.until <= now + Slack
      BY <1>1, <1>3 DEF FarSideNear
    <2> QED BY <1>3, <2>1 DEF EventsInv
  <1>10. /\ from.state = fmu.state + (M!From(fmu) - fmu.time)
         /\ from.acted = IF fmu.upcoming THEN fmu.until ELSE fmu.acted
    BY <1>1, StepOverEventType
  <1> HIDE DEF tend, n, first, newest, from
  <1>11. from.acted <= now + Slack
    BY <1>9, <1>10
  <1>12. ASSUME NEW e \in StateEvents, e > first.state_ + Slack PROVE e > from.state
    <2>1. CASE fmu.upcoming
      <3>1. first.time_ = fmu.time /\ fmu.state = first.state_
        BY <1>3, <1>4, <1>7, <2>1
      <3>2. from.state = fmu.state + (fmu.until - fmu.time)
        BY <1>10, <2>1 DEF M!From
      <3> QED BY <1>4, <1>5, <1>6, <1>9, <1>12, <2>1, <3>1, <3>2, Numbers
    <2>2. CASE ~fmu.upcoming
      <3>1. from.state = fmu.state
        BY <1>5, <1>10, <2>2 DEF M!From
      <3>2. CASE n = 1
        BY <1>4, <1>5, <1>6, <1>7, <1>12, <3>1, <3>2, Numbers
      <3>3. CASE n > 1
        BY <1>4, <1>5, <1>6, <1>9, <1>12, <3>1, <3>3
      <3> QED BY <1>8, <3>2, <3>3
    <2> QED BY <2>1, <2>2
  <1>13. ASSUME NEW e \in TimeEvents, e > first.time_ + Slack PROVE e > from.acted
    <2>1. from.acted \in Int
      BY <1>5, <1>10
    <2> QED BY <1>1, <1>4, <1>6, <1>11, <1>13, <2>1, Numbers
  <1>14. /\ \A e \in StateEvents : e > from.state => g.state <= e /\ (~g.event => g.state < e)
         /\ \A e \in TimeEvents : e > from.acted => g.time <= e /\ (~g.event => g.time < e)
         /\ ~g.event => g.acted = from.acted
    <2>1. fmu.time <= tend
      BY <1>2, <1>4
    <2> QED BY <1>1, <1>2, <2>1, StopsAtEvents DEF from, tend
  <1>15. Last(predictions_').state_ = g.state /\ Last(predictions_').time_ = g.time
    BY <1>3 DEF RetrieveFMUState
  <1>16. predictions_'[1] = first
    BY <1>3 DEF first
  <1>17. Continues' => ~g.event
    <2>1. Len(predictions_') > 1
      BY <1>3
    <2> QED BY <1>3, <2>1, Zenon DEF Continues
  <1>18. Continues' => fmu'.acted <= now' + Slack
    BY <1>3, <1>11, <1>14, <1>17
  <1> QED BY <1>3, <1>12, <1>13, <1>14, <1>15, <1>16, <1>17, <1>18 DEF EventsInv

LEMMA NextEvents ==
    IncrementalInv /\ FollowsInv /\ EventsInv /\ TypeInv' /\ [Next]_vars => EventsInv'
  <1> SUFFICES ASSUME IncrementalInv, FollowsInv, EventsInv, TypeInv', [Next]_vars PROVE EventsInv'
    OBVIOUS
  <1>1. TypeInv /\ AheadInv
    BY DEF IncrementalInv
  <1>2. CASE Program
    <2>1. ASSUME pc' \notin {"predicting", "predicted"} PROVE EventsInv'
      BY <2>1 DEF EventsInv
    <2>2. ASSUME NEW input \in Inputs, InitFmu(input) PROVE EventsInv'
      BY <1>1, <2>2, InitFmuEvents
    <2>3. ASSUME \/ InitFails
                 \/ \E t1 \in Asked :
                       UpdateState(t1) \/ UpdateRefused(t1) \/ UpdateStateFromTheRight(t1)
                 \/ \E input \in Inputs : SyncState(input)
          PROVE  EventsInv'
      <3>1. pc' \in {"unusable", "updated", "refused", "synced"}
        BY <2>3 DEF InitFails, UpdateState, UpdateRefused, UpdateStateFromTheRight, SyncState
      <3> QED BY <2>1, <3>1
    <2> QED BY <1>2, <2>2, <2>3 DEF Program
  <1>3. CASE StatePredicted
    BY <1>3 DEF StatePredicted, EventsInv
  <1>4. CASE UNCHANGED vars
    BY <1>4 DEF vars, EventsInv, Continues
  <1> QED BY <1>1, <1>2, <1>3, <1>4, StartEvents, PredictEvents DEF Next, Ended

(* A program that synchronizes at the time it is told misses no event:     *)
(* predictState() stops at the first one, also when it begins before one   *)
(* the FMU had stopped before, when inputs change and around step events.  *)
THEOREM PredictionsSkipNoEvent == Spec => []NoEventSkipped
  <1> DEFINE Inv == IncrementalInv /\ FollowsInv /\ EventsInv
  <1>1. Init => Inv
    <2>1. Init => EventsInv
      BY DEF Init, EventsInv
    <2> QED BY <2>1, InitTypes, InitAhead, InitFollows DEF IncrementalInv
  <1>2. Inv /\ [Next]_vars => Inv'
    BY NextTypes, NextAhead, NextFollows, NextEvents DEF IncrementalInv
  <1>3. Inv => NoEventSkipped
    <2> SUFFICES ASSUME Inv, pc = "predicted"
                 PROVE  /\ \A e \in StateEvents :
                               Last(predictions_).state_ <= e \/ e <= Head(predictions_).state_ + Slack
                        /\ \A e \in TimeEvents :
                               Last(predictions_).time_ <= e \/ e <= Head(predictions_).time_ + Slack
      BY DEF NoEventSkipped
    <2>1. predictions_ # <<>> /\ TypeInv
      BY DEF IncrementalInv, TypeInv, Predicting
    <2>2. 1 \in 1 .. Len(predictions_)
      BY <2>1, LastType
    <2>3. predictions_[1].state_ \in Int /\ predictions_[1].time_ \in Int
      BY <2>1, <2>2, EntryType DEF HistoryEntry
    <2>4. Head(predictions_) = predictions_[1]
      BY <2>1 DEF TypeInv, TypeOK
    <2>5. \A e \in StateEvents \cup TimeEvents : e \in Int
      BY IncrementalFmuAssumption
    <2> QED BY <2>3, <2>4, <2>5, Numbers DEF EventsInv
  <1> QED BY <1>1, <1>2, <1>3, PTL DEF Spec

=============================================================================
