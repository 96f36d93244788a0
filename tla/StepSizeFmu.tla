----------------------------- MODULE StepSizeFmu -----------------------------
(***************************************************************************)
(* What FixedStepSizeFMU, InterpolatingFixedStepSizeFMU and                *)
(* VariableStepSizeFMU have in common, and their three ways of sync(). A   *)
(* wrapper w keeps the slave it drives, its communication points and the   *)
(* outputs it read. An output is the time of the FMU at which it was read, *)
(* as of an FMU whose outputs are its time: "real" stands for the outputs  *)
(* that can be interpolated, "other" for those of the other three types.   *)
(* Each operation is the set of states the wrapper may be in afterwards.   *)
(***************************************************************************)
EXTENDS CoSimulationSlave

CONSTANTS
    StepSize,     \* communicationStepSize_, or the default of the variable wrapper
    Infinity,     \* INVALID_FMI_TIME, later than every time of the instance
    Inputs        \* names of the inputs that were defined, by type, in order

ASSUME StepSizeFmuAssumption ==
    StepSize \in Nat \ {0} /\ Infinity \in Nat /\ Inputs \in Seq(STRING)

Kinds == {"direct", "fixed", "interpolating", "variable"}   \* direct: no wrapper

State == [time_ : Int, real : Int \cup {NaN}, other : Int \cup {NaN}]

WrapperRecord ==
    [kind : Kinds, slave : SlaveRecord, ready : BOOLEAN, point : Int, final : Int,
     current : State, previous : State, next : State,
     outcome : {"none", "done", "failed", "refused"}, result : Int]

(* Constructor: the FMU is loaded, and an object of its version made of it.*)
ConstructWrapper(kind, version) ==
    LET nothing == [time_ |-> 0, real |-> 0, other |-> 0]
    IN  [kind |-> kind, slave |-> Construct(version, "OK"), ready |-> FALSE, point |-> 0,
         final |-> 0, current |-> nothing, previous |-> nothing, next |-> nothing,
         outcome |-> "none", result |-> 0]

(* Destructor.                                                             *)
Delete(w) == [w EXCEPT !.slave = Terminate(w.slave), !.ready = FALSE]

(* define...Inputs(): the references of the names, undefined ones too.     *)
InputRefs == [i \in DOMAIN Inputs |-> GetValueRef(Inputs[i])]

(* setInputs(): one call per input; their statuses are not looked at.      *)
SetInputs(s, value) ==
    LET set[n \in 0 .. Len(InputRefs)] ==
            IF n = 0 THEN {s}
            ELSE UNION {SetValueByRef(r, InputRefs[n], value) : r \in set[n - 1]}
    IN  set[Len(InputRefs)]

(* setInitialInputs(): by name, before the FMU is initialized.             *)
SetInitialInputs(s, names, value) ==
    LET set[n \in 0 .. Len(names)] ==
            IF n = 0 THEN {s}
            ELSE UNION {SetValueByName(r, names[n], value) : r \in set[n - 1]}
    IN  set[Len(names)]

(* getOutputs(), of one type after the other: an output that cannot be     *)
(* read keeps an older value, here Stale.                                  *)
Stale == NaN

ReadAs(s, status) == IF Works(status) THEN s.fmuTime ELSE Stale

GetOutputs(s) ==
    {[slave |-> Returns(s, others), real |-> ReadAs(s, reals), other |-> ReadAs(s, others)] :
     reals, others \in FmuStatuses}

At(time, o) == [time_ |-> time, real |-> o.real, other |-> o.other]

-----------------------------------------------------------------------------
(* init(), of the three classes; only the variable wrapper asks whether    *)
(* the FMU can handle variable communication step sizes.                   *)

NotReady(w, s) == [w EXCEPT !.slave = s, !.ready = FALSE, !.outcome = "none"]

IsReady(w, o, start, stop) ==
    LET initState == At(start, o)
    IN  [w EXCEPT !.slave = o.slave, !.ready = TRUE, !.point = start, !.final = stop,
                  !.current = initState, !.previous = initState, !.next = initState,
                  !.outcome = "none"]

InitSlave(w, names, value, start, stop) ==
    UNION {IF s.returned # "OK" THEN {NotReady(w, s)}
           ELSE UNION {IF r.returned # "OK" THEN {NotReady(w, r)}
                       ELSE {IsReady(w, o, start, stop) : o \in GetOutputs(r)} :
                       r \in UNION {Initialize(t, start) :
                                    t \in SetInitialInputs(s, names, value)}} :
           s \in Instantiate(w.slave)}

InitFixed(w, names, value, start, stop) == InitSlave(w, names, value, start, stop)

InitInterpolating(w, names, value, start, stop) == InitSlave(w, names, value, start, stop)

InitVariable(w, names, value, start, stop, canHandle) ==
    IF canHandle THEN InitSlave(w, names, value, start, stop)
    ELSE {NotReady(w, s) : s \in Instantiate(w.slave)}

-----------------------------------------------------------------------------
(* sync(). The outcome tells whether the caller's interval was refused, a  *)
(* step failed, or all is done; result is the time that is returned.       *)

RefusedNever(w) == [w EXCEPT !.outcome = "refused", !.result = NaN]     \* mutant
Refused(w) == [w EXCEPT !.outcome = "refused", !.result = 1]   \* fmiWarning

Failed(w, s) == [w EXCEPT !.slave = s, !.outcome = "failed", !.result = w.point]

(* The caller's time of the next synchronization, in the fixed wrappers.   *)
NextSyncTimeNow(w, t1) == IF t1 <= w.point THEN w.point ELSE w.point + StepSize   \* mutant
NextSyncTime(w, t1) == IF t1 < w.point THEN w.point ELSE w.point + StepSize

Done(w) == [w EXCEPT !.outcome = "done"]

(* One step, and the outputs it leads to.                                  *)
StepFixed(w) ==
    UNION {IF s.returned # "OK" THEN {Failed(w, s)}
           ELSE {[w EXCEPT !.slave = o.slave, !.point = @ + StepSize,
                           !.current = At(w.point + StepSize, o)] :
                 o \in GetOutputs(s)} :
           s \in DoStep(w.slave, w.point, StepSize)}

(* A step for each interval that ends by t1.                               *)
DueFixedAfter(w, t1) == t1 > w.point + StepSize     \* mutant
DueFixed(w, t1) == t1 >= w.point + StepSize

StepInterpolating(w) ==
    LET v == [w EXCEPT !.previous = w.next]
    IN  UNION {IF s.returned # "OK" THEN {Failed(v, s)}
               ELSE {[v EXCEPT !.slave = o.slave, !.point = @ + StepSize,
                               !.next = At(v.point + StepSize, o)] :
                     o \in GetOutputs(s)} :
               s \in DoStep(v.slave, v.point, StepSize)}

InterpolateValue(x, x0, y0, x1, y1) ==
    IF x1 = x0 \/ Stale \in {y0, y1} THEN NaN ELSE y0 + ((x - x0) * (y1 - y0)) \div (x1 - x0)

InterpolateOutputs(w, t) ==     \* mutant: the time of the state is not set
    IF t = w.next.time_ THEN [w EXCEPT !.current = w.next]
    ELSE [w EXCEPT !.current.real = InterpolateValue(t, w.previous.time_, w.previous.real,
                                                     w.next.time_, w.next.real)]

(* Outputs that are not real stay as they were.                            *)
InterpolateCurrentState(w, t) ==
    IF t = w.next.time_ THEN [w EXCEPT !.current = w.next]
    ELSE [w EXCEPT !.current.time_ = t,
                   !.current.real = InterpolateValue(t, w.previous.time_, w.previous.real,
                                                     w.next.time_, w.next.real)]

(* A step for each interval that begins before t1, and back to t1.         *)
DueInterpolatingAt(w, t1) == t1 >= w.point     \* mutant
DueInterpolating(w, t1) == t1 > w.point

(* Steps while they are due, unless one fails. Each takes the wrapper on,  *)
(* so that there are no more than t1.                                      *)
Due(w, t1) == IF w.kind = "fixed" THEN DueFixed(w, t1) ELSE DueInterpolating(w, t1)

Step(w) == IF w.kind = "fixed" THEN StepFixed(w) ELSE StepInterpolating(w)

StepsTo(w, t1) ==
    LET after[n \in 0 .. t1] ==
            IF n = 0 THEN {Done(w)}
            ELSE UNION {IF x.outcome = "done" /\ Due(x, t1) THEN Step(x) ELSE {x} :
                        x \in after[n - 1]}
    IN  IF Due(w, t1) /\ w.point < w.final THEN after[t1] ELSE {Done(w)}

SyncFixed(w, t0, t1) ==
    {IF x.outcome = "done" THEN [x EXCEPT !.result = NextSyncTime(x, t1)] ELSE x :
     x \in StepsTo(w, t1)}

SyncInterpolating(w, t0, t1) ==
    {IF x.outcome = "done"
     THEN [InterpolateCurrentState(x, t1) EXCEPT !.result = NextSyncTime(x, t1)] ELSE x :
     x \in StepsTo(w, t1)}

(* One step of the length of the caller's interval.                        *)
SyncVariable(w, t0, t1) ==
    IF t0 > t1 \/ Abs(t0 - w.point) > TimeDiffResolution THEN {Refused(w)}
    ELSE UNION {IF s.returned # "OK" THEN {Failed(w, s)}
                ELSE {[w EXCEPT !.slave = o.slave, !.point = t1, !.current = At(t1, o), !.outcome = "done",
                                !.result = t1 + StepSize] :
                      o \in GetOutputs(s)} :
                s \in DoStep(w.slave, w.point, t1 - t0)}

Sync(w, t0, t1) ==
    CASE w.kind = "fixed"         -> SyncFixed(w, t0, t1)
      [] w.kind = "interpolating" -> SyncInterpolating(w, t0, t1)
      [] w.kind = "variable"      -> SyncVariable(w, t0, t1)

(* iterateOnce(), of all three: a step of no length. Failed or not, the    *)
(* outputs are read; the next state of the interpolating wrapper is not.   *)
IterateOnce(w) ==
    UNION {{[w EXCEPT !.slave = o.slave, !.current = At(w.point, o)] :
            o \in GetOutputs(s)} :
           s \in DoStep(w.slave, w.point, 0)}

(* sync() with inputs: they are set at the end of the interval, whatever   *)
(* came of it.                                                             *)
SyncWithInputs(w, t0, t1, value, iterate) ==
    UNION {UNION {IF iterate /\ t1 = x.point THEN IterateOnce([x EXCEPT !.slave = s])
                  ELSE {[x EXCEPT !.slave = s]} :
                  s \in SetInputs(x.slave, value)} :
           x \in Sync(w, t0, t1)}

=============================================================================
