---------------------------- MODULE CoSimulation ----------------------------
(***************************************************************************)
(* A program that co-simulates an FMU: it uses an FMUCoSimulation object   *)
(* directly, or through a wrapper of one of the three kinds, which it      *)
(* initializes, synchronizes and deletes.                                  *)
(***************************************************************************)
EXTENDS StepSizeFmu

CONSTANTS
    Users,               \* kinds of wrappers the program uses
    InputValues,         \* values it sets its inputs to through a wrapper
    ConstructStatuses,   \* status after construction: OK, Warning or Fatal
    StartTimes,
    StopTimes,
    MaxTime,             \* bound: the last time a program asks for
    InitialInputs,       \* lists of names a program may set before the start
    Names, Arrays        \* names and lists of references a program accesses

ASSUME CoSimulationAssumption ==
    /\ Users \subseteq Kinds /\ InputValues \subseteq Values
    /\ ConstructStatuses \subseteq Statuses
    /\ StartTimes \subseteq Nat /\ StopTimes \subseteq Nat /\ MaxTime \in Nat
    /\ \A stop \in StopTimes, start \in StartTimes : start < stop
    /\ InitialInputs \subseteq Seq(STRING) /\ Names \subseteq STRING
    /\ \A array \in Arrays :
          /\ array.refs \in Seq(Int) /\ array.refs # <<>>
          /\ \A i \in DOMAIN array.refs, j \in DOMAIN Description :
                Description[j].ref = array.refs[i] => Description[j].type = array.type

VARIABLES
    w,        \* the wrapper with its slave
    exists,   \* whether the program has not destroyed it yet
    lastT1,   \* the end of the last interval that was accepted
    known,    \* per reference, the value last set by the program, or NaN
    got       \* values the program got since it last set one

vars == <<w, exists, lastT1, known, got>>

slave == w.slave

Usable == slave.instance_ = "live" /\ slave.phase \in {"instantiated", "initializing", "stepping"}

(* Bound: how far an FMU that answers with warnings may get.               *)
WithinBound(s) == s.fmuTime <= MaxFmuTime

Nothing == [r \in Refs |-> NaN]

-----------------------------------------------------------------------------
(* Direct use. An object can be used again for another instance.           *)

Direct == exists /\ w.kind = "direct" /\ slave.phase \notin {"freed twice", "ended by exception"}

BecomesSlave(s) ==
    w' = [w EXCEPT !.slave = s] /\ WithinBound(s) /\ UNCHANGED <<exists, lastT1>>

CallInstantiate ==
    /\ Direct
    /\ \E s \in Instantiate(slave) : BecomesSlave(s)
    /\ known' = Nothing /\ got' = <<>>

CallInitialize(tStart) ==
    /\ Direct /\ Usable /\ slave.phase # "stepping"
    /\ \E s \in Initialize(slave, tStart) : BecomesSlave(s)
    /\ UNCHANGED <<known, got>>

CallDoStep(point, size) ==
    /\ Direct /\ Usable /\ slave.phase = "stepping"
    /\ \E s \in DoStep(slave, point, size) : BecomesSlave(s)
    /\ UNCHANGED <<known, got>>

CallTerminate ==
    /\ Direct /\ Usable
    /\ BecomesSlave(Terminate(slave))
    /\ UNCHANGED <<known, got>>

(* The program takes a status of OK, or a warning, as a value that is set. *)
Set(outcomes, refs, value) ==
    \E s \in outcomes :
        /\ BecomesSlave(s)
        /\ known' = [r \in Refs |-> IF r \in refs /\ Works(s.returned) THEN value ELSE known[r]]
        /\ got' = <<>>

SetVariable(name, value) ==
    /\ Direct /\ Usable
    /\ Set(SetValueByName(slave, name, value), {GetValueRef(name)}, value)

SetVariables(refs, type, value) ==
    /\ Direct /\ Usable
    /\ Set(SetValueArray(slave, refs, [i \in DOMAIN refs |-> value], type),
           {refs[i] : i \in DOMAIN refs}, value)

Got(outcomes) ==
    \E o \in outcomes :
        /\ BecomesSlave(o.slave)
        /\ got' = IF Works(o.slave.returned) THEN o.got ELSE <<>>
        /\ UNCHANGED known

GetVariable(name) ==
    /\ Direct /\ Usable
    /\ Got(GetValueByName(slave, name, NaN))

(* With the getter for the type the object says the variable has.          *)
GetNamedVariable(name) ==
    /\ Direct /\ Usable
    /\ Got(GetNamedValue(slave, name, GetType(slave, name)))

GetVariables(refs, type) ==
    /\ Direct /\ Usable
    /\ Got(GetValueArray(slave, {refs[i] : i \in DOMAIN refs}, NaN, type))

-----------------------------------------------------------------------------
(* Use of a wrapper. A program simulates forward, from the time that was   *)
(* returned when a step failed, and does so after init() returned 1. It    *)
(* initializes again when either failed. It iterates at communication      *)
(* points only: the interpolating wrapper would otherwise mix outputs that *)
(* it read there with ones it interpolates to an earlier time.             *)

Wrapped == exists /\ w.kind # "direct"

From == IF w.outcome = "failed" THEN w.result ELSE lastT1

(* What the slave's calls returned is known to the wrapper only.           *)
Becomes(v, t1) ==
    /\ w' = [v EXCEPT !.slave.returned = v.slave.lastStatus_]
    /\ WithinBound(v.slave)
    /\ lastT1' = IF v.outcome = "refused" THEN lastT1 ELSE t1
    /\ UNCHANGED <<exists, known, got>>

InitOf(names, value, start, stop, canHandle) ==
    CASE w.kind = "fixed"         -> InitFixed(w, names, value, start, stop)
      [] w.kind = "interpolating" -> InitInterpolating(w, names, value, start, stop)
      [] w.kind = "variable"      -> InitVariable(w, names, value, start, stop, canHandle)

CallInit(names, value, start, stop, canHandle) ==
    /\ Wrapped
    /\ w.ready => w.outcome = "failed"
    /\ \E v \in InitOf(names, value, start, stop, canHandle) : Becomes(v, start)

CallSync(t0, t1) ==
    /\ Wrapped /\ w.ready /\ t1 >= From
    /\ \E v \in Sync(w, t0, t1) : Becomes(v, t1)

CallSyncWithInputs(t0, t1, value, iterate) ==
    /\ Wrapped /\ w.ready /\ t1 >= From
    /\ \E v \in SyncWithInputs(w, t0, t1, value, iterate) : Becomes(v, t1)

CallIterateOnce ==
    /\ Wrapped /\ w.ready
    /\ w.kind = "interpolating" => lastT1 = w.point
    /\ \E v \in IterateOnce(w) : Becomes(v, lastT1)

-----------------------------------------------------------------------------

Destroy ==
    /\ Direct \/ Wrapped
    /\ exists' = FALSE
    /\ w' = IF w.kind = "direct" THEN [w EXCEPT !.slave = Terminate(slave)] ELSE Delete(w)
    /\ UNCHANGED <<lastT1, known, got>>

(* The object is gone, or the program with it.                             *)
Gone ==
    /\ ~exists \/ slave.phase \in {"freed twice", "ended by exception"}
    /\ UNCHANGED vars

Init ==
    /\ \E kind \in Users, version \in {1, 2}, status \in ConstructStatuses :
          w = IF kind = "direct"
              THEN [ConstructWrapper(kind, version) EXCEPT !.slave = Construct(version, status)]
              ELSE ConstructWrapper(kind, version)
    /\ exists = TRUE
    /\ lastT1 = 0
    /\ known = Nothing
    /\ got = <<>>

Times == 0 .. MaxTime

(* The variable wrapper never looks at the stop time.                      *)
Stops == IF w.kind = "variable" THEN {Infinity} ELSE StopTimes

(* Only the variable wrapper looks at the begin of an interval: it may be  *)
(* the end of the last one, or roughly the communication point.            *)
IntervalStarts ==
    {lastT1} \cup IF w.kind = "variable" THEN {w.point - 1, w.point, w.point + 1} ELSE {}

(* Bound: the intervals of the variable wrapper are short.                 *)
IntervalEnds ==
    IF w.kind = "variable" THEN Times \cap (w.point - 1 .. w.point + 1) ELSE Times

Next ==
    \/ CallInstantiate
    \/ \E start \in StartTimes : CallInitialize(start)
    \/ \E point \in Times, size \in {0, StepSize} : CallDoStep(point, size)
    \/ CallTerminate
    \/ \E name \in Names, value \in Values : SetVariable(name, value)
    \/ \E array \in Arrays, value \in Values : SetVariables(array.refs, array.type, value)
    \/ \E name \in Names : GetVariable(name) \/ GetNamedVariable(name)
    \/ \E array \in Arrays : GetVariables(array.refs, array.type)
    \/ \E names \in InitialInputs, value \in InputValues, start \in StartTimes, stop \in Stops,
          canHandle \in BOOLEAN : CallInit(names, value, start, stop, canHandle)
    \/ \E t0 \in IntervalStarts, t1 \in IntervalEnds : CallSync(t0, t1)
    \/ \E t0 \in IntervalStarts, t1 \in IntervalEnds, value \in InputValues, iterate \in BOOLEAN :
          CallSyncWithInputs(t0, t1, value, iterate)
    \/ CallIterateOnce
    \/ Destroy
    \/ Gone

Spec == Init /\ [][Next]_vars

TypeOK ==
    /\ w \in WrapperRecord
    /\ exists \in BOOLEAN
    /\ lastT1 \in Nat
    /\ known \in [Refs -> Values \cup {NaN}]
    /\ got = <<>> \/ \E refs \in SUBSET (Refs \cup {UndefinedRef}) :
                       got \in [refs -> Values \cup {NaN}]

-----------------------------------------------------------------------------

(* The time an object keeps for its FMU (time_, which it hands to every    *)
(* step) is the FMU's own, through failed steps, steps it refused and      *)
(* repeated attempts to initialize, unless the FMU moved with a warning.   *)
ClockFollowsFmu ==
    slave.phase = "stepping" /\ ~slave.warned => slave.time_ = slave.fmuTime

(* A program only synchronizes a wrapper whose init() returned 1: then the *)
(* FMU is initialized. The communication point of the fixed wrappers is    *)
(* the slave's time; that of the variable wrapper, which takes the end of  *)
(* an interval for it that may begin anywhere within the resolution, never *)
(* drifts further than twice the resolution.                               *)
Drift == IF w.kind = "variable" THEN 2 * TimeDiffResolution ELSE 0

WrapperFollowsSlave ==
    w.ready => slave.phase = "stepping" /\ Abs(w.point - slave.time_) <= Drift

(* The outputs a wrapper shows are of one time, the time of its current    *)
(* state, interpolated ones too; those the interpolating wrapper does not  *)
(* interpolate are not newer. An output that could not be read, and an FMU *)
(* that moved with a warning, are left out.                                *)
OutputsOfOneTime ==
    w.ready /\ ~slave.warned =>
        /\ w.current.real # Stale => Abs(w.current.real - w.current.time_) <= Drift
        /\ w.current.other # Stale =>
               IF w.kind = "interpolating" THEN w.current.other <= w.current.time_
               ELSE w.current.real \in {w.current.other, Stale}

(* The time sync() returns tells whether it reached the end of the         *)
(* interval: a later one if so, none later if a step failed, whatever      *)
(* getLastStatus() says by then. Intervals the variable wrapper refuses,   *)
(* for which it returns the number of a status, are left out.              *)
Slack == IF w.kind = "variable" THEN TimeDiffResolution ELSE 0

ResultTellsProgress ==
    w.ready /\ lastT1 <= w.final =>
        /\ w.outcome = "done" => w.result > lastT1 + Slack
        /\ w.outcome = "failed" => w.result <= lastT1 + Slack

(* A wrapper takes the FMU no further than it was asked to, except that    *)
(* the interpolating one is less than a step ahead.                        *)
NotAheadOfRequest ==
    w.ready => w.point <= lastT1 + IF w.kind = "interpolating" THEN StepSize - 1 ELSE 0

(* A variable of numbers that was set, by reference, by name or in an      *)
(* array, is read as what it was set to, whichever getter is used and      *)
(* however many variables have its name.                                   *)
TypeOfRef(r) == (CHOOSE i \in DOMAIN Description : Description[i].ref = r)

ReadAsSet ==
    \A r \in DOMAIN got \cap Refs :
        Description[TypeOfRef(r)].type \in {"Real", "Integer"} /\ known[r] # NaN =>
            got[r] = known[r]

-----------------------------------------------------------------------------
(* What a program sees of a wrapper, and when it goes on from where, is    *)
(* what SyncContract promises it, whichever of the three wrappers it uses. *)

Contract == INSTANCE SyncContract WITH
    Resolution <- TimeDiffResolution,
    kind <- w.kind, ready <- w.ready, final <- w.final, asked <- lastT1,
    shown <- w.current.time_, told <- w.result, outcome <- w.outcome

KeepsSyncContract == Contract!Spec

=============================================================================
