-------------------------- MODULE CoSimulationSlave --------------------------
(***************************************************************************)
(* An FMUCoSimulation object of FMI 1.0 or 2.0 and the instance it drives. *)
(* A call of the object may have several outcomes, since the FMU answers   *)
(* as it likes: each operation is the set of states the object, with its   *)
(* instance, may be in afterwards. The members are instance_, time_ and    *)
(* lastStatus_; returned is the status the last call gave back; phase,     *)
(* fmuTime and var belong to the instance in the shared library, warned is *)
(* a history of its answers.                                               *)
(***************************************************************************)
EXTENDS Integers, Sequences, FiniteSets

CONSTANTS
    Description,          \* model variables in order: [name, ref, type]
    Values,               \* values of variables
    StartValue,           \* the value a variable of a new instance has
    FmuStatuses,          \* what an FMU may answer to a call
    TimeDiffResolution,   \* timeDiffResolution_
    MaxFmuTime,           \* bound: an FMU takes no step past it
    NaN

VariableTypes == {"Real", "Integer", "Boolean", "String"}

(* References of variables of different types are told apart.              *)
ASSUME CoSimulationSlaveAssumption ==
    /\ Description \in Seq([name : STRING, ref : Nat, type : VariableTypes])
    /\ \A i, j \in DOMAIN Description :
          Description[i].ref = Description[j].ref => Description[i].type = Description[j].type
    /\ StartValue \in Values
    /\ "OK" \in FmuStatuses
    /\ FmuStatuses \subseteq {"OK", "Warning", "Discard", "Error", "Fatal"}
    /\ TimeDiffResolution \in Nat
    /\ MaxFmuTime \in Nat
    /\ NaN \notin Int

Statuses == {"OK", "Warning", "Discard", "Error", "Fatal"}

UndefinedRef == -1

(* readModelDescription(): of several variables of a name the first is the *)
(* one the maps keep.                                                      *)
Described == {Description[i].name : i \in DOMAIN Description}

FirstOf(name) ==
    CHOOSE i \in DOMAIN Description :
        /\ Description[i].name = name
        /\ \A j \in DOMAIN Description : Description[j].name = name => i <= j

VarMap == [name \in Described |-> Description[FirstOf(name)].ref]

Refs == {Description[i].ref : i \in DOMAIN Description}

(* The FMI 1.0 class looks for an element no description has, so that it   *)
(* takes a Boolean variable for one of unknown type.                       *)
VarTypeMap1 ==
    [name \in Described |->
        LET type == Description[FirstOf(name)].type
        IN  IF type = "Boolean" THEN "Unknown" ELSE type]

VarTypeMap2 == [name \in Described |-> Description[FirstOf(name)].type]

GetType(s, name) ==
    IF name \notin Described THEN "Unknown"
    ELSE IF s.version = 1 THEN VarTypeMap1[name] ELSE VarTypeMap2[name]

GetValueRef(name) == IF name \in Described THEN VarMap[name] ELSE UndefinedRef

-----------------------------------------------------------------------------
(* Construction and calls of the functions of the FMU.                     *)

SlaveRecord ==
    [version : {1, 2}, loaded : BOOLEAN, instance_ : {"null", "live", "dangling"},
     time_ : Int \cup {NaN}, lastStatus_ : Statuses, returned : Statuses,
     phase : {"none", "instantiated", "initializing", "stepping", "terminated", "freed twice",
              "ended by exception"},
     warned : BOOLEAN, fmuTime : Int, var : [Refs -> Values]]

(* status is that of the constructor: fatal when the FMU is missing, a     *)
(* warning when it was loaded under another identifier than expected.      *)
Construct(version, status) ==
    [version |-> version, loaded |-> status # "Fatal", instance_ |-> "null", time_ |-> NaN,
     lastStatus_ |-> status, returned |-> status, phase |-> "none",
     warned |-> FALSE, fmuTime |-> 0, var |-> [r \in Refs |-> StartValue]]

Returns(s, status) == [s EXCEPT !.lastStatus_ = status, !.returned = status]

(* A call with a warning has done its work, any other failure has not.     *)
Works(status) == status \in {"OK", "Warning"}

FmuCall(s, done) ==
    {Returns(IF Works(status) THEN done ELSE s, status) : status \in FmuStatuses}

(* A call that takes the FMU further; warned records that it did so with a *)
(* warning, which the object takes for a failure.                          *)
FmuMove(s, done) ==
    {[r EXCEPT !.warned = @ \/ r.lastStatus_ = "Warning"] : r \in FmuCall(s, done)}

(* instantiate(): a former instance is neither terminated nor freed.       *)
Instantiate(s) ==
    IF ~s.loaded THEN {Returns(s, "Error")}
    ELSE LET none == [s EXCEPT !.time_ = 0, !.instance_ = "null", !.phase = "none",
                               !.warned = FALSE, !.fmuTime = 0, !.var = [r \in Refs |-> StartValue]]
             live == [none EXCEPT !.instance_ = "live", !.phase = "instantiated"]
         IN  {Returns(none, "Error")} \cup FmuCall(live, live)

(* FMI 1.0: the time is set whether or not the slave can be initialized.   *)
Initialize1(s, tStart) ==
    IF s.instance_ = "null" THEN {Returns(s, "Error")}
    ELSE LET t == [s EXCEPT !.time_ = tStart]
         IN  FmuMove(t, [t EXCEPT !.phase = "stepping", !.fmuTime = tStart])

(* FMI 2.0: nothing is done when the status left by an earlier call is not *)
(* OK; the time is set when all three calls of the FMU succeeded, the      *)
(* first that does not is the last one.                                    *)
Initialize2(s, tStart) ==
    LET setup == FmuMove(s, [s EXCEPT !.fmuTime = tStart])
        enterInitializationMode(r) == FmuMove(r, [r EXCEPT !.phase = "initializing"])
        exitInitializationMode(r) == FmuMove(r, [r EXCEPT !.phase = "stepping"])
        entered == UNION {IF r.lastStatus_ = "OK" THEN enterInitializationMode(r) ELSE {r} :
                          r \in setup}
        left == UNION {IF r.lastStatus_ = "OK" THEN exitInitializationMode(r) ELSE {r} :
                       r \in entered}
    IN  IF s.instance_ = "null" THEN {Returns(s, "Error")}
        ELSE IF s.lastStatus_ # "OK" THEN {[s EXCEPT !.returned = s.lastStatus_]}
        ELSE {IF r.lastStatus_ = "OK" THEN [r EXCEPT !.time_ = tStart] ELSE r : r \in left}

Initialize(s, tStart) ==
    IF s.version = 1 THEN Initialize1(s, tStart) ELSE Initialize2(s, tStart)

Abs(n) == IF n < 0 THEN -n ELSE n

DoStepAnyway(s, point, size) ==       \* mutant: the status is not looked at
    IF Abs(s.time_ - point) > TimeDiffResolution THEN {[s EXCEPT !.returned = "Error"]}
    ELSE {[r EXCEPT !.time_ = s.time_ + size] :
          r \in FmuMove(s, [s EXCEPT !.fmuTime = s.fmuTime + size])}

DoStepAnywhere(s, point, size) ==     \* mutant: the communication point is not looked at
    {IF r.lastStatus_ = "OK" THEN [r EXCEPT !.time_ = s.time_ + size] ELSE r :
     r \in FmuMove(s, [s EXCEPT !.fmuTime = s.fmuTime + size])}

(* doStep(): a communication point too far from time_ is an error that     *)
(* lastStatus_ does not tell of; time_ advances only when the status is OK,*)
(* the FMU also with a warning.                                            *)
DoStep(s, point, size) ==
    IF Abs(s.time_ - point) > TimeDiffResolution THEN {[s EXCEPT !.returned = "Error"]}
    ELSE {IF r.lastStatus_ = "OK" THEN [r EXCEPT !.time_ = s.time_ + size] ELSE r :
          r \in FmuMove(s, [s EXCEPT !.fmuTime = s.fmuTime + size])}

(* terminate() and the destructor: instance_ is left as it is.             *)
Terminate(s) ==
    CASE s.instance_ = "null"     -> s
      [] s.instance_ = "live"     -> [s EXCEPT !.instance_ = "dangling", !.phase = "terminated"]
      [] s.instance_ = "dangling" -> [s EXCEPT !.phase = "freed twice"]

-----------------------------------------------------------------------------
(* Access to variables. The FMU knows no variable of an undefined          *)
(* reference.                                                              *)

SetRefs(s, values) ==
    IF \A r \in DOMAIN values : r \in Refs
    THEN FmuCall(s, [s EXCEPT !.var = [r \in Refs |->
             IF r \in DOMAIN values THEN values[r] ELSE s.var[r]]])
    ELSE {Returns(s, "Error")}

(* setValue() of one variable by its reference.                            *)
SetValueByRef(s, ref, value) == SetRefs(s, [r \in {ref} |-> value])

(* setValue() of an array: of Booleans, only the first is converted, and   *)
(* for the others the FMU reads whatever lies behind it.                   *)
SetValueArray(s, refs, values, type) ==
    IF type = "Boolean"
    THEN UNION {SetRefs(s, [r \in {refs[i] : i \in DOMAIN refs} |->
                               IF r = refs[1] THEN values[1] ELSE garbage[r]]) :
                garbage \in [Refs \cup {UndefinedRef} -> Values]}
    ELSE SetRefs(s, [r \in {refs[i] : i \in DOMAIN refs} |->
                        values[CHOOSE i \in DOMAIN refs : refs[i] = r]])

(* setValue() by name: an unknown name is discarded.                       *)
SetValueByName(s, name, value) ==
    IF name \in Described THEN SetValueByRef(s, VarMap[name], value)
    ELSE {Returns(s, "Discard")}

(* What a getter delivers: the values of the variables if the FMU answers  *)
(* OK or with a warning, and what the caller's variable held otherwise.    *)
GetRefs(s, refs, held) ==
    IF refs \subseteq Refs
    THEN {[slave |-> Returns(s, status),
           got |-> [r \in refs |-> IF Works(status) THEN s.var[r] ELSE held]] :
          status \in FmuStatuses}
    ELSE {[slave |-> Returns(s, "Error"), got |-> [r \in refs |-> held]]}

GetValueByRef(s, ref, held) == GetRefs(s, {ref}, held)

GetValueArrayCopied(s, refs, held, type) ==     \* mutant: nothing is copied back
    {[slave |-> o.slave, got |-> [r \in refs |-> held]] : o \in GetRefs(s, refs, held)}

(* getValue() of an array: Booleans are read into a copy that is thrown    *)
(* away, and for strings the FMU gets no array to write to.                *)
GetValueArray(s, refs, held, type) ==
    IF type \in {"Boolean", "String"}
    THEN {[slave |-> o.slave, got |-> [r \in refs |-> held]] : o \in GetRefs(s, refs, held)}
    ELSE GetRefs(s, refs, held)

GetValueByName(s, name, held) ==
    IF name \in Described THEN GetValueByRef(s, VarMap[name], held)
    ELSE {[slave |-> Returns(s, "Discard"), got |-> <<>>]}

(* getRealValue() and the like: for an unknown name they give a value of   *)
(* their own, and a string is made of a null pointer.                      *)
GetNamedValue(s, name, type) ==
    IF name \in Described THEN GetValueByRef(s, VarMap[name], NaN)
    ELSE {[slave |-> [Returns(s, "Discard") EXCEPT
                        !.phase = IF type = "String" THEN "ended by exception" ELSE @],
           got |-> <<>>]}

=============================================================================
