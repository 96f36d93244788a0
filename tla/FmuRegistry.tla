---------------------------- MODULE FmuRegistry -----------------------------
(***************************************************************************)
(* What the model manager promises to the objects that use it: one FMU per *)
(* model identifier; an FMU that is loaded is never exchanged for another, *)
(* and one that an object holds is never given up.                         *)
(***************************************************************************)

CONSTANTS
    Fmus,      \* FMUs that can be loaded, each with the field identifier
    Objects,
    Null

VARIABLES
    registry,  \* FMUs that are loaded
    held       \* of each object, the FMU it holds, or Null

Held(fmu) == \E o \in Objects : held[o] = fmu

Init ==
    /\ registry = {}
    /\ held = [o \in Objects |-> Null]

Add(fmu) ==
    /\ \A other \in registry : other.identifier # fmu.identifier
    /\ registry' = registry \cup {fmu}

(* FMUs are loaded one at a time, ...                                      *)
Load(fmu) == UNCHANGED held /\ Add(fmu)

(* ... unloaded some at a time, ...                                        *)
Unload(fmus) ==
    /\ \A fmu \in fmus : ~Held(fmu)
    /\ registry' = registry \ fmus
    /\ UNCHANGED held

(* ... and taken by an object, which may load them first or share them.    *)
Take(o, fmu) ==
    /\ held[o] = Null
    /\ held' = [held EXCEPT ![o] = fmu]
    /\ Add(fmu) \/ UNCHANGED registry
    /\ fmu \in registry'

Release(o) ==
    /\ held' = [held EXCEPT ![o] = Null]
    /\ UNCHANGED registry

Next ==
    \/ \E fmu \in Fmus : Load(fmu)
    \/ \E fmus \in SUBSET registry : Unload(fmus)
    \/ \E o \in Objects, fmu \in Fmus : Take(o, fmu)
    \/ \E o \in Objects : Release(o)

Spec == Init /\ [][Next]_<<registry, held>>

=============================================================================
