----------------------------- MODULE FmuObjects -----------------------------
(***************************************************************************)
(* The FMU objects of a program and its calls of the model manager: the    *)
(* constructors and destructors of FMUModelExchange and FMUCoSimulation of *)
(* FMI 1.0 and 2.0, as far as they load and share bare FMUs. An object     *)
(* whose construction failed has the status fatal and no FMU.              *)
(***************************************************************************)
EXTENDS ModelManager

VARIABLE object   \* of each object, its class and how it was constructed, or Null

objectVars == <<managerVars, object>>

Classes == {"ModelExchange1", "CoSimulation1", "ModelExchange2", "CoSimulation2"}
ObjectRecord == [class : Classes, from : {"directory", "identifier"}]

ASSUME FmuObjectsAssumption == Null \notin ObjectRecord

(* Types of FMU the constructors from a directory accept for a class.      *)
AcceptedTypes(class) ==
    CASE class = "ModelExchange1" -> {"fmi_1_0_me"}
      [] class = "CoSimulation1"  -> {"fmi_1_0_cs"}
      [] class = "ModelExchange2" -> {"fmi_2_0_me", "fmi_2_0_me_and_cs"}
      [] class = "CoSimulation2"  -> {"fmi_2_0_cs", "fmi_2_0_me_and_cs"}

(* Where the constructors of a class get their FMU from.                   *)
CollectionOfClass(class) ==
    CASE class = "ModelExchange1" -> modelCollection
      [] class = "CoSimulation1"  -> slaveCollection
      [] OTHER                    -> instanceCollection

(* Constructor from a directory: the FMU is loaded if it is not, and stays *)
(* loaded when its type turns out to be the wrong one.                     *)
ConstructFromDirectory(o, class, dir) ==
    /\ process = "running"
    /\ object[o] = Null
    /\ LoadFMU(dir)
    /\ IF process' # "running" THEN UNCHANGED <<object, fmu_>>
       ELSE /\ object' = [object EXCEPT ![o] = [class |-> class, from |-> "directory"]]
            /\ fmu_' = [fmu_ EXCEPT ![o] =
                   IF /\ StatusOfLoad(dir) \in {"success", "duplicate"}
                      /\ FmuType[dir] \in AcceptedTypes(class)
                   THEN Get(collections', CollectionOfClass(class), IdentifierOf(dir))
                   ELSE Null]

(* Constructor by the identifier of a loaded FMU: its type is not checked. *)
ConstructByIdentifier(o, class, id) ==
    /\ process = "running"
    /\ object[o] = Null
    /\ object' = [object EXCEPT ![o] = [class |-> class, from |-> "identifier"]]
    /\ fmu_' = [fmu_ EXCEPT ![o] = Get(collections, CollectionOfClass(class), id)]
    /\ UNCHANGED <<process, collections>>

(* Copy constructor: the copy shares the FMU, and has no instance of it.   *)
Copy(o, original) ==
    /\ process = "running"
    /\ object[o] = Null
    /\ object[original] # Null
    /\ object' = [object EXCEPT ![o] = object[original]]
    /\ fmu_' = [fmu_ EXCEPT ![o] = fmu_[original]]
    /\ UNCHANGED <<process, collections>>

Destroy(o) ==
    /\ process = "running"
    /\ object[o] # Null
    /\ object' = [object EXCEPT ![o] = Null]
    /\ fmu_' = [fmu_ EXCEPT ![o] = Null]
    /\ UNCHANGED <<process, collections>>

-----------------------------------------------------------------------------
(* Calls of the manager by the program.                                    *)

ModelIdentifiers == UNION {Range(Identifiers[dir]) : dir \in Dirs}

Load(dir) == process = "running" /\ LoadFMU(dir) /\ UNCHANGED <<object, fmu_>>

LoadAs(id, dir) == process = "running" /\ LoadFMUAs(id, dir) /\ UNCHANGED <<object, fmu_>>

Unload(id) == process = "running" /\ UnloadFMU(id) /\ UNCHANGED <<object, fmu_>>

UnloadAll == process = "running" /\ UnloadAllFMUs /\ UNCHANGED <<object, fmu_>>

(* The program is gone; until then it can always make one more call.       *)
Gone == process # "running" /\ UNCHANGED objectVars

Init == ManagerInit /\ object = [o \in Objects |-> Null]

Next ==
    \/ \E o \in Objects, class \in Classes :
         \/ \E dir \in Dirs : ConstructFromDirectory(o, class, dir)
         \/ \E id \in ModelIdentifiers : ConstructByIdentifier(o, class, id)
    \/ \E o, original \in Objects : Copy(o, original)
    \/ \E o \in Objects : Destroy(o)
    \/ \E dir \in Dirs : Load(dir)
    \/ \E id \in ModelIdentifiers, dir \in Dirs : LoadAs(id, dir)
    \/ \E id \in ModelIdentifiers : Unload(id)
    \/ UnloadAll
    \/ Gone

Spec == Init /\ [][Next]_objectVars

TypeOK ==
    /\ ManagerTypeOK
    /\ object \in [Objects -> ObjectRecord \cup {Null}]
    /\ \A o \in Objects : object[o] = Null => fmu_[o] = Null

-----------------------------------------------------------------------------

(* The FMU an object points to stays loaded, from the same directory, for  *)
(* as long as the object exists, whatever is loaded and unloaded meanwhile *)
(* ("It must not be in use", ModelManager.h, unloadFMU).                   *)
HeldFmusStay ==
    \A o \in Objects : fmu_[o] # Null =>
        \E k \in Collections : fmu_[o] = Get(collections, k, fmu_[o].identifier)

(* Every FMU the manager has is one it could load, under an identifier of  *)
(* its description and in the collection of its type; an identifier is in  *)
(* one collection only, so that getTypeOfLoadedFMU() and unloadFMU(),      *)
(* which stop at the first, speak of the FMU that is meant.                *)
LoadedFmusUsable ==
    \A k \in Collections : \A id \in DOMAIN collections[k] :
        LET dir == collections[k][id] IN
        /\ Description[dir] = "valid"
        /\ Library[dir] = "complete"
        /\ id \in Range(Identifiers[dir])
        /\ k = CollectionOf(FmuType[dir])
        /\ \A j \in Collections : id \in DOMAIN collections[j] => j = k

(* An object constructed from a directory, and every copy of it, has an    *)
(* FMU of a type its class can drive, also when another directory's FMU of *)
(* the same identifier was loaded before and is used in its place.         *)
ObjectsFitTheirFmu ==
    \A o \in Objects : fmu_[o] # Null /\ object[o].from = "directory" =>
        FmuType[fmu_[o].dir] \in AcceptedTypes(object[o].class)

(* ModelManager.h, shared_lib_load_failed: "The FMU has not been loaded,   *)
(* because the shared library (DLL) could not be successfully loaded": the *)
(* manager returns a status, the program goes on.                          *)
LoadReturns == process # "crashed"

-----------------------------------------------------------------------------
(* The three collections and the pointers to them implement one registry.  *)

LoadedFmus ==
    UNION {{Get(collections, k, id) : id \in DOMAIN collections[k]} : k \in Collections}

LoadableFmus ==
    UNION {{[identifier |-> id, dir |-> dir] : id \in Range(Identifiers[dir])} : dir \in Dirs}

Registry == INSTANCE FmuRegistry WITH
    Fmus <- LoadableFmus, registry <- LoadedFmus, held <- fmu_

RegistrySpec == Registry!Spec

=============================================================================
