---------------------------- MODULE ModelManager ----------------------------
(***************************************************************************)
(* fmipp/import/base, ModelManager: the singleton that loads the FMU of a  *)
(* directory once per model identifier, in one of three collections, and   *)
(* hands out shared pointers to it (a "bare FMU": its shared library and   *)
(* its model description). FMU objects keep such a pointer in fmu_.        *)
(*                                                                         *)
(* A call of loadFMU() is described by what it returns in the state it is  *)
(* made in (StatusOfLoad) and by what it does (LoadFMU). Assertions are    *)
(* enabled: a false one ends the program.                                  *)
(***************************************************************************)
EXTENDS Integers, Sequences, FiniteSets, Functions

CONSTANTS
    Dirs,          \* directories with an extracted FMU
    Description,   \* [Dirs -> Descriptions], the state of modelDescription.xml
    Identifiers,   \* [Dirs -> Seq(Nat)], its model identifiers; their order is <
    FmuType,       \* [Dirs -> FmuTypes], its type
    Library,       \* [Dirs -> Libraries], the state of the shared library
    Objects,       \* FMU objects a program may construct
    Null

Descriptions == {"bad_uri", "invalid", "valid"}
Libraries    == {"missing", "incomplete", "complete"}
FmuTypes     == {"fmi_1_0_me", "fmi_1_0_cs", "fmi_2_0_me", "fmi_2_0_cs",
                 "fmi_2_0_me_and_cs"}

ASSUME ModelManagerAssumption ==
    /\ Description \in [Dirs -> Descriptions]
    /\ Identifiers \in [Dirs -> Seq(Nat) \ {<<>>}]
    /\ FmuType \in [Dirs -> FmuTypes]
    /\ Library \in [Dirs -> Libraries]
    /\ Null \notin [identifier : Nat, dir : Dirs]

VARIABLES
    process,      \* "running", "aborted" by an assertion or "crashed"
    collections,  \* of each collection, model identifier -> directory of the FMU
    fmu_          \* of each object, the bare FMU it points to, or Null

managerVars == <<process, collections, fmu_>>

-----------------------------------------------------------------------------
(* modelCollection_, slaveCollection_ and instanceCollection_, numbered in *)
(* the order in which the manager goes through them.                       *)

Collections == 1 .. 3
modelCollection    == 1
slaveCollection    == 2
instanceCollection == 3

CollectionOf(type) ==
    CASE type = "fmi_1_0_me" -> modelCollection
      [] type = "fmi_1_0_cs" -> slaveCollection
      [] OTHER               -> instanceCollection

(* A bare FMU is named by its model identifier and its directory.          *)
BareFmu == [identifier : Nat, dir : Dirs]

LoadedInstance(id) == id \in DOMAIN collections[instanceCollection]
Loaded(id) == \E k \in Collections : id \in DOMAIN collections[k]

(* getModel(), getSlave() and getInstance() of the given collections.      *)
GetDefault(colls, k, id) ==
    [identifier |-> id, dir |-> IF id \in DOMAIN colls[k] THEN colls[k][id] ELSE Null]
Get(colls, k, id) ==
    IF id \in DOMAIN colls[k] THEN [identifier |-> id, dir |-> colls[k][id]] ELSE Null

(* getTypeOfLoadedFMU(), for a loaded identifier: the collections are      *)
(* searched in their order.                                                *)
TypeOfLoaded(id) ==
    LET first == CHOOSE k \in Collections :
                    /\ id \in DOMAIN collections[k]
                    /\ \A j \in 1 .. k - 1 : id \notin DOMAIN collections[j]
    IN FmuType[collections[first][id]]

(* use_count() is not 1: an object has a pointer to the FMU.               *)
NeverInUse(k, id) == FALSE
InUse(k, id) == \E o \in Objects : fmu_[o] = Get(collections, k, id)

-----------------------------------------------------------------------------
(* loadFMU().                                                              *)

StatusOfDescription(dir) ==
    CASE Description[dir] = "bad_uri" -> "description_invalid_uri"
      [] Description[dir] = "invalid" -> "description_invalid"
      [] OTHER                        -> "success"

StatusOfLibrary(dir) ==
    IF Library[dir] = "complete" THEN "success" ELSE "shared_lib_load_failed"

(* loadBareFMU(): a library that cannot be opened leaves the functions of  *)
(* the new bare FMU null, and its destructor dereferences them.            *)
Insert(dir, id) ==
    [collections EXCEPT ![CollectionOf(FmuType[dir])] =
        [x \in DOMAIN @ \cup {id} |-> IF x = id THEN dir ELSE @[x]]]

ProcessAfterLibrary(dir) == IF Library[dir] = "missing" THEN "crashed" ELSE process

(* loadFMU( fmuDirUrl, ... ): the identifier is the first of the           *)
(* description. A loaded FMU of this identifier and another type fails the *)
(* assertion of consistency.                                               *)
IdentifierOf(dir) == Identifiers[dir][1]

ConsistentAlways(dir) == TRUE
Consistent(dir) ==
    Loaded(IdentifierOf(dir)) => TypeOfLoaded(IdentifierOf(dir)) = FmuType[dir]

StatusOfLoad(dir) ==
    IF StatusOfDescription(dir) # "success" THEN StatusOfDescription(dir)
    ELSE IF Loaded(IdentifierOf(dir)) THEN "duplicate"
    ELSE StatusOfLibrary(dir)

ProcessAfterLoad(dir) ==
    IF StatusOfDescription(dir) # "success" THEN process
    ELSE IF ~Consistent(dir) THEN "aborted"
    ELSE IF Loaded(IdentifierOf(dir)) THEN process
    ELSE ProcessAfterLibrary(dir)

CollectionsAfterLoad(dir) ==
    IF StatusOfLoad(dir) = "success" THEN Insert(dir, IdentifierOf(dir)) ELSE collections

LoadFMU(dir) ==
    /\ process' = ProcessAfterLoad(dir)
    /\ collections' = CollectionsAfterLoad(dir)

(* loadFMU( modelIdentifier, fmuDirUrl, ... ): a loaded identifier is a    *)
(* duplicate whatever the directory; another one has to be one of those of *)
(* the description.                                                        *)
LoadFMUAs(id, dir) ==
    IF Loaded(id) \/ StatusOfDescription(dir) # "success" \/ id \notin Range(Identifiers[dir])
    THEN UNCHANGED <<process, collections>>
    ELSE /\ process' = ProcessAfterLibrary(dir)
         /\ collections' = IF StatusOfLibrary(dir) = "success" THEN Insert(dir, id)
                           ELSE collections

-----------------------------------------------------------------------------
(* unloadFMU() and unloadAllFMUs().                                        *)

(* unloadFMU(): the first collection that has the identifier decides.      *)
UnloadsFrom(k, id) ==
    /\ id \in DOMAIN collections[k]
    /\ \A j \in 1 .. k - 1 : id \notin DOMAIN collections[j]
    /\ ~InUse(k, id)

UnloadFMU(id) ==
    /\ collections' = [k \in Collections |->
           IF UnloadsFrom(k, id)
           THEN Restrict(collections[k], DOMAIN collections[k] \ {id})
           ELSE collections[k]]
    /\ UNCHANGED process

(* unloadAllFMUs() goes through the collections in order and through each  *)
(* one in the order of its identifiers, and stops at the first FMU in use. *)
ComesBefore(j, id1, k, id2) == j < k \/ (j = k /\ id1 < id2)
Comes(j, id1, k, id2) == j < k \/ (j = k /\ id1 <= id2)

StopsBefore(k, id) ==
    \E j \in Collections : \E x \in DOMAIN collections[j] : InUse(j, x) /\ Comes(j, x, k, id)

UnloadAllFMUs ==
    /\ collections' = [k \in Collections |->
           Restrict(collections[k], {id \in DOMAIN collections[k] : StopsBefore(k, id)})]
    /\ UNCHANGED process

ManagerInit ==
    /\ process = "running"
    /\ collections = [k \in Collections |-> <<>>]
    /\ fmu_ = [o \in Objects |-> Null]

ManagerTypeOK ==
    /\ process \in {"running", "aborted", "crashed"}
    /\ DOMAIN collections = Collections
    /\ \A k \in Collections :
         /\ DOMAIN collections[k] \subseteq Nat
         /\ collections[k] \in [DOMAIN collections[k] -> Dirs]
    /\ fmu_ \in [Objects -> BareFmu \cup {Null}]

=============================================================================
