-------------------------- MODULE FmuObjectsProofs --------------------------
(***************************************************************************)
(* Proofs about FmuObjects, for any directories and any objects: an object *)
(* keeps its FMU, and the three collections of the manager implement one   *)
(* registry.                                                               *)
(***************************************************************************)
EXTENDS FmuObjects, TLAPS

(* None of the properties is inductive by itself: that an object keeps its *)
(* FMU rests on what the collections hold, and that an FMU fits its object *)
(* on an identifier being in one collection.                               *)
ObjectsInv == TypeOK /\ LoadedFmusUsable /\ HeldFmusStay /\ ObjectsFitTheirFmu

CollectionsTyped ==
    /\ DOMAIN collections = Collections
    /\ \A k \in Collections :
         /\ DOMAIN collections[k] \subseteq Nat
         /\ collections[k] \in [DOMAIN collections[k] -> Dirs]

-----------------------------------------------------------------------------
(* Facts about the operators.                                              *)

LEMMA CollectionOfType ==
    ASSUME NEW type \in FmuTypes
    PROVE  CollectionOf(type) \in Collections
  BY DEF CollectionOf, Collections, modelCollection, slaveCollection, instanceCollection

LEMMA CollectionOfClassType ==
    ASSUME NEW class \in Classes
    PROVE  CollectionOfClass(class) \in Collections
  BY DEF CollectionOfClass, Collections, modelCollection, slaveCollection, instanceCollection

LEMMA IdentifierType ==
    ASSUME NEW dir \in Dirs
    PROVE  /\ IdentifierOf(dir) \in Range(Identifiers[dir])
           /\ Range(Identifiers[dir]) \subseteq Nat
  <1>1. Identifiers[dir] \in Seq(Nat) /\ Identifiers[dir] # <<>>
    BY ModelManagerAssumption
  <1>2. 1 \in DOMAIN Identifiers[dir]
    BY <1>1
  <1> QED BY <1>1, <1>2 DEF IdentifierOf, Range

LEMMA GetType ==
    ASSUME CollectionsTyped, NEW k \in Collections, NEW id
    PROVE  /\ Get(collections, k, id) \in BareFmu \cup {Null}
           /\ id \in DOMAIN collections[k] =>
                Get(collections, k, id) = [identifier |-> id, dir |-> collections[k][id]]
  BY DEF CollectionsTyped, Get, BareFmu

(* A bare FMU is not the null pointer.                                     *)
LEMMA GetNotNull ==
    ASSUME CollectionsTyped, NEW k \in Collections, NEW id
    PROVE  Get(collections, k, id) # Null <=> id \in DOMAIN collections[k]
  <1>1. ASSUME id \in DOMAIN collections[k]
        PROVE  Get(collections, k, id) \in [identifier : Nat, dir : Dirs]
    BY <1>1 DEF Get, CollectionsTyped
  <1> QED BY <1>1, ModelManagerAssumption DEF Get

(* The type getTypeOfLoadedFMU() reports is that of the FMU, in whichever  *)
(* collection it is.                                                       *)
LEMMA TypeOfLoadedIs ==
    ASSUME LoadedFmusUsable, NEW k \in Collections, NEW id \in DOMAIN collections[k]
    PROVE  TypeOfLoaded(id) = FmuType[collections[k][id]]
  <1> DEFINE first == CHOOSE j \in Collections :
                          /\ id \in DOMAIN collections[j]
                          /\ \A i \in 1 .. j - 1 : id \notin DOMAIN collections[i]
  <1>1. \A j \in Collections : id \in DOMAIN collections[j] => j = k
    BY DEF LoadedFmusUsable
  <1>2. \A i \in 1 .. k - 1 : i \in Collections /\ i # k
    BY DEF Collections
  <1>3. first = k
    BY <1>1, <1>2
  <1> QED BY <1>3 DEF TypeOfLoaded

-----------------------------------------------------------------------------
(* What a call of the manager can do to the collections: nothing, insert   *)
(* one FMU under a new identifier, or remove some that nobody uses.        *)

Loads(id, dir) ==
    /\ dir \in Dirs
    /\ id \in Range(Identifiers[dir])
    /\ ~Loaded(id)
    /\ Description[dir] = "valid"
    /\ Library[dir] = "complete"
    /\ collections' = Insert(dir, id)

LEMMA InsertEffect ==
    ASSUME CollectionsTyped, LoadedFmusUsable, NEW id, NEW dir, Loads(id, dir)
    PROVE  /\ CollectionsTyped'
           /\ LoadedFmusUsable'
           /\ \A k \in Collections : \A x \in DOMAIN collections[k] :
                x \in DOMAIN collections'[k] /\ collections'[k][x] = collections[k][x]
           /\ \A k \in Collections : \A x \in DOMAIN collections'[k] :
                x \notin DOMAIN collections[k] =>
                    x = id /\ k = CollectionOf(FmuType[dir]) /\ collections'[k][x] = dir
           /\ id \in DOMAIN collections'[CollectionOf(FmuType[dir])]
  <1> DEFINE c == CollectionOf(FmuType[dir])
  <1>1. /\ dir \in Dirs
        /\ id \in Nat
        /\ c \in Collections
    BY IdentifierType, CollectionOfType, ModelManagerAssumption DEF Loads
  <1>2. /\ DOMAIN collections' = Collections
        /\ collections'[c] = [x \in DOMAIN collections[c] \cup {id} |->
                                IF x = id THEN dir ELSE collections[c][x]]
        /\ \A k \in Collections : k # c => collections'[k] = collections[k]
    BY <1>1 DEF Loads, Insert, CollectionsTyped
  <1>3. \A k \in Collections : id \notin DOMAIN collections[k]
    BY DEF Loads, Loaded
  <1> HIDE DEF c
  <1>4. CollectionsTyped'
    <2>1. SUFFICES ASSUME NEW k \in Collections
                   PROVE  /\ DOMAIN collections'[k] \subseteq Nat
                          /\ collections'[k] \in [DOMAIN collections'[k] -> Dirs]
      BY <1>2 DEF CollectionsTyped
    <2>2. CASE k = c
      BY <1>1, <1>2, <2>2 DEF CollectionsTyped
    <2>3. CASE k # c
      BY <1>2, <2>3 DEF CollectionsTyped
    <2> QED BY <2>2, <2>3
  <1>5. \A k \in Collections : \A x \in DOMAIN collections[k] :
          x \in DOMAIN collections'[k] /\ collections'[k][x] = collections[k][x]
    BY <1>2, <1>3
  <1>6. \A k \in Collections : \A x \in DOMAIN collections'[k] :
          x \notin DOMAIN collections[k] => x = id /\ k = c /\ collections'[k][x] = dir
    BY <1>2
  <1>7. LoadedFmusUsable'
    <2>1. SUFFICES ASSUME NEW k \in Collections, NEW x \in DOMAIN collections'[k]
                   PROVE  /\ Description[collections'[k][x]] = "valid"
                          /\ Library[collections'[k][x]] = "complete"
                          /\ x \in Range(Identifiers[collections'[k][x]])
                          /\ k = CollectionOf(FmuType[collections'[k][x]])
                          /\ \A j \in Collections : x \in DOMAIN collections'[j] => j = k
      BY DEF LoadedFmusUsable
    <2>2. CASE x \in DOMAIN collections[k]
      <3>1. x # id
        BY <1>3, <2>2
      <3>2. collections'[k][x] = collections[k][x]
        BY <1>5, <2>2
      <3>3. \A j \in Collections : x \in DOMAIN collections'[j] => x \in DOMAIN collections[j]
        BY <1>6, <3>1
      <3> QED BY <2>2, <3>2, <3>3 DEF LoadedFmusUsable
    <2>3. CASE x \notin DOMAIN collections[k]
      <3>1. x = id /\ k = c /\ collections'[k][x] = dir
        BY <1>6, <2>3
      <3>2. \A j \in Collections : x \in DOMAIN collections'[j] => j = k
        BY <1>3, <1>6, <3>1
      <3> QED BY <3>1, <3>2 DEF Loads, c
    <2> QED BY <2>2, <2>3
  <1>8. id \in DOMAIN collections'[c]
    BY <1>2
  <1> QED BY <1>4, <1>5, <1>6, <1>7, <1>8 DEF c

Removes ==
    /\ DOMAIN collections' = Collections
    /\ \A k \in Collections :
         /\ DOMAIN collections'[k] \subseteq DOMAIN collections[k]
         /\ collections'[k] = Restrict(collections[k], DOMAIN collections'[k])
         /\ \A id \in DOMAIN collections[k] : InUse(k, id) => id \in DOMAIN collections'[k]

LEMMA RemoveEffect ==
    ASSUME CollectionsTyped, LoadedFmusUsable, Removes
    PROVE  /\ CollectionsTyped'
           /\ LoadedFmusUsable'
           /\ \A k \in Collections : \A x \in DOMAIN collections'[k] :
                x \in DOMAIN collections[k] /\ collections'[k][x] = collections[k][x]
  <1>1. \A k \in Collections : \A x \in DOMAIN collections'[k] :
          x \in DOMAIN collections[k] /\ collections'[k][x] = collections[k][x]
    BY DEF Removes, Restrict
  <1>2. CollectionsTyped'
    BY <1>1 DEF Removes, Restrict, CollectionsTyped
  <1>3. LoadedFmusUsable'
    <2>1. SUFFICES ASSUME NEW k \in Collections, NEW x \in DOMAIN collections'[k]
                   PROVE  /\ Description[collections'[k][x]] = "valid"
                          /\ Library[collections'[k][x]] = "complete"
                          /\ x \in Range(Identifiers[collections'[k][x]])
                          /\ k = CollectionOf(FmuType[collections'[k][x]])
                          /\ \A j \in Collections : x \in DOMAIN collections'[j] => j = k
      BY DEF LoadedFmusUsable
    <2> QED BY <1>1, <2>1 DEF LoadedFmusUsable
  <1> QED BY <1>1, <1>2, <1>3

LEMMA LoadFmuEffect ==
    ASSUME NEW dir \in Dirs, LoadFMU(dir)
    PROVE  UNCHANGED collections \/ Loads(IdentifierOf(dir), dir)
  <1>1. CASE StatusOfLoad(dir) = "success"
    <2>1. Description[dir] = "valid" /\ Library[dir] = "complete" /\ ~Loaded(IdentifierOf(dir))
      BY <1>1, ModelManagerAssumption
         DEF StatusOfLoad, StatusOfDescription, StatusOfLibrary, Descriptions, Libraries
    <2> QED BY <1>1, <2>1, IdentifierType DEF LoadFMU, CollectionsAfterLoad, Loads
  <1>2. CASE StatusOfLoad(dir) # "success"
    BY <1>2 DEF LoadFMU, CollectionsAfterLoad
  <1> QED BY <1>1, <1>2

LEMMA LoadFmuAsEffect ==
    ASSUME NEW dir \in Dirs, NEW id, LoadFMUAs(id, dir)
    PROVE  UNCHANGED collections \/ Loads(id, dir)
  <1>1. CASE ~(Loaded(id) \/ StatusOfDescription(dir) # "success" \/ id \notin Range(Identifiers[dir]))
             /\ StatusOfLibrary(dir) = "success"
    <2>1. Description[dir] = "valid" /\ Library[dir] = "complete"
      BY <1>1, ModelManagerAssumption DEF StatusOfDescription, StatusOfLibrary, Descriptions, Libraries
    <2> QED BY <1>1, <2>1 DEF LoadFMUAs, Loads
  <1>2. CASE ~(~(Loaded(id) \/ StatusOfDescription(dir) # "success" \/ id \notin Range(Identifiers[dir]))
             /\ StatusOfLibrary(dir) = "success")
    BY <1>2 DEF LoadFMUAs
  <1> QED BY <1>1, <1>2

LEMMA UnloadEffect ==
    ASSUME CollectionsTyped, NEW id, UnloadFMU(id)
    PROVE  Removes
  <1>1. SUFFICES ASSUME NEW k \in Collections
                 PROVE  /\ DOMAIN collections'[k] \subseteq DOMAIN collections[k]
                        /\ collections'[k] = Restrict(collections[k], DOMAIN collections'[k])
                        /\ \A x \in DOMAIN collections[k] : InUse(k, x) => x \in DOMAIN collections'[k]
    BY DEF UnloadFMU, Removes
  <1>2. CASE UnloadsFrom(k, id)
    <2>1. collections'[k] = Restrict(collections[k], DOMAIN collections[k] \ {id})
      BY <1>2 DEF UnloadFMU
    <2>2. DOMAIN collections'[k] = DOMAIN collections[k] \ {id}
      BY <2>1 DEF Restrict
    <2>3. ~InUse(k, id)
      BY <1>2 DEF UnloadsFrom
    <2> QED BY <2>1, <2>2, <2>3
  <1>3. CASE ~UnloadsFrom(k, id)
    <2>1. collections'[k] = collections[k]
      BY <1>3 DEF UnloadFMU
    <2> QED BY <2>1 DEF Restrict, CollectionsTyped
  <1> QED BY <1>2, <1>3

LEMMA UnloadAllEffect ==
    ASSUME CollectionsTyped, UnloadAllFMUs
    PROVE  Removes
  <1>1. SUFFICES ASSUME NEW k \in Collections
                 PROVE  /\ DOMAIN collections'[k] \subseteq DOMAIN collections[k]
                        /\ collections'[k] = Restrict(collections[k], DOMAIN collections'[k])
                        /\ \A x \in DOMAIN collections[k] : InUse(k, x) => x \in DOMAIN collections'[k]
    BY DEF UnloadAllFMUs, Removes
  <1>2. collections'[k] = Restrict(collections[k], {x \in DOMAIN collections[k] : StopsBefore(k, x)})
    BY DEF UnloadAllFMUs
  <1>3. DOMAIN collections'[k] = {x \in DOMAIN collections[k] : StopsBefore(k, x)}
    BY <1>2 DEF Restrict
  <1>4. ASSUME NEW x \in DOMAIN collections[k], InUse(k, x)
        PROVE  StopsBefore(k, x)
    <2>1. x \in Nat
      BY DEF CollectionsTyped
    <2>2. Comes(k, x, k, x)
      BY <2>1 DEF Comes
    <2> QED BY <1>4, <2>2 DEF StopsBefore
  <1> QED BY <1>2, <1>3, <1>4

(* The manager's part of every step of a program.                          *)
ManagerStep ==
    \/ UNCHANGED collections
    \/ \E id, dir : Loads(id, dir)
    \/ Removes /\ UNCHANGED <<fmu_, object>>

LEMMA StepOfManager ==
    ASSUME CollectionsTyped, Next
    PROVE  ManagerStep
  <1>1. ASSUME NEW o \in Objects, NEW class \in Classes, NEW dir \in Dirs,
               ConstructFromDirectory(o, class, dir)
        PROVE  ManagerStep
    BY <1>1, LoadFmuEffect DEF ConstructFromDirectory, ManagerStep
  <1>2. ASSUME NEW o \in Objects, NEW class \in Classes, NEW id \in ModelIdentifiers,
               ConstructByIdentifier(o, class, id)
        PROVE  ManagerStep
    BY <1>2 DEF ConstructByIdentifier, ManagerStep
  <1>3. ASSUME NEW o \in Objects, NEW original \in Objects, Copy(o, original)
        PROVE  ManagerStep
    BY <1>3 DEF Copy, ManagerStep
  <1>4. ASSUME NEW o \in Objects, Destroy(o)
        PROVE  ManagerStep
    BY <1>4 DEF Destroy, ManagerStep
  <1>5. ASSUME NEW dir \in Dirs, Load(dir)
        PROVE  ManagerStep
    BY <1>5, LoadFmuEffect DEF Load, ManagerStep
  <1>6. ASSUME NEW id \in ModelIdentifiers, NEW dir \in Dirs, LoadAs(id, dir)
        PROVE  ManagerStep
    BY <1>6, LoadFmuAsEffect DEF LoadAs, ManagerStep
  <1>7. ASSUME NEW id \in ModelIdentifiers, Unload(id)
        PROVE  ManagerStep
    BY <1>7, UnloadEffect DEF Unload, ManagerStep
  <1>8. CASE UnloadAll
    BY <1>8, UnloadAllEffect DEF UnloadAll, ManagerStep
  <1>9. CASE Gone
    BY <1>9 DEF Gone, ManagerStep, objectVars, managerVars
  <1> QED BY <1>1, <1>2, <1>3, <1>4, <1>5, <1>6, <1>7, <1>8, <1>9 DEF Next

-----------------------------------------------------------------------------
(* What a step does to the FMUs the objects have.                          *)

(* The FMUs in the collections that somebody uses stay as they are.        *)
LEMMA UsedFmusStay ==
    ASSUME CollectionsTyped, LoadedFmusUsable, ManagerStep
    PROVE  /\ CollectionsTyped'
           /\ LoadedFmusUsable'
           /\ \A k \in Collections : \A id \in DOMAIN collections[k] :
                InUse(k, id) => Get(collections', k, id) = Get(collections, k, id)
  <1>1. CASE UNCHANGED collections
    BY <1>1 DEF CollectionsTyped, LoadedFmusUsable
  <1>2. ASSUME NEW id, NEW dir, Loads(id, dir)
        PROVE  /\ CollectionsTyped'
               /\ LoadedFmusUsable'
               /\ \A k \in Collections : \A x \in DOMAIN collections[k] :
                    Get(collections', k, x) = Get(collections, k, x)
    BY <1>2, InsertEffect DEF Get
  <1>3. CASE Removes
    <2>1. \A k \in Collections : \A id \in DOMAIN collections[k] :
            InUse(k, id) => id \in DOMAIN collections'[k]
      BY <1>3 DEF Removes
    <2> QED BY <1>3, <2>1, RemoveEffect DEF Get
  <1> QED BY <1>1, <1>2, <1>3 DEF ManagerStep

(* After a step an object has no FMU, one that some object had before the  *)
(* step, or one that is in a collection.                                   *)
Inherits(o) ==
    \E p \in Objects : object[p] # Null /\ fmu_'[o] = fmu_[p] /\ object'[o] = object[p]

Obtains(o) ==
    /\ object'[o] \in ObjectRecord
    /\ fmu_'[o] = Null \/ \E k \in Collections, id \in Nat : fmu_'[o] = Get(collections', k, id)
    /\ object'[o].from = "directory" /\ fmu_'[o] # Null =>
         FmuType[fmu_'[o].dir] \in AcceptedTypes(object'[o].class)

LEMMA ConstructedFits ==
    ASSUME CollectionsTyped, LoadedFmusUsable, process = "running",
           NEW dir \in Dirs, LoadFMU(dir), process' = "running",
           NEW k \in Collections, IdentifierOf(dir) \in DOMAIN collections'[k],
           StatusOfLoad(dir) \in {"success", "duplicate"}
    PROVE  FmuType[collections'[k][IdentifierOf(dir)]] = FmuType[dir]
  <1>1. CASE Loaded(IdentifierOf(dir))
    <2>0. Description[dir] = "valid"
      <3>1. StatusOfDescription(dir) # "success" => StatusOfLoad(dir) = StatusOfDescription(dir)
        BY DEF StatusOfLoad
      <3>2. StatusOfDescription(dir) \in {"description_invalid_uri", "description_invalid", "success"}
        BY DEF StatusOfDescription
      <3>3. StatusOfDescription(dir) = "success"
        BY <3>1, <3>2
      <3> QED BY <3>3, ModelManagerAssumption DEF StatusOfDescription, Descriptions
    <2>1. StatusOfDescription(dir) = "success" /\ StatusOfLoad(dir) # "success"
      BY <1>1, <2>0 DEF StatusOfLoad, StatusOfDescription
    <2>2. Consistent(dir)
      <3>1. SUFFICES ASSUME ~Consistent(dir)
                     PROVE  process' = "aborted"
        OBVIOUS
      <3> QED BY <2>1, <3>1 DEF LoadFMU, ProcessAfterLoad
    <2>3. UNCHANGED collections
      BY <2>1 DEF LoadFMU, CollectionsAfterLoad
    <2>4. TypeOfLoaded(IdentifierOf(dir)) = FmuType[collections[k][IdentifierOf(dir)]]
      BY <2>3, TypeOfLoadedIs
    <2> QED BY <1>1, <2>2, <2>3, <2>4 DEF Consistent
  <1>2. CASE ~Loaded(IdentifierOf(dir))
    <2>1. IdentifierOf(dir) \notin DOMAIN collections[k]
      BY <1>2 DEF Loaded
    <2>2. Loads(IdentifierOf(dir), dir)
      BY <2>1, LoadFmuEffect
    <2> QED BY <2>1, <2>2, InsertEffect
  <1> QED BY <1>1, <1>2

LEMMA ObjectStep ==
    ASSUME TypeOK, LoadedFmusUsable, Next
    PROVE  /\ \A o \in Objects :
              \/ object'[o] = Null /\ fmu_'[o] = Null
              \/ fmu_'[o] = fmu_[o] /\ object'[o] = object[o]
              \/ Inherits(o)
              \/ Obtains(o)
           /\ fmu_' \in [Objects -> BareFmu \cup {Null}]
           /\ object' \in [Objects -> ObjectRecord \cup {Null}]
  <1> DEFINE Typed ==
          /\ fmu_' \in [Objects -> BareFmu \cup {Null}]
          /\ object' \in [Objects -> ObjectRecord \cup {Null}]
  <1> DEFINE Same(o) == fmu_'[o] = fmu_[o] /\ object'[o] = object[o]
  <1> DEFINE Nothing(o) == object'[o] = Null /\ fmu_'[o] = Null
  <1>0. CollectionsTyped /\ CollectionsTyped'
    <2>1. CollectionsTyped
      BY DEF TypeOK, ManagerTypeOK, CollectionsTyped
    <2> QED BY <2>1, StepOfManager, UsedFmusStay
  <1>1. ASSUME NEW x \in Objects, NEW class \in Classes, NEW dir \in Dirs,
               ConstructFromDirectory(x, class, dir)
        PROVE  Typed /\ \A o \in Objects : Same(o) \/ Obtains(o)
    <2>1. CASE process' # "running"
      BY <1>1, <2>1 DEF ConstructFromDirectory, TypeOK, ManagerTypeOK
    <2>2. CASE process' = "running"
      <3> DEFINE got == Get(collections', CollectionOfClass(class), IdentifierOf(dir))
      <3> DEFINE value == [class |-> class, from |-> "directory"]
      <3> DEFINE accepted == /\ StatusOfLoad(dir) \in {"success", "duplicate"}
                             /\ FmuType[dir] \in AcceptedTypes(class)
      <3>1. /\ object' = [object EXCEPT ![x] = value]
            /\ fmu_' = [fmu_ EXCEPT ![x] = IF accepted THEN got ELSE Null]
        BY <1>1, <2>2 DEF ConstructFromDirectory
      <3>2. CollectionOfClass(class) \in Collections /\ IdentifierOf(dir) \in Nat
        BY CollectionOfClassType, IdentifierType
      <3>3. got \in BareFmu \cup {Null}
        BY <1>0, <3>2 DEF Get, CollectionsTyped, BareFmu
      <3>4. value \in ObjectRecord
        BY DEF ObjectRecord
      <3>5. accepted /\ got # Null => FmuType[got.dir] \in AcceptedTypes(class)
        <4>1. SUFFICES ASSUME accepted, got # Null
                       PROVE  FmuType[got.dir] \in AcceptedTypes(class)
          OBVIOUS
        <4>2. IdentifierOf(dir) \in DOMAIN collections'[CollectionOfClass(class)]
          BY <4>1 DEF Get
        <4>3. got.dir = collections'[CollectionOfClass(class)][IdentifierOf(dir)]
          BY <4>2 DEF Get
        <4>4. FmuType[got.dir] = FmuType[dir]
          BY <1>0, <1>1, <2>2, <3>2, <4>1, <4>2, <4>3, ConstructedFits
             DEF ConstructFromDirectory
        <4> QED BY <4>1, <4>4
      <3> HIDE DEF got, value, accepted
      <3>6. Typed
        BY <3>1, <3>3, <3>4 DEF TypeOK, ManagerTypeOK
      <3>7. ASSUME NEW o \in Objects, o = x
            PROVE  Obtains(o)
        <4>1. object'[o] = value /\ fmu_'[o] = IF accepted THEN got ELSE Null
          BY <3>1, <3>7 DEF TypeOK, ManagerTypeOK
        <4>2. fmu_'[o] = Null \/ \E k \in Collections, id \in Nat : fmu_'[o] = Get(collections', k, id)
          BY <3>2, <4>1 DEF got
        <4>3. value.class = class
          BY DEF value
        <4> QED BY <3>4, <3>5, <4>1, <4>2, <4>3 DEF Obtains
      <3>8. ASSUME NEW o \in Objects, o # x
            PROVE  Same(o)
        BY <3>1, <3>8 DEF TypeOK, ManagerTypeOK
      <3> QED BY <3>6, <3>7, <3>8
    <2> QED BY <2>1, <2>2 DEF ConstructFromDirectory, TypeOK, ManagerTypeOK
  <1>2. ASSUME NEW x \in Objects, NEW class \in Classes, NEW id \in ModelIdentifiers,
               ConstructByIdentifier(x, class, id)
        PROVE  Typed /\ \A o \in Objects : Same(o) \/ Obtains(o)
    <2> DEFINE got == Get(collections, CollectionOfClass(class), id)
    <2> DEFINE value == [class |-> class, from |-> "identifier"]
    <2>1. /\ object' = [object EXCEPT ![x] = value]
          /\ fmu_' = [fmu_ EXCEPT ![x] = got]
          /\ UNCHANGED collections
      BY <1>2 DEF ConstructByIdentifier
    <2>2. CollectionOfClass(class) \in Collections /\ id \in Nat
      BY CollectionOfClassType, IdentifierType DEF ModelIdentifiers
    <2>3. got \in BareFmu \cup {Null}
      BY <1>0, <2>2, GetType
    <2>4. value \in ObjectRecord /\ value.from # "directory"
      BY DEF ObjectRecord
    <2>5. got = Get(collections', CollectionOfClass(class), id)
      BY <2>1 DEF Get
    <2> HIDE DEF got, value
    <2>6. Typed
      BY <2>1, <2>3, <2>4 DEF TypeOK, ManagerTypeOK
    <2>7. ASSUME NEW o \in Objects, o = x
          PROVE  Obtains(o)
      <3>1. object'[o] = value /\ fmu_'[o] = got
        BY <2>1, <2>7 DEF TypeOK, ManagerTypeOK
      <3> QED BY <2>2, <2>4, <2>5, <3>1 DEF Obtains
    <2>8. ASSUME NEW o \in Objects, o # x
          PROVE  Same(o)
      BY <2>1, <2>8 DEF TypeOK, ManagerTypeOK
    <2> QED BY <2>6, <2>7, <2>8
  <1>3. ASSUME NEW x \in Objects, NEW original \in Objects, Copy(x, original)
        PROVE  Typed /\ \A o \in Objects : Same(o) \/ Inherits(o)
    <2>1. /\ object' = [object EXCEPT ![x] = object[original]]
          /\ fmu_' = [fmu_ EXCEPT ![x] = fmu_[original]]
          /\ object[original] # Null
      BY <1>3 DEF Copy
    <2> QED BY <2>1 DEF TypeOK, ManagerTypeOK, Inherits
  <1>4. ASSUME NEW x \in Objects, Destroy(x)
        PROVE  Typed /\ \A o \in Objects : Same(o) \/ Nothing(o)
    BY <1>4 DEF Destroy, TypeOK, ManagerTypeOK
  <1>5. ASSUME UNCHANGED <<fmu_, object>>
        PROVE  Typed /\ \A o \in Objects : Same(o)
    BY <1>5 DEF TypeOK, ManagerTypeOK
  <1>6. ASSUME NEW dir \in Dirs, Load(dir)
        PROVE  UNCHANGED <<fmu_, object>>
    BY <1>6 DEF Load
  <1>7. ASSUME NEW id \in ModelIdentifiers, NEW dir \in Dirs, LoadAs(id, dir)
        PROVE  UNCHANGED <<fmu_, object>>
    BY <1>7 DEF LoadAs
  <1>8. ASSUME NEW id \in ModelIdentifiers, Unload(id)
        PROVE  UNCHANGED <<fmu_, object>>
    BY <1>8 DEF Unload
  <1>9. ASSUME UnloadAll \/ Gone
        PROVE  UNCHANGED <<fmu_, object>>
    BY <1>9 DEF UnloadAll, Gone, objectVars, managerVars
  <1> QED BY <1>1, <1>2, <1>3, <1>4, <1>5, <1>6, <1>7, <1>8, <1>9 DEF Next

LEMMA ProcessStep ==
    ASSUME process \in {"running", "aborted", "crashed"}, Next
    PROVE  process' \in {"running", "aborted", "crashed"}
  <1>1. ASSUME NEW dir \in Dirs, LoadFMU(dir)
        PROVE  process' \in {"running", "aborted", "crashed"}
    BY <1>1 DEF LoadFMU, ProcessAfterLoad, ProcessAfterLibrary
  <1>2. ASSUME NEW id, NEW dir, LoadFMUAs(id, dir)
        PROVE  process' \in {"running", "aborted", "crashed"}
    BY <1>2 DEF LoadFMUAs, ProcessAfterLibrary
  <1> QED
    BY <1>1, <1>2 DEF Next, ConstructFromDirectory, ConstructByIdentifier, Copy, Destroy, Load,
       LoadAs, Unload, UnloadFMU, UnloadAll, UnloadAllFMUs, Gone, objectVars, managerVars

-----------------------------------------------------------------------------
(* The inductive invariant.                                                *)

LEMMA ObjectsInvInit == Init => ObjectsInv
  <1> SUFFICES ASSUME Init PROVE ObjectsInv
    OBVIOUS
  <1>1. \A k \in Collections : DOMAIN collections[k] = {}
    BY DEF Init, ManagerInit
  <1>2. TypeOK
    BY <1>1 DEF Init, ManagerInit, TypeOK, ManagerTypeOK
  <1>3. LoadedFmusUsable
    BY <1>1 DEF LoadedFmusUsable
  <1>4. HeldFmusStay /\ ObjectsFitTheirFmu
    BY DEF Init, ManagerInit, HeldFmusStay, ObjectsFitTheirFmu
  <1> QED BY <1>2, <1>3, <1>4 DEF ObjectsInv

LEMMA ObjectsInvNext == ObjectsInv /\ [Next]_objectVars => ObjectsInv'
  <1> SUFFICES ASSUME ObjectsInv, [Next]_objectVars
               PROVE  ObjectsInv'
    OBVIOUS
  <1>1. CASE UNCHANGED objectVars
    BY <1>1 DEF ObjectsInv, TypeOK, ManagerTypeOK, LoadedFmusUsable, HeldFmusStay,
       ObjectsFitTheirFmu, Get, objectVars, managerVars
  <1>2. CASE Next
    <2>0. TypeOK /\ LoadedFmusUsable /\ HeldFmusStay /\ ObjectsFitTheirFmu /\ CollectionsTyped
      BY DEF ObjectsInv, TypeOK, ManagerTypeOK, CollectionsTyped
    <2>1. /\ CollectionsTyped'
          /\ LoadedFmusUsable'
          /\ \A k \in Collections : \A id \in DOMAIN collections[k] :
               InUse(k, id) => Get(collections', k, id) = Get(collections, k, id)
      BY <1>2, <2>0, StepOfManager, UsedFmusStay
    <2>2. ASSUME NEW p \in Objects, fmu_[p] # Null
          PROVE  \E k \in Collections : fmu_[p] = Get(collections', k, fmu_[p].identifier)
      <3>1. PICK k \in Collections : fmu_[p] = Get(collections, k, fmu_[p].identifier)
        BY <2>0, <2>2 DEF HeldFmusStay
      <3>2. fmu_[p].identifier \in DOMAIN collections[k] /\ InUse(k, fmu_[p].identifier)
        BY <2>0, <2>2, <3>1, GetNotNull DEF InUse
      <3> QED BY <2>1, <3>1, <3>2
    <2>3. TypeOK'
      <3>1. ManagerTypeOK'
        BY <1>2, <2>0, <2>1, ObjectStep, ProcessStep DEF TypeOK, ManagerTypeOK, CollectionsTyped
      <3>2. object' \in [Objects -> ObjectRecord \cup {Null}]
        BY <1>2, <2>0, ObjectStep
      <3>3. ASSUME NEW o \in Objects, object'[o] = Null
            PROVE  fmu_'[o] = Null
        BY <1>2, <2>0, <3>3, ObjectStep, FmuObjectsAssumption DEF TypeOK, Inherits, Obtains
      <3> QED BY <3>1, <3>2, <3>3 DEF TypeOK
    <2>4. HeldFmusStay'
      <3>1. SUFFICES ASSUME NEW o \in Objects, fmu_'[o] # Null
                     PROVE  \E k \in Collections :
                              fmu_'[o] = Get(collections', k, fmu_'[o].identifier)
        BY DEF HeldFmusStay, Get
      <3>2. CASE Obtains(o)
        <4>1. PICK k \in Collections, id \in Nat : fmu_'[o] = Get(collections', k, id)
          BY <3>1, <3>2 DEF Obtains
        <4>2. fmu_'[o].identifier = id
          BY <3>1, <4>1 DEF Get
        <4> QED BY <4>1, <4>2
      <3>3. CASE Inherits(o)
        <4>1. PICK p \in Objects : fmu_'[o] = fmu_[p]
          BY <3>3 DEF Inherits
        <4> QED BY <2>2, <3>1, <4>1
      <3>4. CASE fmu_'[o] = fmu_[o]
        BY <2>2, <3>1, <3>4
      <3> QED BY <1>2, <2>0, <3>1, <3>2, <3>3, <3>4, ObjectStep
    <2>5. ObjectsFitTheirFmu'
      <3>1. SUFFICES ASSUME NEW o \in Objects, fmu_'[o] # Null, object'[o].from = "directory"
                     PROVE  FmuType[fmu_'[o].dir] \in AcceptedTypes(object'[o].class)
        BY DEF ObjectsFitTheirFmu
      <3>2. CASE Obtains(o)
        BY <3>1, <3>2 DEF Obtains
      <3>3. CASE Inherits(o)
        <4>1. PICK p \in Objects : fmu_'[o] = fmu_[p] /\ object'[o] = object[p]
          BY <3>3 DEF Inherits
        <4> QED BY <2>0, <3>1, <4>1 DEF ObjectsFitTheirFmu
      <3>4. CASE fmu_'[o] = fmu_[o] /\ object'[o] = object[o]
        BY <2>0, <3>1, <3>4 DEF ObjectsFitTheirFmu
      <3> QED BY <1>2, <2>0, <3>1, <3>2, <3>3, <3>4, ObjectStep
    <2> QED BY <2>1, <2>3, <2>4, <2>5 DEF ObjectsInv
  <1> QED BY <1>1, <1>2

LEMMA ObjectsInvAlways == Spec => []ObjectsInv
  BY ObjectsInvInit, ObjectsInvNext, PTL DEF Spec

(* The program, the collections and the objects always have their types,   *)
(* and an object that does not exist has no FMU (ModelManager.h).          *)
THEOREM ObjectsTypeCorrect == Spec => []TypeOK
  BY ObjectsInvAlways, PTL DEF ObjectsInv

(* No sequence of calls of loadFMU(), unloadFMU() and unloadAllFMUs() by   *)
(* any number of objects takes an FMU away from an object or exchanges it  *)
(* (ModelManager.cpp, unloadFMU, unloadAllFMUs).                           *)
THEOREM ObjectsKeepTheirFmu == Spec => []HeldFmusStay
  BY ObjectsInvAlways, PTL DEF ObjectsInv

(* Whatever was loaded, the manager has only FMUs it could load, each in   *)
(* the collection of its type and in no other (ModelManager.cpp,           *)
(* loadBareFMU), so that a search for an identifier is unambiguous.        *)
THEOREM CollectionsAreUnambiguous == Spec => []LoadedFmusUsable
  BY ObjectsInvAlways, PTL DEF ObjectsInv

(* An object constructed from a directory never has an FMU of a type that  *)
(* its class cannot drive (constructors of FMUModelExchange_v1/v2 and      *)
(* FMUCoSimulation_v1/v2), also when another FMU of the same identifier    *)
(* was loaded before.                                                      *)
THEOREM ObjectsDriveTheirFmu == Spec => []ObjectsFitTheirFmu
  BY ObjectsInvAlways, PTL DEF ObjectsInv

-----------------------------------------------------------------------------
(* Refinement of the registry.                                             *)

LEMMA LoadedFmusIs ==
    ASSUME NEW fmu
    PROVE  fmu \in LoadedFmus <=>
             \E k \in Collections : \E id \in DOMAIN collections[k] :
                fmu = [identifier |-> id, dir |-> collections[k][id]]
  BY DEF LoadedFmus, Get

LEMMA LoadedFmusIsNext ==
    ASSUME NEW fmu
    PROVE  fmu \in LoadedFmus' <=>
             \E k \in Collections : \E id \in DOMAIN collections'[k] :
                fmu = [identifier |-> id, dir |-> collections'[k][id]]
  BY DEF LoadedFmus, Get

(* Every FMU that is loaded is one of those that can be.                   *)
LEMMA LoadedAreLoadable ==
    ASSUME CollectionsTyped', LoadedFmusUsable'
    PROVE  LoadedFmus' \subseteq LoadableFmus
  <1>1. SUFFICES ASSUME NEW fmu \in LoadedFmus'
                 PROVE  fmu \in LoadableFmus
    OBVIOUS
  <1>2. PICK k, id :
          /\ k \in Collections
          /\ id \in DOMAIN collections'[k]
          /\ fmu = [identifier |-> id, dir |-> collections'[k][id]]
    BY LoadedFmusIsNext
  <1>3. collections'[k][id] \in Dirs /\ id \in Range(Identifiers[collections'[k][id]])
    BY <1>2 DEF CollectionsTyped, LoadedFmusUsable
  <1> QED BY <1>2, <1>3 DEF LoadableFmus

(* loadFMU() adds one FMU, under an identifier no other FMU has.           *)
LEMMA LoadAdds ==
    ASSUME CollectionsTyped, LoadedFmusUsable, NEW id, NEW dir, Loads(id, dir)
    PROVE  /\ Registry!Add([identifier |-> id, dir |-> dir])
           /\ [identifier |-> id, dir |-> dir] \in LoadableFmus
           /\ \A k \in Collections :
                id \in DOMAIN collections'[k] =>
                    Get(collections', k, id) = [identifier |-> id, dir |-> dir]
  <1> DEFINE added == [identifier |-> id, dir |-> dir]
  <1>1. \A k \in Collections : id \notin DOMAIN collections[k]
    BY DEF Loads, Loaded
  <1>2. /\ \A k \in Collections : \A x \in DOMAIN collections[k] :
             x \in DOMAIN collections'[k] /\ collections'[k][x] = collections[k][x]
        /\ \A k \in Collections : \A x \in DOMAIN collections'[k] :
             x \notin DOMAIN collections[k] => x = id /\ collections'[k][x] = dir
        /\ \E k \in Collections : id \in DOMAIN collections'[k]
    <2>1. CollectionOf(FmuType[dir]) \in Collections
      BY CollectionOfType, ModelManagerAssumption DEF Loads
    <2> QED BY <2>1, InsertEffect
  <1>3. \A other \in LoadedFmus : other.identifier # added.identifier
    BY <1>1, LoadedFmusIs
  <1>4. \A k \in Collections : id \in DOMAIN collections'[k] => collections'[k][id] = dir
    BY <1>1, <1>2
  <1>5. ASSUME NEW fmu
        PROVE  fmu \in LoadedFmus' <=> fmu \in LoadedFmus \/ fmu = added
    <2>1. ASSUME fmu \in LoadedFmus
          PROVE  fmu \in LoadedFmus'
      BY <1>2, <2>1, LoadedFmusIs, LoadedFmusIsNext
    <2>2. added \in LoadedFmus'
      BY <1>2, <1>4, LoadedFmusIsNext
    <2>3. ASSUME fmu \in LoadedFmus', fmu \notin LoadedFmus
          PROVE  fmu = added
      <3>1. PICK k, x :
              /\ k \in Collections
              /\ x \in DOMAIN collections'[k]
              /\ fmu = [identifier |-> x, dir |-> collections'[k][x]]
        BY <2>3, LoadedFmusIsNext
      <3>2. x \notin DOMAIN collections[k]
        BY <1>2, <2>3, <3>1, LoadedFmusIs
      <3> QED BY <1>2, <3>1, <3>2
    <2> QED BY <2>1, <2>2, <2>3
  <1>6. LoadedFmus' = LoadedFmus \cup {added}
    BY <1>5
  <1>7. added \in LoadableFmus
    BY DEF Loads, LoadableFmus
  <1> QED BY <1>3, <1>4, <1>6, <1>7 DEF Registry!Add, Get

(* unloadFMU() and unloadAllFMUs() take out FMUs that nobody holds.        *)
LEMMA UnloadRemoves ==
    ASSUME CollectionsTyped, LoadedFmusUsable, Removes
    PROVE  \E fmus \in SUBSET LoadedFmus :
             (\A fmu \in fmus : ~Registry!Held(fmu)) /\ LoadedFmus' = LoadedFmus \ fmus
  <1> DEFINE fmus == LoadedFmus \ LoadedFmus'
  <1>1. ASSUME NEW fmu \in LoadedFmus'
        PROVE  fmu \in LoadedFmus
    BY RemoveEffect, LoadedFmusIs, LoadedFmusIsNext
  <1>2. ASSUME NEW fmu \in LoadedFmus, Registry!Held(fmu)
        PROVE  fmu \in LoadedFmus'
    <2>1. PICK k, id :
            /\ k \in Collections
            /\ id \in DOMAIN collections[k]
            /\ fmu = [identifier |-> id, dir |-> collections[k][id]]
      BY LoadedFmusIs
    <2>2. InUse(k, id)
      BY <1>2, <2>1 DEF Registry!Held, InUse, Get
    <2>3. id \in DOMAIN collections'[k]
      BY <2>1, <2>2 DEF Removes
    <2> QED BY <2>1, <2>3, RemoveEffect, LoadedFmusIsNext
  <1>3. LoadedFmus' = LoadedFmus \ fmus
    BY <1>1
  <1>4. \A fmu \in fmus : ~Registry!Held(fmu)
    BY <1>2
  <1> QED BY <1>3, <1>4

LEMMA RegistryInit == Init => Registry!Init
  <1> SUFFICES ASSUME Init PROVE Registry!Init
    OBVIOUS
  <1>1. \A k \in Collections : DOMAIN collections[k] = {}
    BY DEF Init, ManagerInit
  <1>2. LoadedFmus = {}
    BY <1>1, LoadedFmusIs
  <1> QED BY <1>2 DEF Init, ManagerInit, Registry!Init

LEMMA RegistryStep ==
    ObjectsInv /\ ObjectsInv' /\ [Next]_objectVars
        => [Registry!Next]_<<LoadedFmus, fmu_>>
  <1> SUFFICES ASSUME ObjectsInv, ObjectsInv', [Next]_objectVars
               PROVE  [Registry!Next]_<<LoadedFmus, fmu_>>
    OBVIOUS
  <1> DEFINE Mapped == [Registry!Next]_<<LoadedFmus, fmu_>>
  <1>1. /\ TypeOK /\ CollectionsTyped /\ LoadedFmusUsable
        /\ CollectionsTyped' /\ LoadedFmusUsable'
        /\ fmu_ \in [Objects -> BareFmu \cup {Null}]
        /\ \A o \in Objects : object[o] = Null => fmu_[o] = Null
    BY DEF ObjectsInv, TypeOK, ManagerTypeOK, CollectionsTyped
  <1>2. ASSUME UNCHANGED collections
        PROVE  UNCHANGED LoadedFmus
    BY <1>2 DEF LoadedFmus, Get
  <1>3. ASSUME ManagerStep, UNCHANGED fmu_
        PROVE  Mapped
    <2>1. CASE UNCHANGED collections
      BY <1>2, <1>3, <2>1
    <2>2. ASSUME NEW id, NEW dir, Loads(id, dir)
          PROVE  Mapped
      BY <1>1, <1>3, <2>2, LoadAdds DEF Registry!Next, Registry!Load
    <2>3. CASE Removes
      BY <1>1, <1>3, <2>3, UnloadRemoves DEF Registry!Next, Registry!Unload
    <2> QED BY <1>3, <2>1, <2>2, <2>3 DEF ManagerStep
  <1>4. ASSUME NEW o \in Objects, NEW fmu \in LoadedFmus',
               fmu_[o] = Null, fmu_' = [fmu_ EXCEPT ![o] = fmu],
               Registry!Add(fmu) \/ UNCHANGED LoadedFmus
        PROVE  Mapped
    <2>1. fmu \in LoadableFmus
      BY <1>1, <1>4, LoadedAreLoadable
    <2> QED BY <1>4, <2>1 DEF Registry!Next, Registry!Take
  <1>5. ASSUME NEW o \in Objects, NEW class \in Classes, NEW dir \in Dirs,
               ConstructFromDirectory(o, class, dir)
        PROVE  Mapped
    <2>0. ManagerStep
      BY <1>5, LoadFmuEffect DEF ConstructFromDirectory, ManagerStep
    <2>1. CASE UNCHANGED fmu_
      BY <1>3, <2>0, <2>1
    <2>2. CASE fmu_' # fmu_
      <3> DEFINE k == CollectionOfClass(class)
      <3> DEFINE got == Get(collections', k, IdentifierOf(dir))
      <3>1. /\ fmu_' = [fmu_ EXCEPT ![o] = got]
            /\ fmu_[o] = Null
        BY <1>1, <1>5, <2>2 DEF ConstructFromDirectory
      <3>2. got # Null
        BY <1>1, <2>2, <3>1
      <3>3. k \in Collections /\ IdentifierOf(dir) \in DOMAIN collections'[k]
        BY <3>2, CollectionOfClassType DEF Get
      <3>4. got \in LoadedFmus'
        BY <3>3 DEF LoadedFmus
      <3>5. Registry!Add(got) \/ UNCHANGED LoadedFmus
        <4>1. CASE UNCHANGED collections
          BY <1>2, <4>1
        <4>2. CASE Loads(IdentifierOf(dir), dir)
          BY <1>1, <3>3, <4>2, LoadAdds
        <4> QED BY <1>5, <4>1, <4>2, LoadFmuEffect DEF ConstructFromDirectory
      <3> HIDE DEF got
      <3> QED BY <1>4, <3>1, <3>4, <3>5
    <2> QED BY <2>1, <2>2
  <1>6. ASSUME NEW o \in Objects, NEW class \in Classes, NEW id \in ModelIdentifiers,
               ConstructByIdentifier(o, class, id)
        PROVE  Mapped
    <2> DEFINE got == Get(collections, CollectionOfClass(class), id)
    <2>1. /\ fmu_' = [fmu_ EXCEPT ![o] = got]
          /\ fmu_[o] = Null
          /\ UNCHANGED collections
      BY <1>1, <1>6 DEF ConstructByIdentifier
    <2>2. CASE got = Null
      BY <1>1, <1>3, <2>1, <2>2 DEF ManagerStep
    <2>3. CASE got # Null
      <3>1. got \in LoadedFmus
        BY <2>3, CollectionOfClassType DEF Get, LoadedFmus
      <3>2. UNCHANGED LoadedFmus
        BY <1>2, <2>1
      <3> HIDE DEF got
      <3> QED BY <1>4, <2>1, <3>1, <3>2
    <2> QED BY <2>2, <2>3
  <1>7. ASSUME NEW o \in Objects, NEW original \in Objects, Copy(o, original)
        PROVE  Mapped
    <2>1. /\ fmu_' = [fmu_ EXCEPT ![o] = fmu_[original]]
          /\ fmu_[o] = Null
          /\ UNCHANGED collections
      BY <1>1, <1>7 DEF Copy
    <2>2. CASE fmu_[original] = Null
      BY <1>1, <1>3, <2>1, <2>2 DEF ManagerStep
    <2>3. CASE fmu_[original] # Null
      <3>1. PICK k \in Collections :
              fmu_[original] = Get(collections, k, fmu_[original].identifier)
        BY <2>3 DEF ObjectsInv, HeldFmusStay
      <3>2. fmu_[original] \in LoadedFmus
        BY <2>3, <3>1 DEF Get, LoadedFmus
      <3>3. UNCHANGED LoadedFmus
        BY <1>2, <2>1
      <3> QED BY <1>4, <2>1, <3>2, <3>3
    <2> QED BY <2>2, <2>3
  <1>8. ASSUME NEW o \in Objects, Destroy(o)
        PROVE  Mapped
    <2>1. fmu_' = [fmu_ EXCEPT ![o] = Null] /\ UNCHANGED LoadedFmus
      BY <1>2, <1>8 DEF Destroy
    <2> QED BY <2>1 DEF Registry!Next, Registry!Release
  <1>9. ASSUME Next, UNCHANGED fmu_
        PROVE  Mapped
    BY <1>1, <1>3, <1>9, StepOfManager
  <1>10. CASE UNCHANGED objectVars
    BY <1>2, <1>10 DEF objectVars, managerVars
  <1>11. CASE Next
    <2>1. CASE UNCHANGED fmu_
      BY <1>9, <1>11, <2>1
    <2>2. CASE fmu_' # fmu_
      BY <1>5, <1>6, <1>7, <1>8, <1>11, <2>2
         DEF Next, Load, LoadAs, Unload, UnloadAll, Gone, objectVars, managerVars
    <2> QED BY <2>1, <2>2
  <1> QED BY <1>10, <1>11

(* The three collections and the pointers of the objects implement the     *)
(* registry: one FMU per identifier, never exchanged, never given up while *)
(* somebody holds it (ModelManager.cpp, loadFMU, unloadFMU,                *)
(* unloadAllFMUs).                                                         *)
THEOREM ManagerImplementsRegistry == Spec => RegistrySpec
  BY ObjectsInvAlways, RegistryInit, RegistryStep, PTL
     DEF Spec, RegistrySpec, Registry!Spec

=============================================================================
