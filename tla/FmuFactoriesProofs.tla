------------------------- MODULE FmuFactoriesProofs -------------------------
(***************************************************************************)
(* Proofs about FmuFactories, for any lists of configs over any            *)
(* directories: what the factory learned of an FMU when it read the config *)
(* of a device is still true when the device asks for its FMU.             *)
(***************************************************************************)
EXTENDS FmuFactories, Loops, FiniteSetTheorems, TLAPS

-----------------------------------------------------------------------------
(* The nodes of a config in their order.                                   *)

LEMMA MinIsLeast ==
    ASSUME NEW T \in SUBSET Nat, T # {}
    PROVE  Min(T) \in T
  BY NatHasMin DEF Min

Increases(seq) == \A i, j \in DOMAIN seq : i < j => seq[i] < seq[j]

HasOrder(T) == \E seq \in [1 .. Cardinality(T) -> T] : Increases(seq)

(* A set of naturals is put in order by its least member and an order of   *)
(* the others.                                                             *)
LEMMA PutFirst ==
    ASSUME NEW T \in SUBSET Nat, IsFiniteSet(T), NEW x \in T, \A y \in T : x <= y,
           HasOrder(T \ {x})
    PROVE  HasOrder(T)
  <1> DEFINE n == Cardinality(T)
  <1>1. /\ n \in Nat \ {0}
        /\ Cardinality(T \ {x}) = n - 1
    <2>1. Cardinality(T) \in Nat
      BY FS_CardinalityType
    <2>2. Cardinality(T) # 0
      BY FS_EmptySet
    <2>3. Cardinality(T \ {x}) = Cardinality(T) - 1
      BY FS_RemoveElement
    <2> QED BY <2>1, <2>2, <2>3
  <1> HIDE DEF n
  <1>2. PICK rest \in [1 .. n - 1 -> T \ {x}] : Increases(rest)
    BY <1>1 DEF HasOrder
  <1> DEFINE seq == [i \in 1 .. n |-> IF i = 1 THEN x ELSE rest[i - 1]]
  <1>3. \A i \in 1 .. n : i # 1 => i - 1 \in 1 .. n - 1
    BY <1>1
  <1>4. seq \in [1 .. n -> T]
    BY <1>2, <1>3
  <1>5. Increases(seq)
    <2> SUFFICES ASSUME NEW i \in 1 .. n, NEW j \in 1 .. n, i < j
                 PROVE  seq[i] < seq[j]
      BY DEF Increases
    <2>1. j # 1 /\ seq[j] = rest[j - 1] /\ rest[j - 1] \in T \ {x}
      BY <1>1, <1>2, <1>3
    <2>2. CASE i = 1
      <3>1. seq[i] = x /\ x \in Nat /\ rest[j - 1] \in Nat
        BY <2>1, <2>2
      <3>2. x <= rest[j - 1] /\ x # rest[j - 1]
        BY <2>1
      <3> QED BY <2>1, <3>1, <3>2
    <2>3. CASE i # 1
      <3>1. i - 1 \in 1 .. n - 1 /\ j - 1 \in 1 .. n - 1 /\ i - 1 < j - 1
        BY <1>1, <1>3, <2>1, <2>3
      <3>2. rest[i - 1] < rest[j - 1]
        BY <1>2, <3>1 DEF Increases
      <3> QED BY <2>1, <2>3, <3>2
    <2> QED BY <2>2, <2>3
  <1> QED BY <1>4, <1>5 DEF HasOrder, n

LEMMA OrdersExist ==
    ASSUME NEW T \in SUBSET Nat, IsFiniteSet(T)
    PROVE  HasOrder(T)
  <1> DEFINE Unordered(n) == \E S \in SUBSET Nat : IsFiniteSet(S) /\ Cardinality(S) = n /\ ~HasOrder(S)
             Bad == {n \in Nat : Unordered(n)}
  <1>1. SUFFICES Bad = {}
    BY FS_CardinalityType
  <1>2. SUFFICES ASSUME Bad # {} PROVE FALSE
    OBVIOUS
  <1>3. PICK n \in Bad : \A k \in Bad : n <= k
    BY <1>2, NatHasMin
  <1>4. PICK S \in SUBSET Nat : IsFiniteSet(S) /\ Cardinality(S) = n /\ ~HasOrder(S)
    OBVIOUS
  <1>5. S # {}
    <2> SUFFICES HasOrder({})
      BY <1>4
    <2>1. Cardinality({}) = 0 /\ 1 .. 0 = {}
      BY FS_EmptySet
    <2>2. <<>> \in [1 .. 0 -> {}] /\ DOMAIN <<>> = {}
      OBVIOUS
    <2> QED BY <2>1, <2>2 DEF HasOrder, Increases
  <1>6. PICK x \in S : \A y \in S : x <= y
    BY <1>5, NatHasMin
  <1>7. IsFiniteSet(S \ {x}) /\ Cardinality(S \ {x}) = n - 1 /\ n - 1 \in Nat
    <2>1. IsFiniteSet(S \ {x}) /\ Cardinality(S \ {x}) = Cardinality(S) - 1
      BY <1>4, FS_RemoveElement
    <2>2. n \in Nat
      OBVIOUS
    <2>3. Cardinality(S) # 0
      BY <1>4, <1>5, FS_EmptySet
    <2> QED BY <1>4, <2>1, <2>2, <2>3
  <1>8. ~HasOrder(S \ {x})
    BY <1>4, <1>6, PutFirst
  <1>9. n - 1 \in Bad
    BY <1>7, <1>8
  <1> QED BY <1>3, <1>7, <1>9

(* Every node once, in any finite set of nodes.                            *)
LEMMA InOrderHasAll ==
    ASSUME NEW T \in SUBSET Nat, IsFiniteSet(T)
    PROVE  /\ Cardinality(T) \in Nat
           /\ InOrder(T) \in [1 .. Cardinality(T) -> T]
           /\ \A i, j \in 1 .. Cardinality(T) : InOrder(T)[i] = InOrder(T)[j] => i = j
           /\ \A x \in T : \E i \in 1 .. Cardinality(T) : InOrder(T)[i] = x
  <1> DEFINE n == Cardinality(T)
             seq == InOrder(T)
  <1>1. n \in Nat
    BY FS_CardinalityType
  <1>2. seq \in [1 .. n -> T] /\ Increases(seq)
    BY OrdersExist DEF HasOrder, InOrder, Increases
  <1>3. ASSUME NEW i \in 1 .. n, NEW j \in 1 .. n, seq[i] = seq[j]
        PROVE  i = j
    <2>1. ~(i < j) /\ ~(j < i)
      <3>1. seq[i] \in Nat
        BY <1>2
      <3> QED BY <1>2, <1>3, <3>1 DEF Increases
    <2> QED BY <1>1, <2>1
  <1>4. seq \in Injection(1 .. n, T)
    BY <1>2, <1>3 DEF Injection, IsInjective
  <1>5. Cardinality(1 .. n) = n
    BY <1>1, FS_Interval
  <1>6. seq \in Surjection(1 .. n, T)
    BY <1>4, <1>5, FS_Injection
  <1> QED BY <1>1, <1>2, <1>3, <1>6 DEF Surjection

-----------------------------------------------------------------------------
(* What loadFMU() leaves in the collections.                               *)

CollectionsTyped ==
    /\ DOMAIN collections = Collections
    /\ \A k \in Collections :
         /\ DOMAIN collections[k] \subseteq Nat
         /\ collections[k] \in [DOMAIN collections[k] -> Dirs]

(* An FMU is in the collection of its type.                                *)
SortedByType ==
    \A k \in Collections : \A id \in DOMAIN collections[k] :
        CollectionOf(FmuType[collections[k][id]]) = k

LEMMA IdentifierType ==
    ASSUME NEW dir \in Dirs
    PROVE  IdentifierOf(dir) \in Nat
  <1>1. Identifiers[dir] \in Seq(Nat) /\ Identifiers[dir] # <<>>
    BY ModelManagerAssumption
  <1> QED BY <1>1 DEF IdentifierOf

LEMMA CollectionOfType ==
    ASSUME NEW type
    PROVE  CollectionOf(type) \in Collections
  BY DEF CollectionOf, Collections, modelCollection, slaveCollection, instanceCollection

(* What is loaded stays as it is, and a new FMU comes in by its type.      *)
LEMMA LoadKeeps ==
    ASSUME CollectionsTyped, SortedByType, NEW dir \in Dirs,
           collections' = CollectionsAfterLoad(dir)
    PROVE  /\ CollectionsTyped'
           /\ SortedByType'
           /\ \A k \in Collections : \A id \in DOMAIN collections[k] :
                id \in DOMAIN collections'[k] /\ collections'[k][id] = collections[k][id]
           /\ StatusOfLoad(dir) = "success" =>
                LET k == CollectionOf(FmuType[dir])
                IN  /\ IdentifierOf(dir) \in DOMAIN collections'[k]
                    /\ collections'[k][IdentifierOf(dir)] = dir
  <1> DEFINE c == CollectionOf(FmuType[dir])
             id == IdentifierOf(dir)
  <1>1. CASE StatusOfLoad(dir) # "success"
    <2>1. UNCHANGED collections
      BY <1>1 DEF CollectionsAfterLoad
    <2> QED BY <1>1, <2>1 DEF CollectionsTyped, SortedByType
  <1>2. CASE StatusOfLoad(dir) = "success"
    <2>1. c \in Collections /\ id \in Nat
      BY CollectionOfType, IdentifierType
    <2>2. /\ DOMAIN collections' = Collections
          /\ collections'[c] = [x \in DOMAIN collections[c] \cup {id} |->
                                  IF x = id THEN dir ELSE collections[c][x]]
          /\ \A k \in Collections : k # c => collections'[k] = collections[k]
      BY <1>2, <2>1 DEF CollectionsAfterLoad, Insert, CollectionsTyped
    <2>3. \A k \in Collections : id \notin DOMAIN collections[k]
      <3>1. ~Loaded(id)
        BY <1>2 DEF StatusOfLoad
      <3> QED BY <3>1 DEF Loaded
    <2> HIDE DEF c, id
    <2>4. \A k \in Collections : \A x \in DOMAIN collections[k] :
            x \in DOMAIN collections'[k] /\ collections'[k][x] = collections[k][x]
      BY <2>2, <2>3
    <2>5. CollectionsTyped'
      <3>1. SUFFICES ASSUME NEW k \in Collections
                     PROVE  /\ DOMAIN collections'[k] \subseteq Nat
                            /\ collections'[k] \in [DOMAIN collections'[k] -> Dirs]
        BY <2>2 DEF CollectionsTyped
      <3>2. CASE k = c
        BY <2>1, <2>2, <3>2 DEF CollectionsTyped
      <3>3. CASE k # c
        BY <2>2, <3>3 DEF CollectionsTyped
      <3> QED BY <3>2, <3>3
    <2>6. SortedByType'
      <3>1. SUFFICES ASSUME NEW k \in Collections, NEW x \in DOMAIN collections'[k]
                     PROVE  CollectionOf(FmuType[collections'[k][x]]) = k
        BY DEF SortedByType
      <3>2. CASE x \in DOMAIN collections[k]
        BY <2>4, <3>2 DEF SortedByType
      <3>3. CASE x \notin DOMAIN collections[k]
        BY <2>2, <3>3 DEF c
      <3> QED BY <3>2, <3>3
    <2>7. id \in DOMAIN collections'[c] /\ collections'[c][id] = dir
      BY <2>2
    <2> QED BY <2>4, <2>5, <2>6, <2>7 DEF c, id
  <1> QED BY <1>1, <1>2

(* The assertion of consistency: a loaded FMU reported of the type for     *)
(* co-simulation is where the device looks for it.                         *)
LEMMA LoadedForCoSimulation ==
    ASSUME SortedByType, NEW id, Loaded(id), TypeOfLoaded(id) = "fmi_2_0_cs"
    PROVE  /\ id \in DOMAIN collections[instanceCollection]
           /\ FmuType[collections[instanceCollection][id]] = "fmi_2_0_cs"
  <1> DEFINE IsFirst(k) == /\ id \in DOMAIN collections[k]
                           /\ \A j \in 1 .. k - 1 : id \notin DOMAIN collections[j]
             first == CHOOSE k \in Collections : IsFirst(k)
  <1>1. \E k \in Collections : IsFirst(k)
    <2> DEFINE Having == {k \in Collections : id \in DOMAIN collections[k]}
    <2>1. Having # {} /\ Having \in SUBSET Nat
      BY DEF Loaded, Collections
    <2>2. PICK k \in Having : \A j \in Having : k <= j
      BY <2>1, NatHasMin
    <2>3. \A j \in 1 .. k - 1 : j \in Collections /\ ~(k <= j)
      BY <2>1 DEF Collections
    <2> QED BY <2>2, <2>3
  <1>2. first \in Collections /\ IsFirst(first)
    BY <1>1
  <1>3. FmuType[collections[first][id]] = "fmi_2_0_cs"
    BY DEF TypeOfLoaded
  <1> HIDE DEF first
  <1>4. first = instanceCollection
    <2>1. CollectionOf("fmi_2_0_cs") = instanceCollection
      BY DEF CollectionOf
    <2> QED BY <1>2, <1>3, <2>1 DEF SortedByType
  <1> QED BY <1>2, <1>3, <1>4

(* The status that is accepted tells where the FMU is.                     *)
LEMMA AcceptedIsLoaded ==
    ASSUME CollectionsTyped, SortedByType, NEW dir \in Dirs, process = "running",
           collections' = CollectionsAfterLoad(dir),
           ProcessAfterLoad(dir) = "running", StatusAccepted(StatusOfLoad(dir)),
           FmuType[dir] = "fmi_2_0_cs"
    PROVE  /\ IdentifierOf(dir) \in DOMAIN collections'[instanceCollection]
           /\ FmuType[collections'[instanceCollection][IdentifierOf(dir)]] = "fmi_2_0_cs"
           /\ ~shared => collections'[instanceCollection][IdentifierOf(dir)] = dir
  <1> DEFINE id == IdentifierOf(dir)
  <1>1. CollectionOf("fmi_2_0_cs") = instanceCollection /\ instanceCollection \in Collections
    BY DEF CollectionOf, Collections, instanceCollection
  <1>2. CASE StatusOfLoad(dir) = "success"
    BY <1>1, <1>2, LoadKeeps
  <1>3. CASE StatusOfLoad(dir) = "duplicate"
    <2>1. Loaded(id) /\ StatusOfDescription(dir) = "success"
      BY <1>3, ModelManagerAssumption
         DEF StatusOfLoad, StatusOfDescription, StatusOfLibrary, Descriptions, Libraries
    <2>2. TypeOfLoaded(id) = "fmi_2_0_cs"
      BY <2>1 DEF ProcessAfterLoad, Consistent
    <2>3. id \in DOMAIN collections[instanceCollection]
          /\ FmuType[collections[instanceCollection][id]] = "fmi_2_0_cs"
      BY <2>1, <2>2, LoadedForCoSimulation
    <2>4. shared
      BY <1>3 DEF StatusAccepted
    <2> QED BY <1>1, <2>3, <2>4, LoadKeeps
  <1> QED BY <1>2, <1>3 DEF StatusAccepted

-----------------------------------------------------------------------------
(* The inductive invariant.                                                *)

TypeInv ==
    /\ shared \in BOOLEAN
    /\ configs \in ConfigLists
    /\ read \in 0 .. Len(configs)
    /\ devices \in Seq(Range(devices))
    /\ DOMAIN fmu_ = Objects
    /\ DOMAIN refFmu \subseteq DOMAIN devices
    /\ CollectionsTyped
    /\ SortedByType

(* There is an object for the FMU of each device.                          *)
Counts(list, upTo) ==
    /\ upTo[0] = 0
    /\ \A k \in DOMAIN list : upTo[k] = upTo[k - 1] + Cardinality(list[k].nodes)

UpTo(list) == CHOOSE upTo \in [0 .. Len(list) -> 0 .. MaxDevices] : Counts(list, upTo)

DevicesFit == Len(devices) <= UpTo(configs)[read]

(* What a device asks for is there, and what its config named.             *)
Ready(device) ==
    /\ device.identifier \in DOMAIN collections[instanceCollection]
    /\ FmuType[collections[instanceCollection][device.identifier]] = "fmi_2_0_cs"
    /\ ~shared => collections[instanceCollection][device.identifier] = device.dir

DevicesReady == \A i \in DOMAIN devices : Ready(devices[i])

(* A started device uses the object that one of its name has constructed,  *)
(* itself if it does not share.                                            *)
UsesObject(i) ==
    /\ refFmu[i] \in DOMAIN refFmu
    /\ fmu_[refFmu[i]] = BareFmuFor(devices[refFmu[i]])
    /\ ~shared => refFmu[i] = i
    /\ shared => /\ devices[i].name \in DOMAIN sharedFmus
                 /\ refFmu[i] = sharedFmus[devices[i].name]

SharedByName ==
    \A name \in DOMAIN sharedFmus :
        /\ sharedFmus[name] \in DOMAIN refFmu
        /\ devices[sharedFmus[name]].name = name

FactoryInv ==
    /\ TypeInv
    /\ DevicesFit
    /\ DevicesReady
    /\ \A i \in DOMAIN refFmu : UsesObject(i)
    /\ SharedByName

(* The configs read have their devices, of which one writes.               *)
WritersOf(k) == {i \in DOMAIN devices : devices[i].config = k /\ devices[i].writes}

OneWriterOf(k) ==
    IF configs[k].write THEN \E w \in DOMAIN devices : WritersOf(k) = {w}
    ELSE WritersOf(k) = {}

WritersInv ==
    /\ \A i \in DOMAIN devices : devices[i].config \in 1 .. read
    /\ process = "running" => \A k \in 1 .. read : OneWriterOf(k)

-----------------------------------------------------------------------------
(* Reading a config.                                                       *)

LEMMA UpToCounts ==
    ASSUME NEW list \in ConfigLists
    PROVE  /\ UpTo(list) \in [0 .. Len(list) -> 0 .. MaxDevices]
           /\ Counts(list, UpTo(list))
  <1>1. \E upTo \in [0 .. Len(list) -> 0 .. MaxDevices] : Counts(list, upTo)
    BY FmuFactoriesAssumption DEF WithinBound, Counts
  <1> QED BY <1>1 DEF UpTo

LEMMA ConfigType ==
    ASSUME TypeInv, NEW k \in 1 .. Len(configs)
    PROVE  /\ k \in DOMAIN configs
           /\ configs[k].dir \in Dirs
           /\ configs[k].nodes \in SUBSET Nat /\ configs[k].nodes # {}
           /\ IsFiniteSet(configs[k].nodes)
           /\ configs[k].write \in BOOLEAN
  <1>1. configs \in Seq(Config) /\ configs \in ConfigLists
    BY FmuFactoriesAssumption DEF TypeInv
  <1>2. k \in DOMAIN configs /\ configs[k] \in Config
    BY <1>1
  <1>3. IsFiniteSet(configs[k].nodes)
    BY <1>1, <1>2, FmuFactoriesAssumption
  <1>4. configs[k].dir \in Dirs /\ configs[k].nodes \in SUBSET Nat /\ configs[k].nodes # {}
    BY <1>2 DEF Config
  <1>5. configs[k].write \in BOOLEAN
    BY <1>2, Zenon DEF Config
  <1> QED BY <1>2, <1>3, <1>4, <1>5

(* The devices of a config, one for each node.                             *)
LEMMA Installs ==
    ASSUME TypeInv, NEW k \in 1 .. Len(configs)
    PROVE  LET install == Install(configs[k])
               nodes == configs[k].nodes
           IN  /\ install \in Seq(Range(install))
               /\ Len(install) = Cardinality(nodes)
               /\ Cardinality(nodes) \in Nat
               /\ \A i \in 1 .. Cardinality(nodes) :
                    install[i] = DeviceOf(configs[k], InOrder(nodes)[i])
  <1> DEFINE nodes == configs[k].nodes
             install == Install(configs[k])
             n == Cardinality(nodes)
  <1>1. n \in Nat /\ DOMAIN InOrder(nodes) = 1 .. n
    BY ConfigType, InOrderHasAll
  <1>2. install = [i \in 1 .. n |-> DeviceOf(configs[k], InOrder(nodes)[i])]
    BY <1>1 DEF Install
  <1> HIDE DEF install, n
  <1>3. DOMAIN install = 1 .. n /\ install \in [1 .. n -> Range(install)]
    BY <1>2 DEF Range
  <1>4. install \in Seq(Range(install)) /\ Len(install) = n
    BY <1>1, <1>3
  <1> QED BY <1>1, <1>2, <1>4 DEF install, n

LEMMA RangeOfBoth ==
    ASSUME NEW s, NEW t, s \in Seq(Range(s)), t \in Seq(Range(t))
    PROVE  /\ s \o t \in Seq(Range(s \o t))
           /\ Len(s \o t) = Len(s) + Len(t)
           /\ Len(s) \in Nat /\ Len(t) \in Nat
           /\ \A i \in 1 .. Len(s) : (s \o t)[i] = s[i]
           /\ \A i \in 1 .. Len(t) : (s \o t)[Len(s) + i] = t[i]
           /\ \A i \in 1 .. Len(s) + Len(t) : i \notin 1 .. Len(s) => i - Len(s) \in 1 .. Len(t)
  <1> DEFINE S == Range(s) \cup Range(t)
  <1>1. s \in Seq(S) /\ t \in Seq(S)
    OBVIOUS
  <1> HIDE DEF S
  <1>2. s \o t \in Seq(S) /\ Len(s \o t) = Len(s) + Len(t)
    BY <1>1
  <1>3. s \o t \in Seq(Range(s \o t))
    <2> DEFINE u == s \o t
    <2>1. u \in Seq(S)
      BY <1>2
    <2> HIDE DEF u
    <2>2. Len(u) \in Nat /\ u \in [1 .. Len(u) -> S]
      BY <2>1
    <2>3. u \in [1 .. Len(u) -> Range(u)]
      BY <2>2 DEF Range
    <2>4. u \in Seq(Range(u))
      BY <2>2, <2>3
    <2> QED BY <2>4 DEF u
  <1> QED BY <1>1, <1>2, <1>3

(* What an accepted config is: its devices are appended.                   *)
Accepts ==
    LET config == configs[read + 1]
    IN  /\ process = "running" /\ process' = "running"
        /\ collections' = CollectionsAfterLoad(config.dir)
        /\ ProcessAfterLoad(config.dir) = "running"
        /\ StatusAccepted(StatusOfLoad(config.dir))
        /\ FmuType[config.dir] = "fmi_2_0_cs"
        /\ devices' = devices \o Install(config)

LEMMA ReadConfigCases ==
    ASSUME TypeInv, ReadConfig
    PROVE  /\ read + 1 \in 1 .. Len(configs)
           /\ read' = read + 1
           /\ collections' = CollectionsAfterLoad(configs[read + 1].dir)
           /\ UNCHANGED <<fmu_, shared, configs, refFmu, sharedFmus>>
           /\ Accepts \/ (UNCHANGED devices /\ process' # "running")
  <1>1. read \in Nat /\ Len(configs) \in Nat /\ read < Len(configs)
    <2>1. configs \in Seq(Config)
      BY FmuFactoriesAssumption DEF TypeInv
    <2> QED BY <2>1 DEF TypeInv, ReadConfig
  <1>2. \/ Accepts
        \/ UNCHANGED devices /\ process' # "running"
    BY DEF ReadConfig, Accepts, TypeAccepted
  <1> QED BY <1>1, <1>2 DEF ReadConfig

LEMMA ReadKeepsType ==
    ASSUME TypeInv, ReadConfig
    PROVE  TypeInv'
  <1> DEFINE config == configs[read + 1]
  <1>1. config.dir \in Dirs
    BY ConfigType, ReadConfigCases
  <1>2. CollectionsTyped' /\ SortedByType'
    BY <1>1, LoadKeeps, ReadConfigCases DEF TypeInv
  <1>3. CASE UNCHANGED devices
    BY <1>2, <1>3, ReadConfigCases DEF TypeInv
  <1>4. CASE Accepts
    <2> DEFINE install == Install(config)
    <2>1. install \in Seq(Range(install))
      BY Installs, ReadConfigCases
    <2>2. devices' = devices \o install
      BY <1>4 DEF Accepts
    <2>3. devices \in Seq(Range(devices))
      BY DEF TypeInv
    <2> HIDE DEF install
    <2>4. devices' \in Seq(Range(devices'))
      BY <2>1, <2>2, <2>3, RangeOfBoth
    <2>5. DOMAIN devices = 1 .. Len(devices) /\ DOMAIN devices' = 1 .. Len(devices')
          /\ Len(devices) <= Len(devices') /\ Len(devices) \in Nat /\ Len(devices') \in Nat
      BY <2>1, <2>2, <2>3, <2>4, RangeOfBoth
    <2>6. DOMAIN refFmu' \subseteq DOMAIN devices'
      BY <2>5, ReadConfigCases DEF TypeInv
    <2> QED BY <1>2, <2>4, <2>6, ReadConfigCases DEF TypeInv
  <1> QED BY <1>3, <1>4, ReadConfigCases

(* The devices there are stay, and the new ones are those of the config.   *)
LEMMA ReadAppends ==
    ASSUME TypeInv, ReadConfig
    PROVE  /\ DOMAIN devices \subseteq DOMAIN devices'
           /\ \A i \in DOMAIN devices : devices'[i] = devices[i]
           /\ \A i \in DOMAIN devices' \ DOMAIN devices :
                /\ Accepts
                /\ i - Len(devices) \in 1 .. Cardinality(configs[read + 1].nodes)
                /\ devices'[i] = DeviceOf(configs[read + 1],
                                     InOrder(configs[read + 1].nodes)[i - Len(devices)])
           /\ Accepts =>
                \A j \in 1 .. Cardinality(configs[read + 1].nodes) :
                    Len(devices) + j \in DOMAIN devices' \ DOMAIN devices
           /\ Len(devices') <= Len(devices) + Cardinality(configs[read + 1].nodes)
           /\ Len(devices) \in Nat /\ Cardinality(configs[read + 1].nodes) \in Nat
  <1> DEFINE config == configs[read + 1]
             install == Install(config)
             n == Cardinality(config.nodes)
  <1>1. /\ install \in Seq(Range(install))
        /\ Len(install) = n /\ n \in Nat
        /\ \A i \in 1 .. n : install[i] = DeviceOf(config, InOrder(config.nodes)[i])
    BY Installs, ReadConfigCases
  <1>2. devices \in Seq(Range(devices))
    BY DEF TypeInv
  <1>3. Len(devices) \in Nat /\ DOMAIN devices = 1 .. Len(devices)
    BY <1>2
  <1>4. CASE UNCHANGED devices /\ process' # "running"
    <2>1. ~Accepts
      BY <1>4 DEF Accepts
    <2> QED BY <1>1, <1>3, <1>4, <2>1
  <1>5. CASE Accepts
    <2>1. devices' = devices \o install
      BY <1>5 DEF Accepts
    <2> HIDE DEF install, n
    <2>2. /\ devices' \in Seq(Range(devices'))
          /\ Len(devices') = Len(devices) + n
          /\ \A i \in 1 .. Len(devices) : devices'[i] = devices[i]
          /\ \A i \in 1 .. n : devices'[Len(devices) + i] = install[i]
          /\ \A i \in 1 .. Len(devices) + n : i \notin 1 .. Len(devices) => i - Len(devices) \in 1 .. n
      <3>1. install \in Seq(Range(install)) /\ n = Len(install)
        BY <1>1
      <3> QED BY <1>2, <2>1, <3>1, RangeOfBoth
    <2>3. DOMAIN devices' = 1 .. Len(devices) + n
      BY <2>2
    <2>4. ASSUME NEW i \in DOMAIN devices' \ DOMAIN devices
          PROVE  i - Len(devices) \in 1 .. n /\ devices'[i] = install[i - Len(devices)]
      <3>1. i - Len(devices) \in 1 .. n /\ i = Len(devices) + (i - Len(devices))
        BY <1>1, <1>3, <2>2, <2>3
      <3> QED BY <2>2, <3>1
    <2>5. \A j \in 1 .. n : Len(devices) + j \in DOMAIN devices' \ DOMAIN devices
      BY <1>1, <1>3, <2>3
    <2>6. DOMAIN devices \subseteq DOMAIN devices'
      BY <1>1, <1>3, <2>3
    <2>7. \A i \in DOMAIN devices : devices'[i] = devices[i]
      BY <1>3, <2>2
    <2>8. \A i \in DOMAIN devices' \ DOMAIN devices :
             /\ i - Len(devices) \in 1 .. n
             /\ devices'[i] = DeviceOf(config, InOrder(config.nodes)[i - Len(devices)])
      BY <1>1, <2>4
    <2>9. Len(devices') <= Len(devices) + n
      BY <1>1, <1>3, <2>2
    <2> QED BY <1>1, <1>3, <1>5, <2>5, <2>6, <2>7, <2>8, <2>9 DEF n
  <1> QED BY <1>4, <1>5, ReadConfigCases

LEMMA ReadKeepsFit ==
    ASSUME TypeInv, DevicesFit, ReadConfig
    PROVE  DevicesFit'
  <1> DEFINE upTo == UpTo(configs)
             n == Cardinality(configs[read + 1].nodes)
  <1>1. upTo \in [0 .. Len(configs) -> 0 .. MaxDevices] /\ Counts(configs, upTo)
    BY UpToCounts DEF TypeInv
  <1>2. read + 1 \in 1 .. Len(configs) /\ read + 1 \in DOMAIN configs
    BY ConfigType, ReadConfigCases
  <1>3. read \in 0 .. Len(configs) /\ (read + 1) - 1 = read
    BY DEF TypeInv
  <1>4. upTo[read + 1] = upTo[read] + n
    BY <1>1, <1>2, <1>3 DEF Counts
  <1>5. upTo[read] \in Nat
    BY <1>1, <1>3, FmuFactoriesAssumption
  <1>6. UNCHANGED configs /\ read' = read + 1
    BY ReadConfigCases
  <1>7. UpTo(configs)'[read'] = upTo[read + 1]
    BY <1>6
  <1>8. Len(devices) <= upTo[read] /\ Len(devices') <= Len(devices) + n
        /\ Len(devices) \in Nat /\ n \in Nat
    BY ReadAppends DEF DevicesFit
  <1>9. Len(devices') \in Nat
    BY ReadKeepsType DEF TypeInv
  <1> HIDE DEF n, upTo
  <1> QED BY <1>4, <1>5, <1>7, <1>8, <1>9 DEF DevicesFit

LEMMA ReadKeepsReady ==
    ASSUME TypeInv, DevicesReady, ReadConfig
    PROVE  DevicesReady'
  <1> DEFINE config == configs[read + 1]
  <1>1. config.dir \in Dirs /\ collections' = CollectionsAfterLoad(config.dir) /\ UNCHANGED shared
    BY ConfigType, ReadConfigCases
  <1>2. instanceCollection \in Collections
    BY DEF Collections, instanceCollection
  <1>3. ASSUME NEW i \in DOMAIN devices'
        PROVE  Ready(devices[i])' 
    <2>1. CASE i \in DOMAIN devices
      <3>1. Ready(devices[i]) /\ devices'[i] = devices[i]
        BY <2>1, ReadAppends DEF DevicesReady
      <3>2. \A id \in DOMAIN collections[instanceCollection] :
               /\ id \in DOMAIN collections'[instanceCollection]
               /\ collections'[instanceCollection][id] = collections[instanceCollection][id]
        BY <1>1, <1>2, LoadKeeps DEF TypeInv
      <3> QED BY <1>1, <3>1, <3>2 DEF Ready
    <2>2. CASE i \notin DOMAIN devices
      <3>1. Accepts
        BY <1>3, <2>2, ReadAppends
      <3>2. devices'[i].identifier = IdentifierOf(config.dir) /\ devices'[i].dir = config.dir
        BY <1>3, <2>2, ReadAppends DEF DeviceOf
      <3>3. /\ IdentifierOf(config.dir) \in DOMAIN collections'[instanceCollection]
            /\ FmuType[collections'[instanceCollection][IdentifierOf(config.dir)]] = "fmi_2_0_cs"
            /\ ~shared => collections'[instanceCollection][IdentifierOf(config.dir)] = config.dir
        BY <1>1, <3>1, AcceptedIsLoaded DEF Accepts, TypeInv
      <3> QED BY <1>1, <3>2, <3>3 DEF Ready
    <2> QED BY <2>1, <2>2
  <1> QED BY <1>3 DEF DevicesReady

(* The bare FMU a device has or would get does not change.                 *)
LEMMA ReadKeepsBareFmus ==
    ASSUME TypeInv, DevicesReady, ReadConfig, NEW i \in DOMAIN devices
    PROVE  BareFmuFor(devices[i])' = BareFmuFor(devices[i])
  <1>1. configs[read + 1].dir \in Dirs /\ collections' = CollectionsAfterLoad(configs[read + 1].dir)
    BY ConfigType, ReadConfigCases
  <1>2. instanceCollection \in Collections
    BY DEF Collections, instanceCollection
  <1>3. \A id \in DOMAIN collections[instanceCollection] :
           /\ id \in DOMAIN collections'[instanceCollection]
           /\ collections'[instanceCollection][id] = collections[instanceCollection][id]
    BY <1>1, <1>2, LoadKeeps DEF TypeInv
  <1>4. devices'[i] = devices[i] /\ Ready(devices[i])
    BY ReadAppends DEF DevicesReady
  <1> QED BY <1>3, <1>4 DEF BareFmuFor, Get, Ready

LEMMA ReadKeepsInv ==
    ASSUME FactoryInv, ReadConfig
    PROVE  FactoryInv'
  <1> USE DEF FactoryInv
  <1>1. TypeInv' /\ DevicesFit' /\ DevicesReady'
    BY ReadKeepsType, ReadKeepsFit, ReadKeepsReady
  <1>2. UNCHANGED <<fmu_, shared, refFmu, sharedFmus>>
    BY ReadConfigCases
  <1>3. \A i \in DOMAIN refFmu : i \in DOMAIN devices
    BY DEF TypeInv
  <1>4. \A i \in DOMAIN devices : devices'[i] = devices[i]
    BY ReadAppends
  <1>5. ASSUME NEW i \in DOMAIN refFmu'
        PROVE  UsesObject(i)'
    <2>1. UsesObject(i) /\ i \in DOMAIN devices
      BY <1>2, <1>3
    <2>2. refFmu[i] \in DOMAIN devices
      BY <1>3, <2>1 DEF UsesObject
    <2>3. BareFmuFor(devices[refFmu[i]])' = BareFmuFor(devices[refFmu[i]])
      <3>1. PICK o : o = refFmu[i]
        OBVIOUS
      <3>2. BareFmuFor(devices[o])' = BareFmuFor(devices[o])
        BY <2>2, <3>1, ReadKeepsBareFmus
      <3> QED BY <1>2, <3>1, <3>2
    <2> QED BY <1>2, <1>4, <2>1, <2>3 DEF UsesObject
  <1>6. SharedByName'
    BY <1>2, <1>3, <1>4 DEF SharedByName
  <1> QED BY <1>1, <1>5, <1>6

-----------------------------------------------------------------------------
(* A device starts.                                                        *)

LEMMA DeviceHasObject ==
    ASSUME TypeInv, DevicesFit, NEW i \in DOMAIN devices
    PROVE  i \in Objects
  <1>1. Len(devices) \in Nat /\ i \in 1 .. Len(devices)
    BY DEF TypeInv
  <1>2. UpTo(configs)[read] \in 0 .. MaxDevices
    <2>1. UpTo(configs) \in [0 .. Len(configs) -> 0 .. MaxDevices] /\ read \in 0 .. Len(configs)
      BY UpToCounts DEF TypeInv
    <2> QED BY <2>1
  <1> QED BY <1>1, <1>2, FmuFactoriesAssumption DEF DevicesFit

(* The lookup of a device whose config was accepted does not fail.         *)
LEMMA BareFmuOfReady ==
    ASSUME TypeInv, NEW d, Ready(d)
    PROVE  /\ BareFmuFor(d) # Null
           /\ BareFmuFor(d).dir = collections[instanceCollection][d.identifier]
  <1>1. instanceCollection \in Collections
    BY DEF Collections, instanceCollection
  <1>2. BareFmuFor(d) = [identifier |-> d.identifier, dir |-> collections[instanceCollection][d.identifier]]
    BY DEF BareFmuFor, Get, Ready
  <1>3. BareFmuFor(d) \in [identifier : Nat, dir : Dirs]
    BY <1>1, <1>2 DEF TypeInv, CollectionsTyped, Ready
  <1> QED BY <1>2, <1>3, ModelManagerAssumption

LEMMA TakeKeepsInv ==
    ASSUME FactoryInv, NEW i \in DOMAIN devices, StartDevice(i), TakeSharedFmu(i)
    PROVE  FactoryInv'
  <1> DEFINE d == devices[i]
             o == sharedFmus[d.name]
  <1> USE DEF FactoryInv
  <1>1. UNCHANGED <<process, fmu_, sharedFmus, collections, shared, configs, read, devices>>
    BY DEF TakeSharedFmu, StartDevice
  <1>2. shared /\ d.name \in DOMAIN sharedFmus /\ i \notin DOMAIN refFmu
    BY DEF TakeSharedFmu, Found, StartDevice
  <1>3. /\ DOMAIN refFmu' = DOMAIN refFmu \cup {i}
        /\ refFmu'[i] = o
        /\ \A x \in DOMAIN refFmu : refFmu'[x] = refFmu[x]
    BY <1>2 DEF TakeSharedFmu
  <1>4. TypeInv'
    BY <1>1, <1>3 DEF TypeInv, CollectionsTyped, SortedByType
  <1>5. DevicesFit'
    BY <1>1 DEF DevicesFit
  <1>6. DevicesReady'
    BY <1>1 DEF DevicesReady, Ready
  <1>7. SharedByName'
    BY <1>1, <1>3 DEF SharedByName
  <1>8. o \in DOMAIN refFmu /\ devices[o].name = d.name
    BY <1>2 DEF SharedByName
  <1>9. refFmu[o] = o /\ fmu_[o] = BareFmuFor(devices[o])
    <2>1. UsesObject(o)
      BY <1>8
    <2>2. refFmu[o] = sharedFmus[devices[o].name]
      BY <1>2, <2>1 DEF UsesObject
    <2>3. refFmu[o] = o
      BY <1>8, <2>2
    <2> HIDE DEF o
    <2> QED BY <2>1, <2>3 DEF UsesObject
  <1> HIDE DEF o
  <1>10. \A x \in DOMAIN devices : BareFmuFor(devices[x])' = BareFmuFor(devices[x])
    BY <1>1 DEF BareFmuFor
  <1>11. DOMAIN refFmu \subseteq DOMAIN devices
    BY DEF TypeInv
  <1>12. ASSUME NEW j \in DOMAIN refFmu
         PROVE  UsesObject(j)'
    <2>1. UsesObject(j) /\ refFmu'[j] = refFmu[j]
      BY <1>3
    <2> QED BY <1>1, <1>3, <2>1 DEF UsesObject, BareFmuFor
  <1>13. UsesObject(i)'
    <2>1. refFmu'[i] = sharedFmus'[devices'[i].name] /\ devices'[i].name \in DOMAIN sharedFmus'
      BY <1>1, <1>2, <1>3 DEF o
    <2>2. fmu_'[refFmu'[i]] = BareFmuFor(devices[refFmu[i]])'
      BY <1>1, <1>3, <1>9 DEF BareFmuFor
    <2> QED BY <1>1, <1>2, <1>3, <1>8, <2>1, <2>2 DEF UsesObject
  <1> QED BY <1>3, <1>4, <1>5, <1>6, <1>7, <1>12, <1>13

LEMMA CreateKeepsInv ==
    ASSUME FactoryInv, NEW i \in DOMAIN devices, StartDevice(i), CreateFmu(i)
    PROVE  FactoryInv' /\ process' = process
  <1> DEFINE d == devices[i]
  <1> USE DEF FactoryInv
  <1>1. UNCHANGED <<collections, shared, configs, read, devices>>
    BY DEF StartDevice
  <1>2. i \notin DOMAIN refFmu /\ ~Found(d)
    BY DEF StartDevice, CreateFmu
  <1>3. i \in Objects
    BY DeviceHasObject
  <1>4. process' = process
    <2>1. BareFmuFor(d) # Null
      BY BareFmuOfReady DEF DevicesReady
    <2> QED BY <2>1 DEF CreateFmu
  <1>5. /\ DOMAIN refFmu' = DOMAIN refFmu \cup {i}
        /\ refFmu'[i] = i
        /\ \A x \in DOMAIN refFmu : refFmu'[x] = refFmu[x]
    BY <1>2 DEF CreateFmu
  <1>6. /\ DOMAIN fmu_' = Objects
        /\ fmu_'[i] = BareFmuFor(d)
        /\ \A x \in Objects : x # i => fmu_'[x] = fmu_[x]
    BY <1>3 DEF CreateFmu, TypeInv
  <1>7. TypeInv'
    BY <1>1, <1>5, <1>6 DEF TypeInv, CollectionsTyped, SortedByType
  <1>8. DevicesFit'
    BY <1>1 DEF DevicesFit
  <1>9. DevicesReady'
    BY <1>1 DEF DevicesReady, Ready
  <1>10. shared => /\ DOMAIN sharedFmus' = DOMAIN sharedFmus \cup {d.name}
                   /\ sharedFmus'[d.name] = i
                   /\ d.name \notin DOMAIN sharedFmus
                   /\ \A x \in DOMAIN sharedFmus : sharedFmus'[x] = sharedFmus[x]
    BY <1>2 DEF CreateFmu, Found
  <1>11. ~shared => sharedFmus' = sharedFmus
    BY DEF CreateFmu
  <1>12. SharedByName'
    BY <1>1, <1>5, <1>10, <1>11 DEF SharedByName, TypeInv
  <1>13. DOMAIN refFmu \subseteq Objects
    BY DeviceHasObject DEF TypeInv
  <1>14. ASSUME NEW j \in DOMAIN refFmu
         PROVE  UsesObject(j)'
    <2>1. UsesObject(j) /\ refFmu'[j] = refFmu[j]
      BY <1>5
    <2>2. refFmu[j] \in DOMAIN refFmu /\ refFmu[j] # i /\ refFmu[j] \in Objects
      BY <1>2, <1>13, <2>1 DEF UsesObject
    <2>3. fmu_'[refFmu'[j]] = BareFmuFor(devices[refFmu[j]])'
      BY <1>1, <1>6, <2>1, <2>2 DEF UsesObject, BareFmuFor
    <2>4. shared => /\ devices'[j].name \in DOMAIN sharedFmus'
                    /\ refFmu'[j] = sharedFmus'[devices'[j].name]
      BY <1>1, <1>10, <2>1 DEF UsesObject
    <2> QED BY <1>1, <1>5, <2>1, <2>2, <2>3, <2>4 DEF UsesObject
  <1>15. UsesObject(i)'
    <2>1. fmu_'[refFmu'[i]] = BareFmuFor(devices[refFmu[i]])'
      BY <1>1, <1>5, <1>6 DEF BareFmuFor
    <2> QED BY <1>1, <1>5, <1>10, <2>1 DEF UsesObject
  <1> QED BY <1>4, <1>5, <1>7, <1>8, <1>9, <1>12, <1>14, <1>15

-----------------------------------------------------------------------------

LEMMA FactoryInvInit ==
    ASSUME Init
    PROVE  FactoryInv
  <1>1. configs \in Seq(Config) /\ Len(configs) \in Nat
    BY FmuFactoriesAssumption DEF Init
  <1>2. devices = <<>> /\ devices \in Seq(Range(devices)) /\ DOMAIN devices = {} /\ Len(devices) = 0
    BY DEF Init
  <1>3. \A k \in Collections : collections[k] = <<>> /\ DOMAIN collections[k] = {}
    BY DEF Init, ManagerInit
  <1>4. CollectionsTyped /\ SortedByType
    BY <1>3 DEF Init, ManagerInit, CollectionsTyped, SortedByType
  <1>5. TypeInv
    BY <1>1, <1>2, <1>4 DEF Init, ManagerInit, TypeInv
  <1>6. DevicesFit
    <2>1. UpTo(configs)[0] = 0
      BY <1>5, UpToCounts DEF TypeInv, Counts
    <2> QED BY <1>2, <2>1 DEF Init, DevicesFit
  <1> QED BY <1>2, <1>5, <1>6 DEF Init, FactoryInv, DevicesReady, SharedByName

LEMMA FactoryInvStep ==
    ASSUME FactoryInv, [Next]_factoryVars
    PROVE  FactoryInv'
  <1>1. CASE ReadConfig
    BY <1>1, ReadKeepsInv
  <1>2. ASSUME NEW i \in DOMAIN devices, StartDevice(i)
        PROVE  FactoryInv'
    BY <1>2, TakeKeepsInv, CreateKeepsInv DEF StartDevice
  <1>3. CASE UNCHANGED factoryVars
    BY <1>3 DEF factoryVars, managerVars, FactoryInv, TypeInv, DevicesFit, DevicesReady, Ready,
       UsesObject, SharedByName, CollectionsTyped, SortedByType, BareFmuFor
  <1> QED BY <1>1, <1>2, <1>3 DEF Next, Ended

(* While configs are read and devices start, each device has the type and  *)
(* the source of FMU that its config names, and shares it by name only.    *)
THEOREM FactoryInvHolds == Spec => []FactoryInv
  <1>1. Init => FactoryInv
    BY FactoryInvInit
  <1>2. FactoryInv /\ [Next]_factoryVars => FactoryInv'
    BY FactoryInvStep
  <1> QED BY <1>1, <1>2, PTL DEF Spec

LEMMA InvGivesFmu ==
    ASSUME FactoryInv
    PROVE  DevicesHaveFmu
  <1> SUFFICES ASSUME NEW i \in DOMAIN refFmu
               PROVE  FmuOfDevice(i) # Null /\ FmuType[FmuOfDevice(i).dir] = "fmi_2_0_cs"
    BY DEF DevicesHaveFmu
  <1>1. refFmu[i] \in DOMAIN devices /\ FmuOfDevice(i) = BareFmuFor(devices[refFmu[i]])
    BY DEF FactoryInv, UsesObject, TypeInv, FmuOfDevice
  <1>2. Ready(devices[refFmu[i]])
    BY <1>1 DEF FactoryInv, DevicesReady
  <1> QED BY <1>1, <1>2, BareFmuOfReady DEF FactoryInv, Ready

LEMMA InvGivesTheirFmu ==
    ASSUME FactoryInv
    PROVE  DevicesUseTheirFmu
  <1> SUFFICES ASSUME NEW i \in DOMAIN refFmu, NEW j \in DOMAIN refFmu
               PROVE  /\ ~shared => FmuOfDevice(i).dir = devices[i].dir
                      /\ i # j => (refFmu[i] = refFmu[j] <=> shared /\ devices[i].name = devices[j].name)
    BY DEF DevicesUseTheirFmu
  <1>1. UsesObject(i) /\ UsesObject(j) /\ SharedByName
    BY DEF FactoryInv
  <1>2. CASE ~shared
    <2>1. refFmu[i] = i /\ refFmu[j] = j
      BY <1>1, <1>2 DEF UsesObject
    <2>2. FmuOfDevice(i) = BareFmuFor(devices[i]) /\ i \in DOMAIN devices
      BY <1>1, <2>1 DEF FactoryInv, TypeInv, FmuOfDevice, UsesObject
    <2>3. FmuOfDevice(i).dir = devices[i].dir
      BY <1>2, <2>2, BareFmuOfReady DEF FactoryInv, DevicesReady, Ready
    <2> QED BY <1>2, <2>1, <2>3
  <1>3. CASE shared
    <2>1. /\ devices[i].name \in DOMAIN sharedFmus /\ refFmu[i] = sharedFmus[devices[i].name]
          /\ devices[j].name \in DOMAIN sharedFmus /\ refFmu[j] = sharedFmus[devices[j].name]
      BY <1>1, <1>3 DEF UsesObject
    <2>2. refFmu[i] = refFmu[j] => devices[i].name = devices[j].name
      BY <1>1, <2>1 DEF SharedByName
    <2> QED BY <1>3, <2>1, <2>2
  <1> QED BY <1>2, <1>3

(* Every device that starts gets an FMU of FMI 2.0 for co-simulation: what *)
(* loadFMU() reported when its config was read still holds when the device *)
(* looks the identifier up.                                                *)
THEOREM StartedDevicesHaveFmu == Spec => []DevicesHaveFmu
  <1>1. FactoryInv => DevicesHaveFmu
    BY InvGivesFmu
  <1> QED BY <1>1, FactoryInvHolds, PTL

(* A device works with the FMU of its config, and RefFMU objects are       *)
(* shared by name only.                                                    *)
THEOREM DevicesUseWhatIsConfigured == Spec => []DevicesUseTheirFmu
  <1>1. FactoryInv => DevicesUseTheirFmu
    BY InvGivesTheirFmu
  <1> QED BY <1>1, FactoryInvHolds, PTL

-----------------------------------------------------------------------------
(* Who writes results.                                                     *)

(* Of the devices just installed, the one of the first node.               *)
LEMMA NewWriter ==
    ASSUME TypeInv, WritersInv, ReadConfig, Accepts, NEW k, k = read + 1
    PROVE  OneWriterOf(k)'
  <1> DEFINE config == configs[k]
             nodes == config.nodes
             n == Cardinality(nodes)
             base == Len(devices)
  <1>1. k \in 1 .. Len(configs) /\ UNCHANGED <<configs, shared>>
    BY ReadConfigCases
  <1>2. nodes \in SUBSET Nat /\ nodes # {} /\ IsFiniteSet(nodes) /\ config.write \in BOOLEAN
    BY <1>1, ConfigType
  <1>3. /\ InOrder(nodes) \in [1 .. n -> nodes]
        /\ \A i, j \in 1 .. n : InOrder(nodes)[i] = InOrder(nodes)[j] => i = j
        /\ \A x \in nodes : \E i \in 1 .. n : InOrder(nodes)[i] = x
    BY <1>2, InOrderHasAll
  <1>4. ASSUME NEW i \in DOMAIN devices' \ DOMAIN devices
        PROVE  /\ i - base \in 1 .. n
               /\ devices'[i].config = k
               /\ devices'[i].writes <=> config.write /\ InOrder(nodes)[i - base] = Min(nodes)
    <2>1. i - base \in 1 .. n /\ devices'[i] = DeviceOf(config, InOrder(nodes)[i - base])
      BY ReadAppends
    <2>2. devices'[i].config = k /\ devices'[i].writes = Writes(config, InOrder(nodes)[i - base])
      BY <2>1 DEF DeviceOf
    <2> QED BY <2>1, <2>2 DEF Writes
  <1>5. \A i \in DOMAIN devices : devices'[i] = devices[i] /\ devices[i].config # k
    <2>1. read \in Nat
      BY DEF TypeInv
    <2> QED BY <2>1, ReadAppends DEF WritersInv
  <1>6. \A i \in WritersOf(k)' : i \in DOMAIN devices' \ DOMAIN devices /\ devices'[i].writes
    BY <1>5 DEF WritersOf
  <1>7. CASE ~config.write
    <2>1. WritersOf(k)' = {}
      BY <1>4, <1>6, <1>7
    <2> QED BY <1>1, <1>7, <2>1, ReadConfigCases DEF OneWriterOf
  <1>8. CASE config.write
    <2>1. PICK first \in 1 .. n : InOrder(nodes)[first] = Min(nodes)
      BY <1>2, <1>3, MinIsLeast
    <2>2. base \in Nat /\ n \in Nat /\ base + first \in DOMAIN devices' \ DOMAIN devices
      BY ReadAppends
    <2>3. (base + first) - base = first
      BY <2>2
    <2>4. base + first \in WritersOf(k)'
      BY <1>4, <1>8, <2>1, <2>2, <2>3 DEF WritersOf
    <2>5. ASSUME NEW i \in WritersOf(k)'
          PROVE  i = base + first
      <3>1. i - base \in 1 .. n /\ InOrder(nodes)[i - base] = Min(nodes)
        BY <1>4, <1>6
      <3>2. i - base = first
        BY <1>3, <2>1, <3>1
      <3>3. i \in Nat
        <4>1. devices' \in Seq(Range(devices'))
          BY ReadKeepsType DEF TypeInv
        <4> QED BY <1>6, <4>1
      <3> QED BY <2>2, <3>2, <3>3
    <2> QED BY <1>1, <1>8, <2>2, <2>4, <2>5, ReadConfigCases DEF OneWriterOf
  <1> QED BY <1>2, <1>7, <1>8

LEMMA OldWriters ==
    ASSUME TypeInv, WritersInv, ReadConfig, process = "running", NEW k \in 1 .. read
    PROVE  OneWriterOf(k)'
  <1>1. OneWriterOf(k)
    BY DEF WritersInv
  <1>2. k # read + 1 /\ UNCHANGED configs
    <2>1. read \in Nat
      BY DEF TypeInv
    <2> QED BY <2>1, ReadConfigCases
  <1>3. ASSUME NEW i \in DOMAIN devices' \ DOMAIN devices
        PROVE  devices'[i].config # k
    <2>1. devices'[i].config = read + 1
      BY ReadAppends DEF DeviceOf
    <2> QED BY <1>2, <2>1
  <1>4. WritersOf(k)' = WritersOf(k)
    BY <1>3, ReadAppends DEF WritersOf
  <1>5. DOMAIN devices \subseteq DOMAIN devices'
    BY ReadAppends
  <1> QED BY <1>1, <1>2, <1>4, <1>5 DEF OneWriterOf

LEMMA WritersInvStep ==
    ASSUME FactoryInv, WritersInv, [Next]_factoryVars
    PROVE  WritersInv'
  <1> USE DEF FactoryInv
  <1>1. CASE ReadConfig
    <2>1. read \in Nat /\ read' = read + 1
      BY <1>1, ReadConfigCases DEF TypeInv
    <2>2. ASSUME NEW i \in DOMAIN devices'
          PROVE  devices'[i].config \in 1 .. read'
      <3>1. CASE i \in DOMAIN devices
        <4>1. devices'[i] = devices[i] /\ devices[i].config \in 1 .. read
          BY <1>1, <3>1, ReadAppends DEF WritersInv
        <4> QED BY <2>1, <4>1
      <3>2. CASE i \notin DOMAIN devices
        <4>1. devices'[i].config = read + 1
          BY <1>1, <2>2, <3>2, ReadAppends DEF DeviceOf
        <4> QED BY <2>1, <4>1
      <3> QED BY <3>1, <3>2
    <2>3. ASSUME process' = "running", NEW k \in 1 .. read'
          PROVE  OneWriterOf(k)'
      <3>1. Accepts
        BY <1>1, <2>3, ReadConfigCases
      <3>2. CASE k = read + 1
        BY <1>1, <3>1, <3>2, NewWriter
      <3>3. CASE k # read + 1
        <4>1. k \in 1 .. read
          BY <2>1, <3>3
        <4> QED BY <1>1, <3>1, <4>1, OldWriters DEF Accepts
      <3> QED BY <3>2, <3>3
    <2> QED BY <2>2, <2>3 DEF WritersInv
  <1>2. ASSUME NEW i \in DOMAIN devices, StartDevice(i)
        PROVE  WritersInv'
    <2>1. UNCHANGED <<process, configs, read, devices>>
      BY <1>2, CreateKeepsInv DEF StartDevice, TakeSharedFmu
    <2> QED BY <2>1 DEF WritersInv, OneWriterOf, WritersOf
  <1>3. CASE UNCHANGED factoryVars
    BY <1>3 DEF factoryVars, managerVars, WritersInv, OneWriterOf, WritersOf
  <1> QED BY <1>1, <1>2, <1>3 DEF Next, Ended

LEMMA InvGivesOneWriter ==
    ASSUME FactoryInv, WritersInv
    PROVE  OneWriterPerConfig
  <1> SUFFICES ASSUME process = "running", NEW k \in 1 .. read
               PROVE  Cardinality(WritersOf(k)) = IF configs[k].write THEN 1 ELSE 0
    BY DEF OneWriterPerConfig, WritersOf
  <1>1. OneWriterOf(k)
    BY DEF WritersInv
  <1>2. CASE configs[k].write
    BY <1>1, <1>2, FS_Singleton DEF OneWriterOf
  <1>3. CASE ~configs[k].write
    BY <1>1, <1>3, FS_EmptySet DEF OneWriterOf
  <1> QED BY <1>2, <1>3

(* Of the devices of a config that asks for results one writes them, and   *)
(* none of a config that does not, whatever nodes share the FMU.           *)
THEOREM OneWriterOfResults == Spec => []OneWriterPerConfig
  <1>1. Init => WritersInv
    <2> SUFFICES ASSUME Init PROVE WritersInv
      OBVIOUS
    <2>1. DOMAIN devices = {} /\ 1 .. read = {}
      BY DEF Init
    <2> QED BY <2>1 DEF WritersInv
  <1>2. FactoryInv /\ WritersInv /\ [Next]_factoryVars => WritersInv'
    BY WritersInvStep
  <1>3. FactoryInv /\ WritersInv => OneWriterPerConfig
    BY InvGivesOneWriter
  <1> QED BY <1>1, <1>2, <1>3, FactoryInvHolds, PTL DEF Spec

=============================================================================
