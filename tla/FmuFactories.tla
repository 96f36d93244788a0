---------------------------- MODULE FmuFactories ----------------------------
(***************************************************************************)
(* helper/fmu-attached-device-factory.cc and fmu-shared-device-factory.cc: *)
(* the factory reads the FMU config files of a simulation in their order,  *)
(* loads the FMU of each with the model manager and installs the devices   *)
(* on their nodes; the devices then start in any order and take their FMU  *)
(* from the manager. Both factories read "fmu_config_files", so that a     *)
(* simulation uses one of them.                                            *)
(***************************************************************************)
EXTENDS ModelManager, FiniteSetsExt

CONSTANTS
    ConfigLists,  \* the lists of FMU configs a simulation may name
    Names,        \* shared_instance_name
    NoClient,
    MaxDevices    \* bound: number of devices the configs of a simulation ask for

(* A config file: the node it is for, or the nodes that share the FMU; the *)
(* data endpoints as pairs of a device and a client; fmu_res_write.        *)
Config == [dir : Dirs, nodes : (SUBSET Nat) \ {{}}, name : Names,
           pairs : Seq([device : Nat, client : Nat]), write : BOOLEAN]

(* No list asks for more devices than MaxDevices.                          *)
WithinBound(list) ==
    \E upTo \in [0 .. Len(list) -> 0 .. MaxDevices] :
        /\ upTo[0] = 0
        /\ \A k \in DOMAIN list : upTo[k] = upTo[k - 1] + Cardinality(list[k].nodes)

ASSUME FmuFactoriesAssumption ==
    /\ ConfigLists \subseteq Seq(Config)
    /\ \A list \in ConfigLists : \A k \in DOMAIN list : IsFiniteSet(list[k].nodes)
    /\ \A list \in ConfigLists : WithinBound(list)
    /\ NoClient \notin Nat
    /\ MaxDevices \in Nat
    /\ Objects = 1 .. MaxDevices

VARIABLES
    shared,      \* TRUE iff the factory is the one for shared devices
    configs,     \* fmu_config_files
    read,        \* number of configs the factory has read
    devices,     \* m_apps: the installed devices
    refFmu,      \* of each device that has started, the RefFMU object it uses
    sharedFmus   \* m_sharedFmuCollection: name -> RefFMU object

factoryVars == <<managerVars, shared, configs, read, devices, refFmu, sharedFmus>>

-----------------------------------------------------------------------------
(* initFmuDeviceFactory(), for one config.                                 *)

DuplicateAccepted(status) == status \in {"success", "duplicate"}
StatusAccepted(status) ==
    status = "success" \/ (shared /\ status = "duplicate")

AnyType(type) == TRUE
TypeAccepted(type) == type = "fmi_2_0_cs"

(* parse_endpoint_pairs() and checkEndpointPairs() of the shared factory.  *)
PairsAccepted(config) ==
    shared => \A i \in DOMAIN config.pairs :
        /\ config.pairs[i].device # config.pairs[i].client
        /\ config.pairs[i].device \in config.nodes

(* Later attributes RemoteAddress overwrite earlier ones.                  *)
ClientOf(config, node) ==
    LET mine == {i \in DOMAIN config.pairs : config.pairs[i].device = node} IN
    IF mine = {} THEN NoClient ELSE config.pairs[Max(mine)].client

(* Only the first endpoint writes results ("avoid duplicate results").     *)
EachWrites(config, node) == config.write
Writes(config, node) == config.write /\ node = Min(config.nodes)

(* The model identifier of the config is overwritten by loadFMU(); dir and *)
(* config tell where the device comes from.                                *)
DeviceOf(config, node) ==
    [config     |-> read + 1,
     node       |-> node,
     dir        |-> config.dir,
     identifier |-> IdentifierOf(config.dir),
     name       |-> config.name,
     writes     |-> Writes(config, node),
     client     |-> ClientOf(config, node)]

(* The std::set of the nodes is gone through in their order.               *)
InOrder(nodes) ==
    CHOOSE seq \in [1 .. Cardinality(nodes) -> nodes] :
        \A i, j \in DOMAIN seq : i < j => seq[i] < seq[j]

Install(config) ==
    LET nodes == InOrder(config.nodes)
    IN [i \in DOMAIN nodes |-> DeviceOf(config, nodes[i])]

ReadConfig ==
    LET config   == configs[read + 1]
        accepted == /\ StatusAccepted(StatusOfLoad(config.dir))
                    /\ TypeAccepted(FmuType[config.dir])
                    /\ PairsAccepted(config)
    IN
    /\ process = "running"
    /\ read < Len(configs)
    /\ read' = read + 1
    /\ collections' = CollectionsAfterLoad(config.dir)
    /\ IF ProcessAfterLoad(config.dir) = "running" /\ accepted
       THEN devices' = devices \o Install(config) /\ UNCHANGED process
       ELSE /\ process' = IF ProcessAfterLoad(config.dir) = "running" THEN "aborted"
                          ELSE ProcessAfterLoad(config.dir)
            /\ UNCHANGED devices
    /\ UNCHANGED <<fmu_, shared, configs, refFmu, sharedFmus>>

-----------------------------------------------------------------------------
(* initFmu() of a device that starts: a shared device takes the RefFMU of  *)
(* its name, any other one constructs its own by the model identifier. The *)
(* init callback instantiates the new one, which fails without an FMU.     *)

Found(d) == shared /\ d.name \in DOMAIN sharedFmus

BareFmuFor(d) == Get(collections, instanceCollection, d.identifier)

TakeSharedFmu(i) ==
    /\ Found(devices[i])
    /\ refFmu' = [x \in DOMAIN refFmu \cup {i} |->
                    IF x = i THEN sharedFmus[devices[i].name] ELSE refFmu[x]]
    /\ UNCHANGED <<process, fmu_, sharedFmus>>

CreateFmu(i) ==
    /\ ~Found(devices[i])
    /\ fmu_' = [fmu_ EXCEPT ![i] = BareFmuFor(devices[i])]
    /\ process' = IF BareFmuFor(devices[i]) = Null THEN "aborted" ELSE process
    /\ refFmu' = [x \in DOMAIN refFmu \cup {i} |-> IF x = i THEN i ELSE refFmu[x]]
    /\ sharedFmus' =
         IF shared THEN [x \in DOMAIN sharedFmus \cup {devices[i].name} |->
                            IF x = devices[i].name THEN i ELSE sharedFmus[x]]
         ELSE sharedFmus

StartDevice(i) ==
    /\ process = "running"
    /\ read = Len(configs)
    /\ i \notin DOMAIN refFmu
    /\ TakeSharedFmu(i) \/ CreateFmu(i)
    /\ UNCHANGED <<collections, shared, configs, read, devices>>

(* The program is gone, or all devices have started.                       *)
Ended ==
    /\ process # "running" \/ (read = Len(configs) /\ DOMAIN refFmu = DOMAIN devices)
    /\ UNCHANGED factoryVars

Init ==
    /\ ManagerInit
    /\ shared \in BOOLEAN
    /\ configs \in ConfigLists
    /\ \A i \in DOMAIN configs : ~shared => Cardinality(configs[i].nodes) = 1
    /\ read = 0
    /\ devices = <<>>
    /\ refFmu = <<>>
    /\ sharedFmus = <<>>

Next ==
    \/ ReadConfig
    \/ \E i \in DOMAIN devices : StartDevice(i)
    \/ Ended

Spec == Init /\ [][Next]_factoryVars

-----------------------------------------------------------------------------

(* The bare FMU a started device works with.                               *)
FmuOfDevice(i) == fmu_[refFmu[i]]

(* Every device that starts gets an FMU it can drive, one of FMI 2.0 for   *)
(* co-simulation only: what loadFMU() reported when the config was read    *)
(* still holds when the device looks the identifier up, also for an FMU    *)
(* that had been loaded before and was not loaded again.                   *)
DevicesHaveFmu ==
    process = "running" => \A i \in DOMAIN refFmu :
        /\ FmuOfDevice(i) # Null
        /\ FmuType[FmuOfDevice(i).dir] = "fmi_2_0_cs"

(* A device that shares no FMU has the one of the directory its config     *)
(* names, and no other device has the same RefFMU object; devices that     *)
(* share one do so by name.                                                *)
DevicesUseTheirFmu ==
    \A i, j \in DOMAIN refFmu :
        /\ ~shared /\ FmuOfDevice(i) # Null => FmuOfDevice(i).dir = devices[i].dir
        /\ i # j => (refFmu[i] = refFmu[j] <=> shared /\ devices[i].name = devices[j].name)

(* Only one of the devices of a config writes its results file, and only   *)
(* when the config says so, whatever nodes share the FMU.                  *)
OneWriterPerConfig ==
    process = "running" => \A k \in 1 .. read :
        Cardinality({i \in DOMAIN devices : devices[i].config = k /\ devices[i].writes})
          = IF configs[k].write THEN 1 ELSE 0

(* README, fmu_config_files: "for each node ID [...], an FMU-attached      *)
(* device according to the specified FMU config file will be created",     *)
(* when every config names an FMU that can be loaded and driven.           *)
Sound(config) ==
    /\ Description[config.dir] = "valid"
    /\ Library[config.dir] = "complete"
    /\ FmuType[config.dir] = "fmi_2_0_cs"
    /\ PairsAccepted(config)

EveryNodeHasDevice ==
    (\A k \in DOMAIN configs : Sound(configs[k])) =>
        \A k \in 1 .. read : \A node \in configs[k].nodes :
            \E i \in DOMAIN devices : devices[i].node = node /\ devices[i].dir = configs[k].dir

=============================================================================
