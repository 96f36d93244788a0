# A formal model of FMU-attached devices for Hypatia

This directory holds TLA+ specifications of the program in `src/`: ns-3
applications whose state is computed by Functional Mock-up Units (FMUs), the
factories that set a simulation up with them, and the vendored `fmipp` library
through which FMUs are loaded and stepped. TLC checks the specifications on small
instances, TLAPS proves theorems about them for every value of their constants.
`PROJECT.json` lists components, runs, mutants, the lines each definition stands
for, hazards, findings and theorems.

## 1. Inventory

Sources are named relative to `src/`; `B`, `I`, `U` stand for
`fmipp/import/base`, `.../integrators`, `.../utility`.

| Component | State | Operations | Correct when |
|---|---|---|---|
| Payload ids (`model/payload`) | one 32-bit counter per process | construct a payload (fresh id), construct the invalid one | an id that is in use is not handed out again |
| Device client (`model/device-client`) | socket, next local port (static), pending `Process`/`Send` calls, map id → slot, three vectors of times | start, stop, `Process`, `Send`, `HandleRead` | a reply closes the slot of its own request; no request is forgotten |
| FMU-attached device (`model/fmu-attached-device`) | socket, FMU, pending `Process`/`Send`/`WriteData` calls, results file | start, stop, `Process`, `Send`, `HandleRead`, `WriteData`, `initFmu`, do-step loop | the FMU is where the simulation is when its state is reported |
| FMU-shared device (`model/fmu-shared-device`) | collection name → FMU (static) | `initFmu`, `stepFmu` | one instance per name, never initialized twice |
| Processing time (`model/processing-time`) | a gamma-distributed variable | `GetValue` | delays are not negative |
| Device client factory (`helper/device-client-factory`) | the installed clients | install, `WriteResults` | results agree with the ledgers |
| FMU device factories (`helper/fmu-*-device-factory`) | the installed devices | read the FMU configs, load FMUs, install | every node gets a device with an FMU it can drive |
| Model manager (`B/ModelManager`, `BareFMU`) | three collections identifier → bare FMU (singleton) | `loadFMU` (two), `unloadFMU`, `unloadAllFMUs`, `get*` | one FMU per identifier; one in use is never given up |
| FMU objects (`B/FMUCoSimulation_v1/v2`, `FMUModelExchange_v1/v2`) | pointer to a bare FMU, instance, time, last status | construct (from a directory, by identifier, copy), destroy, instantiate, initialize, `doStep`, `integrate`, `terminate` | an object drives an FMU of its kind; time and status are those of the last call |
| Integrators (`I/Integrator`, `IntegratorStepper`, `B/DynamicalSystem`) | a record of the last step, saved event indicators | `integrate` with the search for state events | no change of sign is missed; time and states stay together |
| Rollback FMU (`U/RollbackFMU`) | a saved time and states | `integrate` with its rollback, save, release | no event is passed, whatever is rolled back |
| Incremental FMU (`U/IncrementalFMU`, `History`) | predictions of future states, the time of the last one | `init`, `sync` with and without inputs (update, predict) | what is predicted and read goes with the time and the inputs; predictions change nothing; no event is skipped |
| Step-size wrappers (`U/FixedStepSizeFMU`, `InterpolatingFixedStepSizeFMU`, `VariableStepSizeFMU`) | current state, communication point | `init`, `sync`, `iterateOnce` | outputs are of one time; the returned time tells what was reached |
| Model description, log buffer, callbacks, path conversion, headers, build files | none that changes | | not modelled, or as constants |

**How they interact.** A factory loads the FMU of each config with the model
manager and installs applications on ns-3 nodes. ns-3 starts the applications;
each device makes or shares an FMU object, which takes its bare FMU from the
manager. Clients send requests over simulated UDP; a device steps its FMU to the
current time with a callback, schedules the answer after a processing time, and may
send data or write results on its own schedule. All applications share the payload
counter, clients share the port counter, devices of one name share an FMU. When the
simulation is over, the client factory reads the ledgers of the clients.

**What is hard.** Everything runs on one thread, but in callbacks: events of
several applications at one simulated time, answers that arrive in another order
than the requests or not at all, `Send` calls that overlap because the processing
time exceeds the interval, applications stopped with calls pending, an FMU moved by
several devices, an identifier that is already taken by another FMU, an FMU
unloaded while copies of its objects exist, a load that fails half-way. In the
library: calls of an FMU that fail or warn, of which the object keeps only the last
status; a search that takes an FMU back and forth around an event; flags and records
that outlive the call they are about; an FMU that has run ahead of the time its
program thinks it is at; times that are compared up to a resolution.
`PROJECT.json` lists these hazards, each at its line with the properties for it.

## 2. Modules

`DeviceExchange` composes the applications; `FmuObjects` and `FmuFactories` each
extend the model manager with one of its users. `CoSimulation` puts a program and the
wrappers on top of a slave, and shows that each of them keeps `SyncContract`;
`RollbackFmu` puts one on top of `ModelExchange` and
`Integration`, and shows that they implement `IntegrationContract`. `IncrementalFmu`
uses an FMU through that contract only.

| Module | Models | Main definitions |
|---|---|---|
| `Simulation` | `payload.*`, and ns-3's clock, sockets and packets as the applications use them (external) | `NextId`, `PacketOf`, `DropPacket`, `Running` |
| `DeviceClient` | `device-client.cc` | one action per handler: `ClientStart`, `ClientStop`, `ClientProcess`, `ClientSend`, `ClientHandleRead` |
| `FmuDevice` | `fmu-attached-device.cc`, `fmu-shared-device.cc` | `DeviceStart` (with `InitFmu`), `DeviceStop`, `DeviceProcess`, `DeviceHandleRead`, `DeviceSend`, `WriteData`; the do-step loop is `SteppedTo` |
| `DeviceExchange` | both together in one simulation | `Tick`, `Ended`, the properties |
| `RequestLedger` | what clients promise: an abstract specification | `Request`, `Answer`, `Elapse` |
| `ClientResults` | `WriteResults` of `device-client-factory.cc` | `Row`, `Statistics`, `Summary` |
| `ModelManager` | `ModelManager.cpp`, `BareFMU.cpp` | `LoadFMU`, `LoadFMUAs`, `UnloadFMU`, `UnloadAllFMUs`, `Get` |
| `FmuObjects` | the FMU objects of a program as holders of bare FMUs | `ConstructFromDirectory`, `ConstructByIdentifier`, `Copy`, `Destroy`, and the program's calls of the manager |
| `FmuRegistry` | what the manager promises: an abstract specification | `Load`, `Unload`, `Take`, `Release` |
| `FmuFactories` | both FMU device factories and `initFmu` of their devices | `ReadConfig`, `StartDevice` |
| `CoSimulationSlave` | `FMUCoSimulation_v1.cpp`, `_v2.cpp` after construction | `Instantiate`, `Initialize`, `DoStep`, `Terminate`, the getters and setters by reference, name and array |
| `StepSizeFmu` | the three step-size wrappers | `InitFixed`, `InitInterpolating`, `InitVariable`, `SyncFixed`, `SyncInterpolating`, `SyncVariable`, `SyncWithInputs`, `IterateOnce` |
| `CoSimulation` | a program that uses a slave directly or through a wrapper | one action per call |
| `SyncContract` | what `init`, `sync` and `iterateOnce` of a wrapper promise: an abstract specification | `Start`, `Sync`, `Refuse`, `Iterate`, `Delete` |
| `Integration` | `Integrator.cpp`, `IntegratorStepper.cpp`, the indicators of `DynamicalSystem.cpp` | `Begin`, `OdeintStep`, `DenseStep`, `Clip`, `Bisect`, `Located` |
| `ModelExchange` | `integrate`, `stepOverEvent`, `handleEvents` of `FMUModelExchange_v1.cpp`, `_v2.cpp` | `Integrate`, `Iterate`, `AfterIntegration`, `FinishIntegration`, `HandleArrival` |
| `RollbackFmu` | `RollbackFMU.cpp`, and a program that uses it or the object itself | `CallIntegrate`, `RollbackTo`, `RolledBack`, `Save`, `Release` |
| `IntegrationContract` | what `integrate` promises: an abstract specification | `Outcome`, `Put` |
| `IncrementalFmu` | `IncrementalFMU.cpp`, `History.cpp` | `UpdateState`, `UpdateStateFromTheRight`, `SyncState`, `StartPrediction`, `PredictState` |
| `MCDeviceExchange`, `MCFmuObjects`, `MCFmuFactories`, `MCCoSimulation`, `MCRollbackFmu`, `MCIncrementalFmu` | instances for TLC | |
| `Loops` | lemmas about recursive functions, for every proof about a loop | `NatHasMin`, `LoopKeeps`, `Recursion` |
| `DeviceExchangeProofs`, `TrafficProofs`, `FmuObjectsProofs`, `FmuFactoriesProofs`, `CoSimulationProofs`, `RollbackFmuProofs`, `IncrementalFmuProofs` | theorems | |

Variables carry the names of the members they stand for (without `m_`). What is
abstracted:

- A message is its sequence number, its timestamp and its addresses. The text, and
  the values an FMU computes, are left out: no property is about them.
- Time is in ticks. A processing time is any member of a set of delays.
- The network may lose and reorder packets. UDP in ns-3 does not duplicate them.
- Events of one time run in any order. ns-3 orders them by insertion, over the whole
  simulation, so that the model has more behaviours than the program.
- The FMU is its time and whether a call of it fails.
- A directory with an FMU is its identifiers, its type, and what is wrong with it.
  The hundred lines that look up functions in a library are `Library[dir]`.
- Assertions are enabled, as in the debug profile the README of the repository
  builds. A false one, an ns-3 abort and a dereferenced null pointer end the program
  (`status`, `process`).
- A slave is where its instance is in its life, the time the object keeps, the time
  the FMU is at, and the values of its variables. Each call of the FMU may answer
  with any status of `FmuStatuses`.
- A model exchange FMU has one continuous state, which grows with the time, and one
  indicator, which changes its sign at `crossings`: the state then tells the time it
  belongs to, and a lost or doubled step shows. Steppers are told apart by what they
  tell the `Integrator` (constant step, controlled step, dense output), not by their
  numerics.
- A prediction of `IncrementalFmu` is its time, its state, real outputs that tell the
  state and the input, and other outputs that tell when the FMU last handled events.
- History variables, which the code does not have: `dropped`, `lastStepped`, `known`
  and `got` (what a program set and read), `abandoned` (an event it rolled back from),
  `now` and `drift` (what a program synchronized at); `left` only bounds roll backs.

## 3. Runs

Every configuration checks for deadlock. A simulation that is over and a program
that is gone take the stuttering steps `Ended` and `Gone`, so that a deadlock would
be an event loop, or a call, that gets stuck.

| Run | Question | Instance |
|---|---|---|
| `exchange` | Do replies close the right slots, in time, and do the results say so? | two clients of one node, with processing times of 0 or 2 against an interval of 2; a device they both ask and an idle one, delays 0 or 1; a lossy network; 4 ticks |
| `shared_fmu` | Is there one FMU per name, never late, never set back? | a client that may stop; two devices that share an FMU, one of which sends data and may stop, the other of which writes results; a third with its own FMU; FMU calls fail; 4 ticks |
| `listen_only` (violation) | Does the data of a device reach the client it is meant for? | two listen-only clients |
| `step_beyond_now` (violation) | Does the do-step loop stop at the current time? | two clients that ask at one time |
| `fmu_objects` | Does an object keep an FMU it can drive? | two objects of four classes; ten directories: one per type, one with two identifiers, three that claim one identifier, four that fail to load |
| `library_missing` (violation) | Does loading return a status? | as `fmu_objects` |
| `factories` | Does every device that starts have its FMU, and one writer per config? | both factories, all lists of up to two of nine configs |
| `attached_nodes` (violation) | Does every node get its device? | two nodes with the same FMU |
| `co_simulation` | Do clocks, communication points, outputs and results of a slave and its wrappers stay together when calls fail, and do all wrappers keep one contract? | both versions, direct and three wrappers; calls that succeed, warn or fail; steps of 2 from 1, to 2 or without end; four variables, two of one name |
| `integrate_and_roll_back` | Is `integrate` what it promises, with its search for events, and does it end? | both versions, with and without states, one controlled and one dense stepper; crossings at 5 and 11, a time event at 8; steps of 3 and 7, precision 8; targets 8 and 14; one return |
| `stale_step_event` (violation) | Is the record of an integration about that integration? | as `integrate_and_roll_back` |
| `incremental_fmu` | Do predictions go with the time and the inputs, change nothing and skip nothing? | resolution 2, horizon 8 in steps of 5; state events at 6 and 7, time events at 10 and 13, step events; two inputs; end at 15 |

Why the bounds are enough to be interesting: with 4 ticks and an interval of 2 a
client makes two requests that overlap (delay 2 meets the next `Process` call), two
clients interleave their ids, and answers come back in both orders. Delivery is
within the tick (`MaxDelay = 0`), in any order and with losses; delays are those of
processing. The step size of 1 makes the do-step loop run zero, one and several extra
times. With two objects one can hold an FMU while the other is destroyed, and copies
share one; the collections hold up to four FMUs, so that `unloadAllFMUs` can stop in
each of them. `IdSpace = 20` is never reached: the model stops handing out ids at the
wrap of the counter (`FreshIdLeft`), which a simulation would need 2^32 payloads for.

In `co_simulation` the step of 2 against a resolution of 1 and intervals that end
anywhere make a wrapper take no step, one or several, end on a communication point or
between two, and begin within the resolution of one; a stop time of 2 is passed by the first step,
after which the fixed wrappers stop while a program still asks for more; `MaxFmuTime` leaves room for an
FMU that moves with a warning beyond what was asked for. In `integrate_and_roll_back`
the precision of 8 lets half and an eighth of it be ticks; an accepted step may have any
length, so that it ends before, on or behind a crossing or the time event, or behind both
crossings, and the search for an event halves its interval up to twice; the targets lie on
the time event and behind the last crossing. One
return (`MaxReturns`) rolls back, releases or resets at any point of the way. In
`incremental_fmu` two state events are closer than the resolution, a time event falls
into a prediction that stopped before one, and the program may end up to `MaxDrift = 2`
off the predicted times: it goes back into the predictions, near their first or newest
and between two of them. Instances with `Ahead = 1`, `Horizon = 2` or `MaxDrift = 3`
hold too; with one less in `Slack` the properties fail.

Properties, in short: `LedgerConsistent`, `RequestsBelongToSlots`,
`OneMessagePerRequest` and `AnsweredInTime` relate the ledgers of clients to messages
and times; `LedgerSpec` says that the clients implement `RequestLedger`;
`ResultsConsistent` compares what is written with the ledgers; `OneFmuPerName`,
`FmuReachesNow`, `FmuTimeNeverBack` are about FMUs that several devices move;
`HeldFmusStay`, `LoadedFmusUsable`, `ObjectsFitTheirFmu` and `RegistrySpec` are about
the manager and its users; `DevicesHaveFmu`, `DevicesUseTheirFmu` and
`OneWriterPerConfig` about what factories install. `ClockFollowsFmu`,
`WrapperFollowsSlave`, `OutputsOfOneTime`, `NotAheadOfRequest` and
`ResultTellsProgress` relate the clocks of an FMU, its object and its wrapper to what
the program asked for and was told; `ReadAsSet` compares what it reads with what it
set, and `KeepsSyncContract` says that whichever of the three wrappers it uses, what it sees
is a behaviour of `SyncContract`. `StateMatchesTime`, `SignChangesActedOn`, `HorizonBracketsEvent` and
`NotPastTimeEvent` are about an integration that goes forth and back around events;
`ImplementsContract` says that it is within `IntegrationContract`, `CallReturns` and
`ReachesEnd` that it ends and gets further. `InterpolationBetween`,
`StatesGoWithTime`, `NoUpdateAhead` and `NoEventSkipped` relate predictions to the
FMU, the inputs, the time and the events; `ReachesEnd` says that following them gets a
program to its end. Each has a mutant in `PROJECT.json`: a plausible bug in one
definition that TLC finds with it.

**Fairness.** `RollbackFmu` and `IncrementalFmu` assume `WF_vars(Next)`: the program
has one thread, a call goes on until it returns, and the program goes on making calls
until it has got where it wants to. Nothing is assumed of what the FMU answers, of the
steps a stepper chooses or of which call is next: the liveness properties hold whatever
choices are made. Two restrictions are in the properties: only FMI 2.0 bounds its event
iteration, so that `CallReturns` is about it, and `ReachesEnd` of `RollbackFmu` leaves
the dense steppers out (see `stale_step_event`). `ReachesEnd` of `IncrementalFmu` is
about a program that asks for the times it is told; that a program may go back for ever
is its own choice. The other specifications assume no fairness. That requests are
answered is stated with a bound on time (`AnsweredInTime`), which the clock enforces: it
does not advance while a call is due, as ns-3 runs an event at its time.

## 4. Findings

- `listen_only`: clients number their ports from a static counter, factories send
  data to port 1025, so that only the first client started can receive any
  (`model/device-client.cc:122`).
- `step_beyond_now`: the do-step loop takes one step even when the FMU has reached the
  current time, so that several messages of one time take it ahead
  (`model/fmu-attached-device.cc:180`).
- `library_missing`: a library that cannot be opened crashes the program in the
  destructor of the bare FMU instead of returning `shared_lib_load_failed`
  (`fmipp/import/base/src/BareFMU.cpp:16`).
- `attached_nodes`: two nodes cannot have attached devices with the same FMU
  (`helper/fmu-attached-device-factory.cc:118`).

- `stale_step_event`: the dense steppers never clear the step event of their record, so
  that a later integration takes it for its own
  (`fmipp/import/integrators/src/IntegratorStepper.cpp:326`).

Read, and not the subject of a run. In the repository's README (line 173) the key is
`send_devices_endpoint_pairs` where the code reads `devices_endpoint_pairs`
(`helper/device-client-factory.cc:46`), and its example has `fmu_dir_uri` where the
factories read `fmu_dir`. In the library:

- A rollback leaves the saved indicators of an FMU without states as they were, and a
  rollback from before an event keeps `upcomingEvent_` and `tend_`, so that the next
  `integrate` goes to the abandoned event (`U/src/RollbackFMU.cpp:114`; `abandoned`).
- An indicator that is exactly zero where it is saved hides its next change of sign
  (`B/src/DynamicalSystem.cpp:125`; `blind`).
- The search of the dense steppers puts back states of another time than the one it goes
  to, and its horizon can end before it begins (hence `IsOdeint` in the properties).
- The event iteration of FMI 1.0 has no bound (`FMUModelExchange_v1.cpp:955`); that of
  FMI 2.0 gives up where `FMUModelExchange_v2.h:123` speaks of convergence.
- `VariableStepSizeFMU::sync` returns the number of a status as a time when it refuses an
  interval (`VariableStepSizeFMU.cpp:377`), and the interpolating wrapper divides by zero
  after a failed step past its stop time. Both are left out of the properties.
- `terminate` leaves the instance set, which the destructor then frees again.
- FMI 1.0 looks up Booleans under a misspelt type (`VarTypeMap1`).
- `IncrementalFMU`: a step event is acted upon during a prediction although the comment
  at `IncrementalFMU.cpp:599` says that no update is made; interpolation keeps the
  outputs that are not real; times that are each within the resolution of a prediction add
  up (`drift`); a time out of range leaves `currentState_` without a time.

## 5. Proofs

TLAPS proves the following for every value of the constants that satisfies the named
assumptions of the modules. These say that constants have their types, that intervals,
step sizes and precisions are positive and that the "none" values are not real ones.
Those that say more:

- `HorizonAssumption` (`IncrementalFmu`): the look-ahead is longer than the resolution.
  The loop of `predictState` would otherwise predict nothing.
- `FmuFactoriesAssumption`: a config names finitely many nodes, and the lists of configs
  install no more devices than `MaxDevices`, which bounds the set of objects.
- `IntegrationAssumption` and `RollbackFmuAssumption`: the search precision has at least
  8 ticks, so that half and an eighth of it can be told apart, and the times a program
  integrates to stay an eighth of it below `Infinity`, the time of no event.
- `CoSimulationSlaveAssumption`: variables of one reference have one type. FMI counts the
  references of each type anew; here a reference stands for one together with its type.
- `CoSimulationAssumption`: a program hands a list of references to the accessors of the
  type these variables have, as their signatures ask for, and no list is empty.

Nothing else bounds the number of applications, objects, directories, events or
predictions, nor time.

| Module | Theorem | Says |
|---|---|---|
| `DeviceExchangeProofs` | `TypeCorrect` | `Spec => []TypeOK` |
| | `NamesShareOneFmu` | `Spec => []OneFmuPerName` |
| | `FmuIsNeverLate` | `Spec => []FmuReachesNow` |
| | `FmuTimeGoesOn` | `Spec => FmuTimeNeverBack` |
| | `LedgerIsConsistent` | `Spec => []LedgerConsistent` |
| | `ClientsImplementLedger` | `Spec => LedgerSpec`, the refinement |
| | `ResultsAreConsistent` | `Spec => []ResultsConsistent` |
| `TrafficProofs` | `RequestsHaveTheirSlot` | `Spec => []RequestsBelongToSlots`, with `DevicesKeepNodes` |
| | `RequestsHaveOneMessage` | `Spec => []OneMessagePerRequest`, with `DevicesKeepNodes`, `PeersAreOthers` |
| | `RequestsAnsweredInTime` | `Spec => []AnsweredInTime`, with `PeersAreNoClients` and longest delays |
| `FmuObjectsProofs` | `ObjectsTypeCorrect` | `Spec => []TypeOK` |
| | `ObjectsKeepTheirFmu` | `Spec => []HeldFmusStay` |
| | `CollectionsAreUnambiguous` | `Spec => []LoadedFmusUsable` |
| | `ObjectsDriveTheirFmu` | `Spec => []ObjectsFitTheirFmu` |
| | `ManagerImplementsRegistry` | `Spec => RegistrySpec`, the refinement |
| `FmuFactoriesProofs` | `StartedDevicesHaveFmu` | `Spec => []DevicesHaveFmu` |
| | `DevicesUseWhatIsConfigured` | `Spec => []DevicesUseTheirFmu` |
| | `OneWriterOfResults` | `Spec => []OneWriterPerConfig` |
| `CoSimulationProofs` | `CoSimulationTypeOK` | `Spec => []TypeOK` |
| | `ClockFollowsFmuInv` | `Spec => []ClockFollowsFmu` |
| | `WrapperFollowsSlaveInv` | `Spec => []WrapperFollowsSlave` |
| | `OutputsOfOneTimeInv` | `Spec => []OutputsOfOneTime` |
| | `NotAheadOfRequestInv` | `Spec => []NotAheadOfRequest` |
| | `ResultTellsProgressInv` | `Spec => []ResultTellsProgress`, with a variable wrapper's step size above the resolution |
| | `ReadAsSetInv` | `Spec => []ReadAsSet` |
| | `WrappersKeepSyncContract` | `Spec => KeepsSyncContract`, the refinement, with a variable wrapper's step size above the resolution |
| `RollbackFmuProofs` | `HandleTypes` | `Spec => []TypeOK` |
| | `StatesMatchTime` | `Spec => []StateMatchesTime` |
| | `NoSignChangeLost` | `Spec => []SignChangesActedOn` |
| | `HorizonHasEvent` | `Spec => []HorizonBracketsEvent` |
| | `TimeEventsAreHandled` | `Spec => []NotPastTimeEvent` |
| | `IntegrateKeepsItsContract` | `Spec => ImplementsContract`, the refinement |
| `IncrementalFmuProofs` | `IncrementalTypeCorrect` | `Spec => []TypeOK` |
| | `InterpolatesBetween` | `Spec => []InterpolationBetween` |
| | `PredictionsUpdateNothing` | `Spec => []NoUpdateAhead` |
| | `StatesFollowTime` | `Spec => []StatesGoWithTime` |
| | `PredictionsSkipNoEvent` | `Spec => []NoEventSkipped` |

**Hypotheses of the traffic theorems.** Three of the theorems hold for the simulations
that the factories set up, not for every placement of applications, and say so:

- `DevicesKeepNodes`: no device with a stop time is on a client's node. A client could
  otherwise bind the address a stopped device gave up, and take a request that is on its
  way for an answer. The factories call `Start` of the devices and never set a stop time.
- `PeersAreOthers`: no client asks its own node. A client and a device on one node
  share the address, and a request the client sent to itself comes back to it.
- `PeersAreNoClients`: no client asks a node that has clients. A client that listens at the
  device's port would swallow the requests. `send_devices_endpoint_pairs` goes from client
  nodes to device nodes (README of the repository, line 173).
- `HasLongest(ClientDelays)`, `HasLongest(DeviceDelays)`: processing times have a longest
  one. A gamma distribution has none; what the simulated ones draw has.

Two theorems about the wrappers have a hypothesis too: `ResultTellsProgressInv` and
`WrappersKeepSyncContract` assume, if there are variable wrappers, that the step size such a wrapper was given exceeds the
resolution (`StepSize > TimeDiffResolution`; the resolution is 1e-4 unless a program says
otherwise). `VariableStepSizeFMU::init` only asserts that it is positive; with a smaller one
the time that `sync` returns is not told apart from the end of the interval.

The inductive invariants and why each is needed:

- `TypeInv == TypeOK /\ CallsPrepared`. A scheduled `Process` addresses a peer and
  `WriteData` reads an FMU, so that types are kept only if a pending call finds both.
- `ExchangeInv == TypeInv /\ LedgerInv`. A slot stays found under one id because new
  ids are larger than all issued ones (`AnswersComplete`), and the answer of a slot is
  not older than its request because no message with the id of an open request is
  (`MessagesTimely`). The refinement of `RequestLedger` needs the latter: without it
  `Answer` could close a slot with a time before the request.
- `TimesInOrder`, which follows from `ExchangeInv`: a slot has either both times of its
  answer or none, and they do not go back. That is what `ResultsConsistent` needs of the
  ledgers. The rest is about the loop of `WriteResults`: `AddGives` says what a row does to
  the statistics, `StatisticsGive`, by induction over the slots, that their total counts
  the answered ones and that the sum of the round trips lies between total times minimum
  and total times maximum.
- `TrafficExchangeInv == ExchangeInv /\ TrafficInv`. That a message belongs to a slot
  rests on who sent it, hence on addresses: ports are given out in order and each address
  has one owner (`AddressInv`), and devices stay where they are (`DevicesStayUp`). That
  an id has one message needs that of every handler (`OneMessagePerId`). `ProgressInv`
  adds for `AnsweredInTime` that nothing is overdue, which the clock enforces, and that an
  open request whose message was not lost is still pursued by someone (`RequestsPursued`).
- `SharedFmuInv == TypeInv /\ FmuInv`. That names share an instance follows from where
  an instance comes from (`FmusByName`); that an FMU is not late needs the arithmetic
  of the loop (`SteppedToReaches`).
- `ObjectsInv`, the conjunction of the four properties of `FmuObjects`. That an object
  keeps its FMU rests on what the collections hold; that it fits rests on an identifier
  being in one collection, where `getTypeOfLoadedFMU` finds it. Every call of the
  manager inserts one FMU or removes unused ones (`ManagerStep`); the lemmas about
  `Loads` and `Removes` carry both the invariant and the refinement.
- `FactoryInv == TypeInv /\ DevicesFit /\ DevicesReady /\ UsesObject /\ SharedByName`.
  A device finds its FMU when it starts because the config was accepted when it was read
  (`DevicesFit`) and nothing it relies on is unloaded in between (`DevicesReady`).
  `WritersInv` counts the writers of a config while its devices are installed.
- `CoSimulationInv == TypeOK /\ SlaveOK /\ ReadyInv /\ ResultInv /\ AccessInv` (and what
  sets direct use apart from that of a wrapper). `SlaveOK` ties the object's clock to the
  FMU's. `PointInv` says where the communication point is, between what the program asked
  for and the slave's time: an interval may begin off that point, and that point be off the
  slave's time, which adds up to no more than twice the resolution because `doStep` refuses
  a point that is further off (`DriftBounded`). `OutputInv` says what the states a
  wrapper interpolates between are of; that the result is of the time asked for rests on
  them being a step apart (`HistoryInv`, `InterpolateValueGives`). The loops of `sync` are
  recursive functions: `Recursion` shows that one exists, `LoopKeeps` that what holds of its
  first value and goes from one to the next holds of all (`Looped`), and each step gains
  a time unit, so that the loop has ended when it is left (`Arrived`). `AccessInv` relates
  what a program knows to the variables of the FMU.
- The refinement of `SyncContract` needs nothing more of the state, but more of each call:
  `Promised` says what a program that asked for a time sees of what `sync` leaves, for the
  two loops and the variable wrapper alike, and `Started` what it sees of `init`. The loop
  of the fixed wrapper has to say besides that it went on while a step was due and stopped
  only at the stop time (`Arrived`). Calls of an object without a wrapper are stutters.
- `RollbackInv == TypeOK /\ AnyStepperInv /\ (IsOdeint => OdeintInv)`. `AnyStepperInv`
  (`PlacesInv`, `ClockInv`, `EventInv`, `ContractInv`) says at each place inside
  `integrate` what the clocks and flags are, for all steppers; the refinement follows from it,
  each step being one that enters the call, leaves it, goes on in it or lies between calls.
  `OdeintInv` says, of the steppers that are not dense, where the continuous
  states are (`StatesInv`), what the search for an event has enclosed (`SearchInv`,
  `HorizonInv`), what has been told to the FMU (`ToldInv`) and that the next time event
  is still ahead (`ScheduleInv`): the properties hold between calls only because these hold
  in the middle of them.
- `TypeInv` of `IncrementalFmuProofs`: `TypeOK`, and that there are predictions once the
  FMU is initialized. That the search from the newest prediction finds one (`Finds`)
  needs the largest of a set of indices to exist (`IndicesHaveMax`, from the least
  element of a set of numbers and `WFMin`), and gives both the types and
  `InterpolationBetween`.
- `IncrementalInv == TypeInv /\ AheadInv`. An integration that starts before an event
  handles it, so that the far side of such an event has to be near the synchronized time
  when a prediction starts, and the FMU must not stand before one when it is integrated
  again (`FarSideNear`). `Integrates` says what an outcome within the contract keeps.
- `FollowsInv == DriftInv /\ TimesInv /\ OutputsInv`, on top of `IncrementalInv`. States
  follow the time because every integration moves both alike and because interpolation
  between two states that are off by at most the drift is off by no more, its integer
  division included (`InterpolatedGoes`). Other outputs need that only the last prediction
  may lie before the synchronized time (`TimesInv`) and that a far side is near by what
  the program was off (`EventNear`), which is sharper than `FarSideNear`.
- `EventsInv`: before a prediction goes on it has not reached an event (`StopsAtEvents`).

Four things were corrected because of a proof. `IntegrationContract` said that the far
side of an event is not before the time stopped at. With a dense stepper and a rollback from
before an event, `integrate` first steps over the abandoned event, which may be beyond
`tend`; another event found on the way is clipped to `tend`, and the FMU stands behind the
far side. The run's instance is too small to get there. And the set the `nodes` of a
`Config` are taken from was written `SUBSET Nat \ {{}}`, which binds the other way round.
`OutputsOfOneTime` left out the times after the stop time, which the inductive
invariant showed to be unnecessary. And the stop time of the `co_simulation` instance was
one at which no wrapper stops before the last time a program asks for, so that the
alternative of `ShowsLastStep` which the proof needs was never taken.

Model-checked only: the liveness properties (`CallReturns`, both `ReachesEnd`), since
liveness under fairness and `ENABLED` are out of the prover's reach. Every invariant,
action property and refinement that a passing run checks is a theorem. Induction over
numbers is done in `Loops` from the least element of a set of naturals, because the
library's induction theorems take an operator; what that leaves open is induction over
other data, and modules with `RECURSIVE` operators, of which there are none here.

## 6. Not modelled, and the plan

Never: the numerics of the integrators and of the gamma distribution, the numerical
Jacobian, XML parsing, formatting, log buffers, build files. They are data or I/O without
steps of their own. The SUNDIALS steppers are optional and not built by default. Left out
of modelled parts: the access to variables of model exchange objects, which repeats that
of the slaves; in `IncrementalFmu` the definition of inputs and outputs by name, FMUs
without continuous states, and the beginning of the interval, which `sync` ignores.

Worth doing next: an abstract specification of the life of a slave, the FMI state machine,
and its refinement by `CoSimulation`, once it is settled what `terminate` promises (see
the findings).
