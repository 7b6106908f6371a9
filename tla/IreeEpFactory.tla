----------------------------- MODULE IreeEpFactory -----------------------------
(***************************************************************************)
(* The execution-provider factory: enumeration of the IREE devices in its  *)
(* constructor, GetSupportedDevices, the lazily filled and unlocked tables *)
(* device_cache_, allocators_ and data_transfer_, the EPs and compiled      *)
(* sessions that use the cached HAL devices, and the destructor.            *)
(*                                                                         *)
(* Each call of the host is a sequence of steps of one thread, split where  *)
(* the code reads a table and later writes it: nothing in the code holds a  *)
(* lock in between.  A table index i of the code is entry i + 1 of a        *)
(* sequence here.  A null pointer is 0.                                     *)
(***************************************************************************)
EXTENDS Naturals, Sequences, FiniteSets

CONSTANTS
  Threads,           \* host threads that call into the plugin
  Drivers,           \* names of the HAL drivers the IREE registry lists
  MaxDevices,        \* bound: devices all drivers report together
  EpSlots,           \* bound: EPs alive at a time
  InfoSlots,         \* bound: compiled sessions alive at a time
  HostPolicy,        \* "free": threads call at any time; "warm": see MayCall
  HwCreateMayFail    \* TRUE if ORT's CreateHardwareDevice may fail

ASSUME MaxDevicesAssumption == MaxDevices \in Nat
ASSUME HostPolicyAssumption == HostPolicy \in {"warm", "free"}
ASSUME HwCreateAssumption == HwCreateMayFail \in BOOLEAN
ASSUME SlotsAssumption == "none" \notin EpSlots \cup InfoSlots
ASSUME FiniteAssumption == IsFiniteSet(Threads) /\ IsFiniteSet(InfoSlots)

DeviceIds == 0 .. (MaxDevices - 1)

\* The drivers CreateEp has a compiler backend for.
KnownDrivers == {"vulkan", "cuda", "hip", "local-task", "local-sync"}

VARIABLES
  phase,                \* life of the factory object
  untried,              \* constructor: drivers not visited yet
  driver, reported,     \* constructor: current driver, its devices left
  device_index,         \* constructor: next device id
  hw_devices_,          \* OrtHardwareDevices, with their metadata
  hwLive,               \* rows of hw_devices_ not yet released
  device_memory_infos_, \* device id of each OrtMemoryInfo
  supported,            \* result of GetSupportedDevices
  epDevices,            \* number of OrtEpDevices handed to the host
  device_cache_,        \* HAL device of each device id
  allocators_,          \* allocator of each device id
  data_transfer_,       \* data transfer object
  hal,                  \* every HAL device ever created, with its references
  allocs,               \* every IreeAllocator ever created
  transfers,            \* number of IreeDataTransfers ever created
  eps,                  \* EPs: the hardware device asked for, device_id_
  infos,                \* node compute infos: their EP and session's device
  pc, call, dev         \* per thread: next step, arguments, device pointer

ctorVars  == <<untried, driver, reported, device_index>>
tableVars == <<hw_devices_, hwLive, device_memory_infos_, supported, epDevices>>
cacheVars == <<device_cache_, allocators_, data_transfer_>>
heapVars  == <<hal, allocs, transfers>>
userVars  == <<eps, infos>>
thrVars   == <<pc, call, dev>>
vars == <<phase, ctorVars, tableVars, cacheVars, heapVars, userVars, thrVars>>

Ops == {"none", "CreateEp", "CreateAllocator", "CreateDataTransfer",
        "Compile", "Compute", "CopyTensors"}

\* What a thread's call in progress was given: the device id it resolves, the
\* hardware device (CreateEp), the EP and the session it makes or works on.
NoCall == [op |-> "none", id |-> 0, hw |-> 0, ep |-> "none", info |-> "none"]

NoEp   == [hw |-> 0, device_id |-> 0]
NoInfo == [ep |-> "none", device |-> 0]

EpLive(s)   == eps[s].hw # 0
InfoLive(n) == infos[n].device # 0

Init ==
  /\ phase = "enumerating"
  /\ untried = Drivers /\ driver = "none" /\ reported = 0 /\ device_index = 0
  /\ hw_devices_ = << >> /\ hwLive = {}
  /\ device_memory_infos_ = << >> /\ supported = "no" /\ epDevices = 0
  /\ device_cache_ = [d \in DeviceIds |-> 0]
  /\ allocators_ = [d \in DeviceIds |-> 0]
  /\ data_transfer_ = 0
  /\ hal = << >> /\ allocs = << >> /\ transfers = 0
  /\ eps = [s \in EpSlots |-> NoEp]
  /\ infos = [n \in InfoSlots |-> NoInfo]
  /\ pc = [t \in Threads |-> "idle"]
  /\ call = [t \in Threads |-> NoCall]
  /\ dev = [t \in Threads |-> 0]

-------------------------------------------------------------------------------
(* Construction: CreateIreeHwDevices.                                        *)

\* Mutant: device_index is declared inside the loop over the drivers.
EnumerateDriver_IndexPerDriver(d, n) ==
  /\ phase = "enumerating" /\ reported = 0
  /\ d \in untried
  /\ Len(hw_devices_) + n <= MaxDevices
  /\ driver' = d /\ reported' = n /\ untried' = untried \ {d}
  /\ device_index' = 0
  /\ UNCHANGED <<phase, tableVars, cacheVars, heapVars, userVars, thrVars>>

\* The next driver reports n devices; n = 0 also stands for a driver that
\* cannot be created or queried, which the loop skips.
EnumerateDriver(d, n) ==
  /\ phase = "enumerating" /\ reported = 0
  /\ d \in untried
  /\ device_index + n <= MaxDevices
  /\ driver' = d /\ reported' = n /\ untried' = untried \ {d}
  /\ UNCHANGED <<phase, device_index, tableVars, cacheVars, heapVars, userVars,
                 thrVars>>

\* One OrtHardwareDevice.  Its metadata names the device that IREE will open
\* (path stands for the driver's name and the device's path) and the device id.
\* device_index is advanced whether or not ORT accepts the device.
RegisterHwDevice(ok) ==
  /\ phase = "enumerating" /\ reported > 0
  /\ ok \/ HwCreateMayFail
  /\ hw_devices_' = IF ok
       THEN Append(hw_devices_, [path |-> <<driver, reported>>,
                                 device_id |-> device_index])
       ELSE hw_devices_
  /\ hwLive' = IF ok THEN hwLive \cup {Len(hw_devices_) + 1} ELSE hwLive
  /\ device_index' = device_index + 1
  /\ reported' = reported - 1
  /\ UNCHANGED <<phase, untried, driver, device_memory_infos_, supported,
                 epDevices, cacheVars, heapVars, userVars, thrVars>>

\* The constructor returns: every driver visited, or the runtime instance or
\* the list of drivers could not be had at all and there are no devices.
FinishConstruction ==
  /\ phase = "enumerating" /\ reported = 0
  /\ untried = {} \/ untried = Drivers
  /\ phase' = "ready"
  /\ untried' = {} /\ driver' = "none"
  /\ UNCHANGED <<reported, device_index, tableVars, cacheVars, heapVars,
                 userVars, thrVars>>

-------------------------------------------------------------------------------
(* The host's side of the protocol.                                          *)

Rows == 1 .. Len(hw_devices_)
AllIdle == \A t \in Threads : pc[t] = "idle"

\* Every table has all the entries the host can ask for.
Warm == /\ \A i \in Rows : device_cache_[i - 1] # 0
        /\ \A i \in 1 .. Len(device_memory_infos_) : allocators_[i - 1] # 0
        /\ data_transfer_ # 0

\* Under the "warm" policy the host makes its calls one at a time until it has
\* obtained the device, the allocator and the data transfer of every hardware
\* device, and only then lets several threads call.
MayCall(t) == /\ phase = "ready" /\ pc[t] = "idle"
              /\ \/ HostPolicy = "free"
                 \/ Warm
                 \/ AllIdle

Begin(t, step, c) == /\ pc' = [pc EXCEPT ![t] = step]
                     /\ call' = [call EXCEPT ![t] = c]

Return(t) == /\ pc' = [pc EXCEPT ![t] = "idle"]
             /\ call' = [call EXCEPT ![t] = NoCall]
             /\ dev' = [dev EXCEPT ![t] = 0]

\* Mutant: no pop_back when EpDevice_AddAllocatorInfo fails.
GetSupportedDevices_NoPopBack(max, n) ==
  /\ phase = "ready" /\ AllIdle /\ supported = "no"
  /\ n <= Len(hw_devices_) /\ n <= max
  /\ supported' = IF n = Len(hw_devices_) \/ n = max THEN "ok" ELSE "error"
  /\ device_memory_infos_' =
       [i \in 1 .. (IF supported' = "ok" THEN n ELSE n + 1) |-> i - 1]
  /\ epDevices' = n
  /\ UNCHANGED <<phase, ctorVars, hw_devices_, hwLive, cacheVars, heapVars,
                 userVars, thrVars>>

\* GetSupportedDevices, called once, at registration, before any other call.
\* The host offers room for max OrtEpDevices; n of them succeed, and then
\* CreateEpDevice or EpDevice_AddAllocatorInfo may fail, which undoes the
\* entry it was working on and leaves the earlier ones.
GetSupportedDevices(max, n) ==
  /\ phase = "ready" /\ AllIdle /\ supported = "no"
  /\ n <= Len(hw_devices_) /\ n <= max
  /\ supported' = IF n = Len(hw_devices_) \/ n = max THEN "ok" ELSE "error"
  /\ device_memory_infos_' = [i \in 1 .. n |-> i - 1]
  /\ epDevices' = n
  /\ UNCHANGED <<phase, ctorVars, hw_devices_, hwLive, cacheVars, heapVars,
                 userVars, thrVars>>

-------------------------------------------------------------------------------
(* Calls that resolve a device id: each starts, then goes through the steps  *)
(* of GetDeviceForId, then finishes.                                         *)

\* CreateEp for the hardware device of row i.  The calls its argument checks
\* refuse (no target_arch, several devices, a driver without backend) change
\* nothing; the driver check is the guard here.  The id is the metadata's.  The
\* EP will have the free slot s.
CreateEp(t, i, s) ==
  /\ MayCall(t) /\ supported = "ok"
  /\ ~EpLive(s) /\ \A u \in Threads : call[u].ep # s
  /\ i <= epDevices /\ hw_devices_[i].path[1] \in KnownDrivers
  /\ Begin(t, "find", [NoCall EXCEPT !.op = "CreateEp", !.hw = i, !.ep = s,
                                     !.id = hw_devices_[i].device_id])
  /\ UNCHANGED <<phase, ctorVars, tableVars, cacheVars, heapVars, userVars, dev>>

CreateAllocator(t, id) ==
  /\ MayCall(t)
  /\ Begin(t, "findAllocator",
           [NoCall EXCEPT !.op = "CreateAllocator", !.id = id])
  /\ UNCHANGED <<phase, ctorVars, tableVars, cacheVars, heapVars, userVars, dev>>

\* The session, if there is one, will have the free slot n.
Compile(t, s, n) ==
  /\ MayCall(t) /\ EpLive(s)
  /\ ~InfoLive(n) /\ \A u \in Threads : call[u].info # n
  /\ Begin(t, "find", [NoCall EXCEPT !.op = "Compile", !.ep = s, !.info = n,
                                     !.id = eps[s].device_id])
  /\ UNCHANGED <<phase, ctorVars, tableVars, cacheVars, heapVars, userVars, dev>>

Compute(t, n) ==
  /\ MayCall(t) /\ InfoLive(n)
  /\ Begin(t, "find", [NoCall EXCEPT !.op = "Compute", !.info = n,
                                     !.id = eps[infos[n].ep].device_id])
  /\ UNCHANGED <<phase, ctorVars, tableVars, cacheVars, heapVars, userVars, dev>>

\* One tensor of CopyTensors, which needs the device of one memory device.
CopyTensors(t, id) ==
  /\ MayCall(t) /\ data_transfer_ # 0
  /\ Begin(t, "find", [NoCall EXCEPT !.op = "CopyTensors", !.id = id])
  /\ UNCHANGED <<phase, ctorVars, tableVars, cacheVars, heapVars, userVars, dev>>

CreateDataTransfer(t) ==
  /\ MayCall(t)
  /\ Begin(t, "checkTransfer", [NoCall EXCEPT !.op = "CreateDataTransfer"])
  /\ UNCHANGED <<phase, ctorVars, tableVars, cacheVars, heapVars, userVars, dev>>

\* Mutant: the existing allocator is not looked up.
FindAllocator_NoLookup(t) ==
  /\ pc[t] = "findAllocator"
  /\ IF call[t].id >= Len(device_memory_infos_)
     THEN Return(t)
     ELSE pc' = [pc EXCEPT ![t] = "find"] /\ UNCHANGED <<call, dev>>
  /\ UNCHANGED <<phase, ctorVars, tableVars, cacheVars, heapVars, userVars>>

\* allocators_.find, then the check of the device id.
FindAllocator(t) ==
  /\ pc[t] = "findAllocator"
  /\ IF \/ allocators_[call[t].id] # 0
        \/ call[t].id >= Len(device_memory_infos_)
     THEN Return(t)
     ELSE pc' = [pc EXCEPT ![t] = "find"] /\ UNCHANGED <<call, dev>>
  /\ UNCHANGED <<phase, ctorVars, tableVars, cacheVars, heapVars, userVars>>

-------------------------------------------------------------------------------
(* GetDeviceForId.                                                           *)

\* Mutant: a device is opened at every call.
FindDevice_NoLookup(t) ==
  /\ pc[t] = "find"
  /\ IF call[t].id >= Len(hw_devices_)
     THEN Return(t)
     ELSE pc' = [pc EXCEPT ![t] = "create"] /\ UNCHANGED <<call, dev>>
  /\ UNCHANGED <<phase, ctorVars, tableVars, cacheVars, heapVars, userVars>>

\* The cache lookup and the check of the device id.  On a null result the
\* callers CreateEp, CreateAllocator and CopyTensors return an error; Compile
\* and Compute do not look at the result (see UncheckedDeviceIsCached).
FindDevice(t) ==
  /\ pc[t] = "find"
  /\ \/ /\ device_cache_[call[t].id] # 0
        /\ dev' = [dev EXCEPT ![t] = device_cache_[call[t].id]]
        /\ pc' = [pc EXCEPT ![t] = "use"]
        /\ UNCHANGED call
     \/ /\ device_cache_[call[t].id] = 0
        /\ call[t].id >= Len(hw_devices_)
        /\ Return(t)
     \/ /\ device_cache_[call[t].id] = 0
        /\ call[t].id < Len(hw_devices_)
        /\ pc' = [pc EXCEPT ![t] = "create"]
        /\ UNCHANGED <<call, dev>>
  /\ UNCHANGED <<phase, ctorVars, tableVars, cacheVars, heapVars, userVars>>

\* iree_hal_create_device for the path in the metadata of row id: the new
\* device has one reference, held by the local hal_device.
CreateHalDevice(t) ==
  /\ pc[t] = "create"
  /\ hal' = Append(hal, [path |-> hw_devices_[call[t].id + 1].path, refs |-> 1])
  /\ dev' = [dev EXCEPT ![t] = Len(hal) + 1]
  /\ pc' = [pc EXCEPT ![t] = "store"]
  /\ UNCHANGED <<phase, ctorVars, tableVars, cacheVars, allocs, transfers,
                 userVars, call>>

\* Mutant: a device that cannot be created is tried again.
HalDeviceFails_Retries(t) ==
  /\ pc[t] = "create"
  /\ pc' = [pc EXCEPT ![t] = "find"]
  /\ UNCHANGED <<phase, ctorVars, tableVars, cacheVars, heapVars, userVars,
                 call, dev>>

\* The device cannot be created: GetDeviceForId returns null.
HalDeviceFails(t) ==
  /\ pc[t] = "create"
  /\ Return(t)
  /\ UNCHANGED <<phase, ctorVars, tableVars, cacheVars, heapVars, userVars>>

Retain(k)  == [hal EXCEPT ![k].refs = @ + 1]
ReleaseHal(k) == IF k = 0 THEN hal ELSE [hal EXCEPT ![k].refs = @ - 1]

\* Mutant: the device is returned but not kept in the cache.
StoreDevice_NotCached(t) ==
  /\ pc[t] = "store"
  /\ pc' = [pc EXCEPT ![t] = "use"]
  /\ UNCHANGED <<phase, ctorVars, tableVars, cacheVars, heapVars, userVars,
                 call, dev>>

\* Mutant: the cache retains the device instead of taking it over.
StoreDevice_Retains(t) ==
  /\ pc[t] = "store"
  /\ hal' = Retain(dev[t])
  /\ device_cache_' = [device_cache_ EXCEPT ![call[t].id] = dev[t]]
  /\ pc' = [pc EXCEPT ![t] = "use"]
  /\ UNCHANGED <<phase, ctorVars, tableVars, allocators_, data_transfer_,
                 allocs, transfers, userVars, call, dev>>

\* device_cache_[device_id] = std::move(hal_device): the cache takes over the
\* reference and drops the one of the entry it overwrites.
StoreDevice(t) ==
  /\ pc[t] = "store"
  /\ hal' = ReleaseHal(device_cache_[call[t].id])
  /\ device_cache_' = [device_cache_ EXCEPT ![call[t].id] = dev[t]]
  /\ pc' = [pc EXCEPT ![t] = "use"]
  /\ UNCHANGED <<phase, ctorVars, tableVars, allocators_, data_transfer_,
                 allocs, transfers, userVars, call, dev>>

-------------------------------------------------------------------------------
(* The callers, with the device in hand.                                     *)

FinishCreateEp(t) ==
  /\ pc[t] = "use" /\ call[t].op = "CreateEp"
  /\ eps' = [eps EXCEPT ![call[t].ep] =
               [hw |-> call[t].hw, device_id |-> call[t].id]]
  /\ Return(t)
  /\ UNCHANGED <<phase, ctorVars, tableVars, cacheVars, heapVars, infos>>

\* The new allocator keeps the raw device pointer.  Storing it destroys the
\* allocator of the entry it overwrites.
FinishCreateAllocator(t) ==
  LET old == allocators_[call[t].id] IN
  /\ pc[t] = "use" /\ call[t].op = "CreateAllocator"
  /\ allocs' = Append([a \in DOMAIN allocs |->
                         IF a = old THEN [allocs[a] EXCEPT !.live = FALSE]
                                    ELSE allocs[a]],
                      [device_id |-> call[t].id, device |-> dev[t],
                       info |-> device_memory_infos_[call[t].id + 1],
                       live |-> TRUE])
  /\ allocators_' = [allocators_ EXCEPT ![call[t].id] = Len(allocs) + 1]
  /\ Return(t)
  /\ UNCHANGED <<phase, ctorVars, tableVars, device_cache_, data_transfer_,
                 hal, transfers, userVars>>

\* Mutant: the session borrows the device.
FinishCompile_NoRetain(t) ==
  /\ pc[t] = "use" /\ call[t].op = "Compile"
  /\ infos' = [infos EXCEPT ![call[t].info] =
                 [ep |-> call[t].ep, device |-> dev[t]]]
  /\ Return(t)
  /\ UNCHANGED <<phase, ctorVars, tableVars, cacheVars, heapVars, eps>>

\* Compilation and session creation succeed: the session retains the device.
FinishCompile(t) ==
  /\ pc[t] = "use" /\ call[t].op = "Compile"
  /\ infos' = [infos EXCEPT ![call[t].info] =
                 [ep |-> call[t].ep, device |-> dev[t]]]
  /\ hal' = Retain(dev[t])
  /\ Return(t)
  /\ UNCHANGED <<phase, ctorVars, tableVars, cacheVars, allocs, transfers, eps>>

\* Compute and CopyTensors use the device and return; so does a Compile whose
\* session could not be created or loaded.
FinishUse(t) ==
  /\ pc[t] = "use" /\ call[t].op \in {"Compile", "Compute", "CopyTensors"}
  /\ Return(t)
  /\ UNCHANGED <<phase, ctorVars, tableVars, cacheVars, heapVars, userVars>>

\* Mutant: the existing data transfer is not looked for.
CheckTransfer_NoCheck(t) ==
  /\ pc[t] = "checkTransfer"
  /\ pc' = [pc EXCEPT ![t] = "storeTransfer"]
  /\ UNCHANGED <<phase, ctorVars, tableVars, cacheVars, heapVars, userVars,
                 call, dev>>

\* CreateDataTransferImpl: the check and, when it found nothing, the store.
CheckTransfer(t) ==
  /\ pc[t] = "checkTransfer"
  /\ IF data_transfer_ # 0
     THEN Return(t)
     ELSE pc' = [pc EXCEPT ![t] = "storeTransfer"] /\ UNCHANGED <<call, dev>>
  /\ UNCHANGED <<phase, ctorVars, tableVars, cacheVars, heapVars, userVars>>

StoreTransfer(t) ==
  /\ pc[t] = "storeTransfer"
  /\ transfers' = transfers + 1
  /\ data_transfer_' = transfers + 1
  /\ Return(t)
  /\ UNCHANGED <<phase, ctorVars, tableVars, device_cache_, allocators_, hal,
                 allocs, userVars>>

-------------------------------------------------------------------------------
(* Release of the users and destruction of the factory.                      *)

\* Mutant: the compute info is deleted without resetting its session.
ReleaseNodeComputeInfo_NoReset(n) ==
  /\ phase = "ready" /\ InfoLive(n)
  /\ \A t \in Threads : call[t].info # n
  /\ infos' = [infos EXCEPT ![n] = NoInfo]
  /\ UNCHANGED <<phase, ctorVars, tableVars, cacheVars, heapVars, eps, thrVars>>

\* ReleaseNodeComputeInfos: the session's reference to its device goes.  The
\* host does this when no thread is computing with it.
ReleaseNodeComputeInfo(n) ==
  /\ phase = "ready" /\ InfoLive(n)
  /\ \A t \in Threads : call[t].info # n
  /\ hal' = ReleaseHal(infos[n].device)
  /\ infos' = [infos EXCEPT ![n] = NoInfo]
  /\ UNCHANGED <<phase, ctorVars, tableVars, cacheVars, allocs, transfers, eps,
                 thrVars>>

\* Mutant: releasing an EP evicts its device from the cache.
ReleaseEp_Evicts(s) ==
  /\ phase = "ready" /\ EpLive(s)
  /\ \A t \in Threads : call[t].ep # s
  /\ \A n \in InfoSlots : InfoLive(n) => infos[n].ep # s
  /\ eps' = [eps EXCEPT ![s] = NoEp]
  /\ hal' = ReleaseHal(device_cache_[eps[s].device_id])
  /\ device_cache_' = [device_cache_ EXCEPT ![eps[s].device_id] = 0]
  /\ UNCHANGED <<phase, ctorVars, tableVars, allocators_, data_transfer_,
                 allocs, transfers, infos, thrVars>>

\* An EP outlives the compute infos it made.
ReleaseEp(s) ==
  /\ phase = "ready" /\ EpLive(s)
  /\ \A t \in Threads : call[t].ep # s
  /\ \A n \in InfoSlots : InfoLive(n) => infos[n].ep # s
  /\ eps' = [eps EXCEPT ![s] = NoEp]
  /\ UNCHANGED <<phase, ctorVars, tableVars, cacheVars, heapVars, infos, thrVars>>

\* Mutant: the destructor clears the devices first.
ReleaseEpFactory_DevicesFirst ==
  /\ phase = "ready" /\ AllIdle
  /\ \A s \in EpSlots : ~EpLive(s)
  /\ \A n \in InfoSlots : ~InfoLive(n)
  /\ phase' = "clearDevices"
  /\ UNCHANGED <<ctorVars, tableVars, cacheVars, heapVars, userVars, thrVars>>

\* ReleaseEpFactory runs the destructor once the host has released every EP.
ReleaseEpFactory ==
  /\ phase = "ready" /\ AllIdle
  /\ \A s \in EpSlots : ~EpLive(s)
  /\ \A n \in InfoSlots : ~InfoLive(n)
  /\ phase' = "clearAllocators"
  /\ UNCHANGED <<ctorVars, tableVars, cacheVars, heapVars, userVars, thrVars>>

\* allocators_.clear()
ClearAllocators ==
  /\ phase = "clearAllocators"
  /\ allocs' = [a \in DOMAIN allocs |->
                  IF \E d \in DeviceIds : allocators_[d] = a
                  THEN [allocs[a] EXCEPT !.live = FALSE] ELSE allocs[a]]
  /\ allocators_' = [d \in DeviceIds |-> 0]
  /\ phase' = "resetTransfer"
  /\ UNCHANGED <<ctorVars, tableVars, device_cache_, data_transfer_, hal,
                 transfers, userVars, thrVars>>

\* data_transfer_.reset()
ResetTransfer ==
  /\ phase = "resetTransfer"
  /\ data_transfer_' = 0
  /\ phase' = "clearDevices"
  /\ UNCHANGED <<ctorVars, tableVars, device_cache_, allocators_, heapVars,
                 userVars, thrVars>>

\* device_cache_.clear()
ClearDevices ==
  /\ phase = "clearDevices"
  /\ hal' = [k \in DOMAIN hal |->
               [hal[k] EXCEPT !.refs =
                  @ - Cardinality({d \in DeviceIds : device_cache_[d] = k})]]
  /\ device_cache_' = [d \in DeviceIds |-> 0]
  /\ phase' = "releaseHw"
  /\ UNCHANGED <<ctorVars, tableVars, allocators_, data_transfer_, allocs,
                 transfers, userVars, thrVars>>

\* The loop over hw_devices_.
ReleaseHwDevices ==
  /\ phase = "releaseHw"
  /\ hwLive' = hwLive \ Rows
  /\ phase' = "gone"
  /\ UNCHANGED <<ctorVars, hw_devices_, device_memory_infos_, supported,
                 epDevices, cacheVars, heapVars, userVars, thrVars>>

\* After the destructor nothing happens: the model stutters there.
Gone == phase = "gone" /\ UNCHANGED vars

-------------------------------------------------------------------------------

Construct ==
  \/ \E d \in Drivers, n \in 0 .. MaxDevices : EnumerateDriver(d, n)
  \/ \E ok \in BOOLEAN : RegisterHwDevice(ok)
  \/ FinishConstruction

Start(t) ==
  \/ \E i \in Rows, s \in EpSlots : CreateEp(t, i, s)
  \/ \E id \in DeviceIds : CreateAllocator(t, id)
  \/ \E s \in EpSlots, n \in InfoSlots : Compile(t, s, n)
  \/ \E n \in InfoSlots : Compute(t, n)
  \/ \E id \in DeviceIds : CopyTensors(t, id)
  \/ CreateDataTransfer(t)

Step(t) ==
  \/ FindAllocator(t)
  \/ FindDevice(t)
  \/ CreateHalDevice(t)
  \/ HalDeviceFails(t)
  \/ StoreDevice(t)
  \/ FinishCreateEp(t)
  \/ FinishCreateAllocator(t)
  \/ FinishCompile(t)
  \/ FinishUse(t)
  \/ CheckTransfer(t)
  \/ StoreTransfer(t)

Destroy ==
  \/ ClearAllocators
  \/ ResetTransfer
  \/ ClearDevices
  \/ ReleaseHwDevices

Next ==
  \/ Construct
  \/ \E max, n \in 0 .. MaxDevices : GetSupportedDevices(max, n)
  \/ \E t \in Threads : Start(t) \/ Step(t)
  \/ \E n \in InfoSlots : ReleaseNodeComputeInfo(n)
  \/ \E s \in EpSlots : ReleaseEp(s)
  \/ ReleaseEpFactory
  \/ Destroy
  \/ Gone

Spec == Init /\ [][Next]_vars

\* A thread inside a call keeps running: nothing in the code waits.  The host
\* need not make or repeat any call.
Fairness == \A t \in Threads : WF_vars(Step(t))

FairSpec == Spec /\ Fairness
-------------------------------------------------------------------------------
(* Properties.                                                               *)

Path == Drivers \X Nat
Device == [path : Path, refs : Nat]
HwDevice == [path : Path, device_id : DeviceIds]
Allocator == [device_id : DeviceIds, device : Nat, info : DeviceIds,
              live : BOOLEAN]
Call == [op : Ops, id : Nat, hw : Nat, ep : EpSlots \cup {"none"},
         info : InfoSlots \cup {"none"}]

FactoryType ==
  /\ phase \in {"enumerating", "ready", "clearAllocators", "resetTransfer",
                "clearDevices", "releaseHw", "gone"}
  /\ untried \in SUBSET Drivers /\ driver \in Drivers \cup {"none"}
  /\ reported \in Nat /\ device_index \in Nat
TablesType ==
  /\ hw_devices_ \in Seq(HwDevice) /\ hwLive \subseteq Nat
  /\ device_memory_infos_ \in Seq(DeviceIds)
  /\ supported \in {"no", "ok", "error"} /\ epDevices \in Nat
CachesType ==
  /\ device_cache_ \in [DeviceIds -> Nat]
  /\ allocators_ \in [DeviceIds -> Nat]
  /\ data_transfer_ \in Nat
HeapType ==
  /\ hal \in Seq(Device) /\ allocs \in Seq(Allocator)
  /\ transfers \in Nat
UsersType ==
  /\ eps \in [EpSlots -> [hw : Nat, device_id : Nat]]
  /\ infos \in [InfoSlots -> [ep : EpSlots \cup {"none"}, device : Nat]]
ThreadsType ==
  /\ pc \in [Threads -> {"idle", "findAllocator", "find", "create", "store",
                         "use", "checkTransfer", "storeTransfer"}]
  /\ call \in [Threads -> Call]
  /\ dev \in [Threads -> Nat]

\* The type of the state: the tables of the factory, the objects it made, the
\* users of the devices and the calls in progress.
TypeOK == /\ FactoryType /\ TablesType /\ CachesType
          /\ HeapType /\ UsersType /\ ThreadsType

\* The table a thread's next step reads, and the one it writes.
Reads(t) ==
  CASE pc[t] = "find" -> {"device_cache_"}
    [] pc[t] = "findAllocator" -> {"allocators_"}
    [] pc[t] = "checkTransfer" -> {"data_transfer_"}
    [] OTHER -> {}
Writes(t) ==
  CASE pc[t] = "store" -> {"device_cache_"}
    [] pc[t] = "use" /\ call[t].op = "CreateAllocator" -> {"allocators_"}
    [] pc[t] = "storeTransfer" -> {"data_transfer_"}
    [] OTHER -> {}

\* No thread writes one of the unlocked tables (the TODO(thread-safety) marks)
\* while another reads or writes it.  A host that fills the tables from one
\* thread first may then call from several.
NoDataRace ==
  \A t, u \in Threads :
    t # u => Writes(t) \cap (Reads(u) \cup Writes(u)) = {}

\* "This ensures the EP uses the same device instance as the allocator, which
\* is critical for buffer operations": every allocator and session, and every
\* call that has resolved its device, works on the one instance in the cache.
OneInstancePerDevice ==
  phase = "ready" =>
    /\ \A a \in DOMAIN allocs :
         allocs[a].device = device_cache_[allocs[a].device_id]
    /\ \A n \in InfoSlots : InfoLive(n) =>
         infos[n].device = device_cache_[eps[infos[n].ep].device_id]
    /\ \A t \in Threads : pc[t] = "use" =>
         dev[t] = device_cache_[call[t].id]

\* The reference count of each HAL device is the number of cache entries,
\* sessions and local owners that hold it: no reference is lost (a leak) or
\* dropped twice.
CacheRefs(k)   == {d \in DeviceIds : device_cache_[d] = k}
SessionRefs(k) == {n \in InfoSlots : infos[n].device = k}
LocalRefs(k)   == {t \in Threads : pc[t] = "store" /\ dev[t] = k}

RefsOK(k) == hal[k].refs = Cardinality(CacheRefs(k))
                         + Cardinality(SessionRefs(k))
                         + Cardinality(LocalRefs(k))
RefsExact == \A k \in DOMAIN hal : RefsOK(k)

\* "Must outlive this allocator": an allocator's raw device pointer points to
\* a live device for as long as the allocator exists, the destructor included.
\* An allocator the host was given exists until the destructor runs.
AllocatorsUsable ==
  \A a \in DOMAIN allocs :
    /\ allocs[a].live => hal[allocs[a].device].refs > 0
    /\ phase = "ready" => allocs[a].live

\* "Given an OrtHardwareDevice, ORT can find which hardware device it is by
\* checking its vendor id and the device id (the index it's stored in
\* hw_devices_)": the EP made for a hardware device runs on the device that the
\* metadata of that hardware device names, and on the device id whose allocator
\* was advertised with it.
EpRunsOnRequestedDevice ==
  \A s \in EpSlots : EpLive(s) =>
    /\ hal[device_cache_[eps[s].device_id]].path = hw_devices_[eps[s].hw].path
    /\ device_memory_infos_[eps[s].hw] = eps[s].device_id

\* EPs made for different hardware devices never end up on one device id or on
\* one device instance, also when ORT refused some of the devices: ids are
\* numbered across the drivers, and a gap gives a device no other's id.
DistinctDevicesStayApart ==
  \A s, u \in EpSlots : EpLive(s) /\ EpLive(u) /\ eps[s].hw # eps[u].hw =>
    /\ eps[s].device_id # eps[u].device_id
    /\ device_cache_[eps[s].device_id] # device_cache_[eps[u].device_id]

\* "This ensures the EP uses the same device instance as the allocator", of any
\* host: a session and an allocator of one device id work on one device instance.
SessionSharesAllocatorDevice ==
  \A a \in DOMAIN allocs, n \in InfoSlots :
    /\ allocs[a].live /\ InfoLive(n)
    /\ allocs[a].device_id = eps[infos[n].ep].device_id
    => allocs[a].device = infos[n].device

\* Compile and Compute hand GetDeviceForId's result on without a null check:
\* the device of a live EP is always found in the cache.
UncheckedDeviceIsCached ==
  \A t \in Threads :
    pc[t] = "find" /\ call[t].op \in {"Compile", "Compute"} =>
      device_cache_[call[t].id] # 0

\* Every allocator belongs to a memory info the host was given with an
\* OrtEpDevice, and describes itself by the memory info of its own device,
\* also after GetSupportedDevices failed half way.
AllocatorsAreAdvertised ==
  \A a \in DOMAIN allocs :
    /\ allocs[a].info = allocs[a].device_id
    /\ allocs[a].device_id < epDevices

\* The destructor leaves no HAL device, allocator or OrtHardwareDevice behind.
NothingLeaks ==
  phase = "gone" => /\ \A k \in DOMAIN hal : hal[k].refs = 0
                    /\ \A a \in DOMAIN allocs : ~allocs[a].live
                    /\ hwLive = {}

\* The lazily filled tables implement registries: an id is bound at most once,
\* to an object of its own, until the destructor empties the table.
Open == phase \in {"enumerating", "ready"}
DeviceRegistry ==
  INSTANCE Registry WITH Keys <- DeviceIds, entry <- device_cache_, open <- Open
AllocatorRegistry ==
  INSTANCE Registry WITH Keys <- DeviceIds, entry <- allocators_, open <- Open
TransferRegistry ==
  INSTANCE Registry WITH Keys <- {0}, entry <- [k \in {0} |-> data_transfer_],
                         open <- Open

DevicesBoundOnce    == DeviceRegistry!Spec
AllocatorsBoundOnce == AllocatorRegistry!Spec
TransferBoundOnce   == TransferRegistry!Spec

\* Every call of the host returns, however often devices cannot be created: it
\* fails then, and does not try again.
CallsReturn == \A t \in Threads : pc[t] # "idle" ~> pc[t] = "idle"
===============================================================================
