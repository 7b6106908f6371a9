------------------------- MODULE FactoryTables_proofs -------------------------
(***************************************************************************)
(* Theorems about the tables of IreeEpFactory under a warm host: each is a  *)
(* Registry, what an allocator or an EP refers to is there until the         *)
(* destructor reaches it, and the destructor leaves nothing behind.          *)
(***************************************************************************)
EXTENDS IreeEpFactory_proofs

-------------------------------------------------------------------------------
(* Which actions write what.                                                 *)

\* What writes device_cache_.
LEMMA DevicesChange ==
  ASSUME [Next]_vars
  PROVE  \/ UNCHANGED device_cache_
         \/ \E t \in Threads : StoreDevice(t)
         \/ ClearDevices
<1>1. ASSUME Construct
      PROVE  UNCHANGED device_cache_
  BY <1>1 DEF Construct, EnumerateDriver, RegisterHwDevice,
     FinishConstruction, cacheVars
<1>2. ASSUME NEW t \in Threads, Start(t)
      PROVE  UNCHANGED device_cache_
  BY <1>2 DEF Start, CreateEp, CreateAllocator, Compile, Compute, CopyTensors,
     CreateDataTransfer, cacheVars
<1>3. ASSUME NEW t \in Threads, Step(t)
      PROVE  \/ UNCHANGED device_cache_
             \/ StoreDevice(t)
  BY <1>3 DEF Step, FindAllocator, FindDevice, CreateHalDevice,
     HalDeviceFails, FinishCreateEp, FinishCreateAllocator, FinishCompile,
     FinishUse, CheckTransfer, StoreTransfer, cacheVars
<1>4. ASSUME Destroy
      PROVE  \/ UNCHANGED device_cache_
             \/ ClearDevices
  BY <1>4 DEF Destroy, ClearAllocators, ResetTransfer, ReleaseHwDevices,
     cacheVars
<1>. QED BY <1>1, <1>2, <1>3, <1>4 DEF Next, GetSupportedDevices,
   ReleaseNodeComputeInfo, ReleaseEp, ReleaseEpFactory, Gone, vars, cacheVars

\* What writes allocators_ and the allocators.
LEMMA AllocatorsChange ==
  ASSUME [Next]_vars
  PROVE  \/ UNCHANGED <<allocators_, allocs>>
         \/ \E t \in Threads : FinishCreateAllocator(t)
         \/ ClearAllocators
<1>1. ASSUME Construct
      PROVE  UNCHANGED <<allocators_, allocs>>
  BY <1>1 DEF Construct, EnumerateDriver, RegisterHwDevice,
     FinishConstruction, cacheVars, heapVars
<1>2. ASSUME NEW t \in Threads, Start(t)
      PROVE  UNCHANGED <<allocators_, allocs>>
  BY <1>2 DEF Start, CreateEp, CreateAllocator, Compile, Compute, CopyTensors,
     CreateDataTransfer, cacheVars, heapVars
<1>3. ASSUME NEW t \in Threads, Step(t)
      PROVE  \/ UNCHANGED <<allocators_, allocs>>
             \/ FinishCreateAllocator(t)
  BY <1>3 DEF Step, FindAllocator, FindDevice, CreateHalDevice,
     HalDeviceFails, StoreDevice, FinishCreateEp, FinishCompile, FinishUse,
     CheckTransfer, StoreTransfer, cacheVars, heapVars
<1>4. ASSUME Destroy
      PROVE  \/ UNCHANGED <<allocators_, allocs>>
             \/ ClearAllocators
  BY <1>4 DEF Destroy, ResetTransfer, ClearDevices, ReleaseHwDevices,
     cacheVars, heapVars
<1>. QED BY <1>1, <1>2, <1>3, <1>4 DEF Next, GetSupportedDevices,
   ReleaseNodeComputeInfo, ReleaseEp, ReleaseEpFactory, Gone, vars, cacheVars,
   heapVars

\* What writes data_transfer_.
LEMMA TransferChange ==
  ASSUME [Next]_vars
  PROVE  \/ UNCHANGED data_transfer_
         \/ \E t \in Threads : StoreTransfer(t)
         \/ ResetTransfer
<1>1. ASSUME Construct
      PROVE  UNCHANGED data_transfer_
  BY <1>1 DEF Construct, EnumerateDriver, RegisterHwDevice,
     FinishConstruction, cacheVars
<1>2. ASSUME NEW t \in Threads, Start(t)
      PROVE  UNCHANGED data_transfer_
  BY <1>2 DEF Start, CreateEp, CreateAllocator, Compile, Compute, CopyTensors,
     CreateDataTransfer, cacheVars
<1>3. ASSUME NEW t \in Threads, Step(t)
      PROVE  \/ UNCHANGED data_transfer_
             \/ StoreTransfer(t)
  BY <1>3 DEF Step, FindAllocator, FindDevice, CreateHalDevice,
     HalDeviceFails, StoreDevice, FinishCreateEp, FinishCreateAllocator,
     FinishCompile, FinishUse, CheckTransfer, cacheVars
<1>4. ASSUME Destroy
      PROVE  \/ UNCHANGED data_transfer_
             \/ ResetTransfer
  BY <1>4 DEF Destroy, ClearAllocators, ClearDevices, ReleaseHwDevices,
     cacheVars
<1>. QED BY <1>1, <1>2, <1>3, <1>4 DEF Next, GetSupportedDevices,
   ReleaseNodeComputeInfo, ReleaseEp, ReleaseEpFactory, Gone, vars, cacheVars

\* What moves the factory through its life.
LEMMA PhaseChange ==
  ASSUME [Next]_vars
  PROVE  \/ UNCHANGED phase
         \/ FinishConstruction
         \/ ReleaseEpFactory
         \/ ClearAllocators
         \/ ResetTransfer
         \/ ClearDevices
         \/ ReleaseHwDevices
<1>1. ASSUME Construct
      PROVE  \/ UNCHANGED phase
             \/ FinishConstruction
  BY <1>1 DEF Construct, EnumerateDriver, RegisterHwDevice, ctorVars
<1>2. ASSUME NEW t \in Threads, Start(t)
      PROVE  UNCHANGED phase
  BY <1>2 DEF Start, CreateEp, CreateAllocator, Compile, Compute, CopyTensors,
     CreateDataTransfer, ctorVars
<1>3. ASSUME NEW t \in Threads, Step(t)
      PROVE  UNCHANGED phase
  BY <1>3 DEF Step, FindAllocator, FindDevice, CreateHalDevice,
     HalDeviceFails, StoreDevice, FinishCreateEp, FinishCreateAllocator,
     FinishCompile, FinishUse, CheckTransfer, StoreTransfer, ctorVars
<1>4. ASSUME Destroy
      PROVE  \/ UNCHANGED phase
             \/ ClearAllocators
             \/ ResetTransfer
             \/ ClearDevices
             \/ ReleaseHwDevices
  BY <1>4 DEF Destroy, ctorVars
<1>. QED BY <1>1, <1>2, <1>3, <1>4 DEF Next, GetSupportedDevices,
   ReleaseNodeComputeInfo, ReleaseEp, Gone, vars, ctorVars

\* What writes the EPs.
LEMMA EpsChange ==
  ASSUME [Next]_vars
  PROVE  \/ UNCHANGED eps
         \/ \E t \in Threads : FinishCreateEp(t)
         \/ \E s \in EpSlots : ReleaseEp(s)
<1>1. ASSUME Construct
      PROVE  UNCHANGED eps
  BY <1>1 DEF Construct, EnumerateDriver, RegisterHwDevice,
     FinishConstruction, userVars
<1>2. ASSUME NEW t \in Threads, Start(t)
      PROVE  UNCHANGED eps
  BY <1>2 DEF Start, CreateEp, CreateAllocator, Compile, Compute, CopyTensors,
     CreateDataTransfer, userVars
<1>3. ASSUME NEW t \in Threads, Step(t)
      PROVE  \/ UNCHANGED eps
             \/ FinishCreateEp(t)
  BY <1>3 DEF Step, FindAllocator, FindDevice, CreateHalDevice,
     HalDeviceFails, StoreDevice, FinishCreateAllocator, FinishCompile,
     FinishUse, CheckTransfer, StoreTransfer, userVars
<1>4. ASSUME Destroy
      PROVE  UNCHANGED eps
  BY <1>4 DEF Destroy, ClearAllocators, ResetTransfer, ClearDevices,
     ReleaseHwDevices, userVars
<1>. QED BY <1>1, <1>2, <1>3, <1>4 DEF Next, GetSupportedDevices,
   ReleaseNodeComputeInfo, ReleaseEpFactory, Gone, vars, userVars

\* What writes the sessions.
LEMMA InfosChange ==
  ASSUME [Next]_vars
  PROVE  \/ UNCHANGED infos
         \/ \E t \in Threads : FinishCompile(t)
         \/ \E n \in InfoSlots : ReleaseNodeComputeInfo(n)
<1>1. ASSUME Construct
      PROVE  UNCHANGED infos
  BY <1>1 DEF Construct, EnumerateDriver, RegisterHwDevice,
     FinishConstruction, userVars
<1>2. ASSUME NEW t \in Threads, Start(t)
      PROVE  UNCHANGED infos
  BY <1>2 DEF Start, CreateEp, CreateAllocator, Compile, Compute, CopyTensors,
     CreateDataTransfer, userVars
<1>3. ASSUME NEW t \in Threads, Step(t)
      PROVE  \/ UNCHANGED infos
             \/ FinishCompile(t)
  BY <1>3 DEF Step, FindAllocator, FindDevice, CreateHalDevice,
     HalDeviceFails, StoreDevice, FinishCreateEp, FinishCreateAllocator,
     FinishUse, CheckTransfer, StoreTransfer, userVars
<1>4. ASSUME Destroy
      PROVE  UNCHANGED infos
  BY <1>4 DEF Destroy, ClearAllocators, ResetTransfer, ClearDevices,
     ReleaseHwDevices, userVars
<1>. QED BY <1>1, <1>2, <1>3, <1>4 DEF Next, GetSupportedDevices, ReleaseEp,
   ReleaseEpFactory, Gone, vars, userVars

\* What writes hw_devices_ and the ids.
LEMMA HardwareChange ==
  ASSUME [Next]_vars
  PROVE  \/ UNCHANGED <<hw_devices_, hwLive, device_index>>
         \/ \E ok \in BOOLEAN : RegisterHwDevice(ok)
         \/ ReleaseHwDevices
<1>1. ASSUME Construct
      PROVE  \/ UNCHANGED <<hw_devices_, hwLive, device_index>>
             \/ \E ok \in BOOLEAN : RegisterHwDevice(ok)
  BY <1>1 DEF Construct, EnumerateDriver, FinishConstruction, ctorVars,
     tableVars
<1>2. ASSUME NEW t \in Threads, Start(t)
      PROVE  UNCHANGED <<hw_devices_, hwLive, device_index>>
  BY <1>2 DEF Start, CreateEp, CreateAllocator, Compile, Compute, CopyTensors,
     CreateDataTransfer, ctorVars, tableVars
<1>3. ASSUME NEW t \in Threads, Step(t)
      PROVE  UNCHANGED <<hw_devices_, hwLive, device_index>>
  BY <1>3 DEF Step, FindAllocator, FindDevice, CreateHalDevice,
     HalDeviceFails, StoreDevice, FinishCreateEp, FinishCreateAllocator,
     FinishCompile, FinishUse, CheckTransfer, StoreTransfer, ctorVars,
     tableVars
<1>4. ASSUME Destroy
      PROVE  \/ UNCHANGED <<hw_devices_, hwLive, device_index>>
             \/ ReleaseHwDevices
  BY <1>4 DEF Destroy, ClearAllocators, ResetTransfer, ClearDevices, ctorVars,
     tableVars
<1>. QED BY <1>1, <1>2, <1>3, <1>4 DEF Next, GetSupportedDevices,
   ReleaseNodeComputeInfo, ReleaseEp, ReleaseEpFactory, Gone, vars, ctorVars,
   tableVars

\* What writes the result of GetSupportedDevices.
LEMMA SupportedChange ==
  ASSUME [Next]_vars
  PROVE  \/ UNCHANGED <<device_memory_infos_, supported, epDevices>>
         \/ \E max, n \in 0 .. MaxDevices : GetSupportedDevices(max, n)
<1>1. ASSUME Construct
      PROVE  UNCHANGED <<device_memory_infos_, supported, epDevices>>
  BY <1>1 DEF Construct, EnumerateDriver, RegisterHwDevice,
     FinishConstruction, tableVars
<1>2. ASSUME NEW t \in Threads, Start(t)
      PROVE  UNCHANGED <<device_memory_infos_, supported, epDevices>>
  BY <1>2 DEF Start, CreateEp, CreateAllocator, Compile, Compute, CopyTensors,
     CreateDataTransfer, tableVars
<1>3. ASSUME NEW t \in Threads, Step(t)
      PROVE  UNCHANGED <<device_memory_infos_, supported, epDevices>>
  BY <1>3 DEF Step, FindAllocator, FindDevice, CreateHalDevice,
     HalDeviceFails, StoreDevice, FinishCreateEp, FinishCreateAllocator,
     FinishCompile, FinishUse, CheckTransfer, StoreTransfer, tableVars
<1>4. ASSUME Destroy
      PROVE  UNCHANGED <<device_memory_infos_, supported, epDevices>>
  BY <1>4 DEF Destroy, ClearAllocators, ResetTransfer, ClearDevices,
     ReleaseHwDevices, tableVars
<1>. QED BY <1>1, <1>2, <1>3, <1>4 DEF Next, ReleaseNodeComputeInfo,
   ReleaseEp, ReleaseEpFactory, Gone, vars, tableVars

-------------------------------------------------------------------------------
(* The tables are registries.                                                *)

\* Storing a device binds an id that had none to a device that no id has.
LEMMA StoreDeviceBinds ==
  ASSUME IInv, NEW t \in Threads, StoreDevice(t)
  PROVE  /\ call[t].id \in DeviceIds
         /\ DeviceRegistry!Bind(call[t].id)
<1>1. /\ pc[t] = "store" /\ UNCHANGED phase
      /\ device_cache_' = [device_cache_ EXCEPT ![call[t].id] = dev[t]]
  BY DEF StoreDevice
<1>2. call[t].id \in DeviceIds
  BY <1>1 DEF IInv, Calls, DeviceSteps
<1>3. /\ device_cache_[call[t].id] = 0
      /\ dev[t] \in 1 .. Len(hal)
      /\ \A d \in DeviceIds : device_cache_[d] # dev[t]
  BY <1>1 DEF IInv, Missing, Fresh
<1>4. device_cache_ \in [DeviceIds -> Nat] /\ hal \in Seq(Device)
  BY DEF IInv, TypeOK, CachesType, HeapType
<1>5. device_cache_'[call[t].id] = dev[t]
  BY <1>1, <1>2, <1>4
<1>6. dev[t] \in Nat \ {0}
  BY <1>3, <1>4
<1>7. Open
  BY <1>1 DEF IInv, Quiet, AllIdle, Open
<1>. QED
  BY <1>1, <1>2, <1>3, <1>5, <1>6, <1>7 DEF DeviceRegistry!Bind, Open

\* Storing an allocator binds an id that had none to a new allocator.
LEMMA FinishCreateAllocatorBinds ==
  ASSUME IInv, NEW t \in Threads, FinishCreateAllocator(t)
  PROVE  /\ call[t].id \in DeviceIds
         /\ AllocatorRegistry!Bind(call[t].id)
<1>1. /\ pc[t] = "use" /\ call[t].op = "CreateAllocator" /\ UNCHANGED phase
      /\ allocators_' = [allocators_ EXCEPT ![call[t].id] = Len(allocs) + 1]
  BY DEF FinishCreateAllocator
<1>2. call[t].id \in DeviceIds
  BY <1>1 DEF IInv, Calls, DeviceSteps
<1>3. /\ allocators_[call[t].id] = 0
      /\ \A d \in DeviceIds : allocators_[d] <= Len(allocs)
  BY <1>1 DEF IInv, Missing, Fresh, DeviceSteps
<1>4. /\ allocators_ \in [DeviceIds -> Nat]
      /\ Len(allocs) \in Nat
  BY DEF IInv, TypeOK, CachesType, HeapType
<1>5. allocators_'[call[t].id] = Len(allocs) + 1
  BY <1>1, <1>2, <1>4
<1>6. \A d \in DeviceIds : allocators_[d] # Len(allocs) + 1
  BY <1>3, <1>4
<1>7. Open
  BY <1>1 DEF IInv, Quiet, AllIdle, Open
<1>8. Len(allocs) + 1 \in Nat \ {0}
  BY <1>4
<1>. QED
  BY <1>1, <1>2, <1>3, <1>5, <1>6, <1>7, <1>8 DEF AllocatorRegistry!Bind, Open

\* The first data transfer is the only one.
LEMMA StoreTransferBinds ==
  ASSUME IInv, NEW t \in Threads, StoreTransfer(t)
  PROVE  TransferRegistry!Bind(0)
<1>1. /\ pc[t] = "storeTransfer" /\ UNCHANGED phase
      /\ data_transfer_' = transfers + 1
  BY DEF StoreTransfer
<1>2. data_transfer_ = 0 /\ transfers \in Nat
  BY <1>1 DEF IInv, Missing, TypeOK, HeapType
<1>3. Open
  BY <1>1 DEF IInv, Quiet, AllIdle, Open
<1>. QED
  BY <1>1, <1>2, <1>3 DEF TransferRegistry!Bind, Open

\* The destructor closes the registries once, after construction.
LEMMA OpenChange ==
  ASSUME [Next]_vars
  PROVE  \/ UNCHANGED Open
         \/ Open /\ ~Open' /\ UNCHANGED <<device_cache_, allocators_, data_transfer_>>
<1>1. CASE ReleaseEpFactory
  BY <1>1 DEF ReleaseEpFactory, Open, cacheVars
<1>. QED
  BY <1>1, PhaseChange DEF FinishConstruction, ClearAllocators, ResetTransfer,
     ClearDevices, ReleaseHwDevices, Open

\* Every step of the factory is a step of the registry that device_cache_ is.
LEMMA DeviceRegistryStep ==
  ASSUME IInv, [Next]_vars
  PROVE  [DeviceRegistry!Next]_(DeviceRegistry!vars)
<1>1. ASSUME NEW t \in Threads, StoreDevice(t) PROVE DeviceRegistry!Next
  BY <1>1, StoreDeviceBinds DEF DeviceRegistry!Next
<1>2. CASE ClearDevices
  BY <1>2 DEF ClearDevices, Open, DeviceRegistry!Next, DeviceRegistry!Clear
<1>3. CASE UNCHANGED device_cache_
  <2>1. CASE UNCHANGED Open
    BY <1>3, <2>1 DEF DeviceRegistry!vars
  <2>2. CASE Open /\ ~Open'
    BY <1>3, <2>2 DEF DeviceRegistry!Next, DeviceRegistry!Close, Open
  <2>. QED
    BY <2>1, <2>2, OpenChange
<1>. QED
  BY <1>1, <1>2, <1>3, DevicesChange

\* The same of allocators_.
LEMMA AllocatorRegistryStep ==
  ASSUME IInv, [Next]_vars
  PROVE  [AllocatorRegistry!Next]_(AllocatorRegistry!vars)
<1>1. ASSUME NEW t \in Threads, FinishCreateAllocator(t)
      PROVE  AllocatorRegistry!Next
  BY <1>1, FinishCreateAllocatorBinds DEF AllocatorRegistry!Next
<1>2. CASE ClearAllocators
  BY <1>2 DEF ClearAllocators, Open, AllocatorRegistry!Next, AllocatorRegistry!Clear
<1>3. CASE UNCHANGED allocators_
  <2>1. CASE UNCHANGED Open
    BY <1>3, <2>1 DEF AllocatorRegistry!vars
  <2>2. CASE Open /\ ~Open'
    BY <1>3, <2>2 DEF AllocatorRegistry!Next, AllocatorRegistry!Close, Open
  <2>. QED
    BY <2>1, <2>2, OpenChange
<1>. QED
  BY <1>1, <1>2, <1>3, AllocatorsChange

\* The same of data_transfer_.
LEMMA TransferRegistryStep ==
  ASSUME IInv, [Next]_vars
  PROVE  [TransferRegistry!Next]_(TransferRegistry!vars)
<1>1. ASSUME NEW t \in Threads, StoreTransfer(t) PROVE TransferRegistry!Next
  BY <1>1, StoreTransferBinds DEF TransferRegistry!Next
<1>2. CASE ResetTransfer
  BY <1>2 DEF ResetTransfer, Open, TransferRegistry!Next, TransferRegistry!Clear
<1>3. CASE UNCHANGED data_transfer_
  <2>1. CASE UNCHANGED Open
    BY <1>3, <2>1 DEF TransferRegistry!vars
  <2>2. CASE Open /\ ~Open'
    BY <1>3, <2>2 DEF TransferRegistry!Next, TransferRegistry!Close, Open
  <2>. QED
    BY <2>1, <2>2, OpenChange
<1>. QED
  BY <1>1, <1>2, <1>3, TransferChange

\* Two threads that a warm host lets call never open two devices for one id, or
\* one for two: device_cache_ implements a registry.
THEOREM DevicesRefineRegistry ==
  ASSUME WarmHost
  PROVE  Spec => DevicesBoundOnce
<1>1. Init => DeviceRegistry!Init
  BY DEF Init, DeviceRegistry!Init, Open
<1>2. IInv /\ [Next]_vars => [DeviceRegistry!Next]_(DeviceRegistry!vars)
  BY DeviceRegistryStep
<1>. QED
  BY <1>1, <1>2, Inductive, PTL DEF Spec, DevicesBoundOnce, DeviceRegistry!Spec

\* The same of allocators_: an allocator that the host was given is never
\* replaced by another of its device.
THEOREM AllocatorsRefineRegistry ==
  ASSUME WarmHost
  PROVE  Spec => AllocatorsBoundOnce
<1>1. Init => AllocatorRegistry!Init
  BY DEF Init, AllocatorRegistry!Init, Open
<1>2. IInv /\ [Next]_vars => [AllocatorRegistry!Next]_(AllocatorRegistry!vars)
  BY AllocatorRegistryStep
<1>. QED
  BY <1>1, <1>2, Inductive, PTL
  DEF Spec, AllocatorsBoundOnce, AllocatorRegistry!Spec

\* The same of data_transfer_, a table of one entry.
THEOREM TransferRefinesRegistry ==
  ASSUME WarmHost
  PROVE  Spec => TransferBoundOnce
<1>1. Init => TransferRegistry!Init
  BY DEF Init, TransferRegistry!Init, Open
<1>2. IInv /\ [Next]_vars => [TransferRegistry!Next]_(TransferRegistry!vars)
  BY TransferRegistryStep
<1>. QED
  BY <1>1, <1>2, Inductive, PTL DEF Spec, TransferBoundOnce, TransferRegistry!Spec

-------------------------------------------------------------------------------
(* The invariant of the tables' contents.                                    *)

\* Each row of hw_devices_ has an id of its own, and is released once.
Rowed ==
  /\ \A i \in Rows : hw_devices_[i].device_id < device_index
  /\ \A i, j \in Rows : i # j => hw_devices_[i].device_id # hw_devices_[j].device_id
  /\ hwLive \subseteq Rows
  /\ phase = "gone" => hwLive = {}

\* Device id d is that of row i.
RowHas(i, d) == i \in Rows /\ d = hw_devices_[i].device_id

\* An EP has the device id of the row it was asked for.
EpRows ==
  /\ \A s \in EpSlots : EpLive(s) => RowHas(eps[s].hw, eps[s].device_id)
  /\ \A t \in Threads : call[t].op = "CreateEp" => RowHas(call[t].hw, call[t].id)

\* No device instance is in the cache under two ids.
Separate ==
  \A d, e \in DeviceIds :
    d # e /\ device_cache_[d] # 0 => device_cache_[d] # device_cache_[e]

\* The allocators are alive until allocators_ is cleared, and until then each is
\* the entry of its device, which is in the cache.
BeforeClear == phase \in {"enumerating", "ready", "clearAllocators"}
AllocEntries ==
  \A a \in DOMAIN allocs :
    /\ allocs[a].live <=> BeforeClear
    /\ BeforeClear =>
         /\ allocators_[allocs[a].device_id] = a
         /\ device_cache_[allocs[a].device_id] # 0
         /\ allocs[a].device = device_cache_[allocs[a].device_id]

\* Memory info k was handed out with row k + 1, and only with it.
Advertised ==
  /\ \A k \in DOMAIN device_memory_infos_ : device_memory_infos_[k] = k - 1
  /\ Len(device_memory_infos_) = epDevices
  /\ supported = "no" => allocs = << >>
  /\ AllocatorsAreAdvertised

\* The destructor runs without EPs and sessions, and its third step empties the
\* cache.
Ended ==
  /\ ~Open => /\ \A s \in EpSlots : ~EpLive(s)
              /\ \A n \in InfoSlots : ~InfoLive(n)
  /\ phase \in {"releaseHw", "gone"} => \A d \in DeviceIds : device_cache_[d] = 0

TablesInv ==
  Rowed /\ EpRows /\ Separate /\ AllocEntries /\ Advertised /\ Ended

\* The tables are empty at first.
LEMMA InitTablesInv ==
  ASSUME Init
  PROVE  TablesInv
BY DEF Init, TablesInv, Rowed, Rows, EpRows, Separate, AllocEntries, Advertised,
   AllocatorsAreAdvertised, Ended, Open, EpLive, NoEp, NoCall

\* A registered row takes an id that was never given out.
LEMMA RowedStep ==
  ASSUME IInv, TablesInv, [Next]_vars
  PROVE  Rowed'
<1>1. hw_devices_ \in Seq(HwDevice) /\ device_index \in Nat /\ Rowed
  BY DEF IInv, TypeOK, TablesType, FactoryType, TablesInv
<1>2. ASSUME NEW ok \in BOOLEAN, RegisterHwDevice(ok)
      PROVE  Rowed'
  <2>1. /\ phase' = "enumerating" /\ device_index' = device_index + 1
        /\ phase = "enumerating"
    BY <1>2 DEF RegisterHwDevice
  <2>2. \A i \in Rows : hw_devices_[i].device_id \in Nat
    <3>1. \A i \in Rows : hw_devices_[i] \in HwDevice
      BY <1>1 DEF Rows
    <3>2. \A e \in HwDevice : e.device_id \in Nat
      BY MaxDevicesAssumption DEF HwDevice, DeviceIds
    <3>. QED
      BY <3>1, <3>2
  <2>3. CASE ok
    <3>1. /\ hw_devices_' = Append(hw_devices_, [path |-> <<driver, reported>>,
                                                 device_id |-> device_index])
          /\ hwLive' = hwLive \cup {Len(hw_devices_) + 1}
      BY <1>2, <2>3 DEF RegisterHwDevice
    <3>2. /\ Len(hw_devices_') = Len(hw_devices_) + 1
          /\ \A i \in Rows : hw_devices_'[i] = hw_devices_[i]
          /\ hw_devices_'[Len(hw_devices_) + 1].device_id = device_index
      BY <1>1, <3>1 DEF Rows
    <3>3. Rows' = Rows \cup {Len(hw_devices_) + 1}
      BY <1>1, <3>2 DEF Rows
    <3>4. Len(hw_devices_) + 1 \notin Rows
      BY <1>1 DEF Rows
    <3>5. \A i \in Rows : hw_devices_[i].device_id < device_index
      BY <1>1 DEF Rowed
    <3>6. \A i \in Rows' : hw_devices_'[i].device_id < device_index'
      BY <1>1, <2>1, <2>2, <3>2, <3>3, <3>5
    <3>7. \A i, j \in Rows' :
            i # j => hw_devices_'[i].device_id # hw_devices_'[j].device_id
      <4>1. SUFFICES ASSUME NEW i \in Rows', NEW j \in Rows', i # j
                     PROVE  hw_devices_'[i].device_id # hw_devices_'[j].device_id
        OBVIOUS
      <4>2. CASE i \in Rows /\ j \in Rows
        BY <1>1, <3>2, <4>1, <4>2 DEF Rowed
      <4>3. CASE i \notin Rows \/ j \notin Rows
        BY <1>1, <2>2, <3>2, <3>3, <3>5, <4>1, <4>3
      <4>. QED
        BY <4>2, <4>3
    <3>. QED
      BY <1>1, <2>1, <3>1, <3>3, <3>6, <3>7 DEF Rowed
  <2>4. CASE ~ok
    <3>1. UNCHANGED <<hw_devices_, hwLive>>
      BY <1>2, <2>4 DEF RegisterHwDevice
    <3>. QED
      BY <1>1, <2>1, <2>2, <3>1 DEF Rowed, Rows
  <2>. QED
    BY <2>3, <2>4
<1>3. CASE ReleaseHwDevices
  BY <1>1, <1>3 DEF ReleaseHwDevices, Rowed, Rows, ctorVars
<1>4. CASE UNCHANGED <<hw_devices_, hwLive, device_index>>
  <2>1. CASE phase' = "gone" /\ phase # "gone"
    <3>1. ReleaseHwDevices
      BY <2>1, PhaseChange DEF FinishConstruction, ReleaseEpFactory,
         ClearAllocators, ResetTransfer, ClearDevices
    <3>. QED
      BY <1>3, <3>1
  <2>. QED
    BY <1>1, <1>4, <2>1 DEF Rowed, Rows
<1>. QED
  BY <1>2, <1>3, <1>4, HardwareChange

\* Rows are only added.
LEMMA RowsKept ==
  ASSUME IInv, [Next]_vars, NEW i \in Rows
  PROVE  i \in Rows' /\ hw_devices_'[i] = hw_devices_[i]
<1>1. hw_devices_ \in Seq(HwDevice)
  BY DEF IInv, TypeOK, TablesType
<1>2. ASSUME NEW ok \in BOOLEAN, RegisterHwDevice(ok)
      PROVE  i \in Rows' /\ hw_devices_'[i] = hw_devices_[i]
  <2>1. \/ UNCHANGED hw_devices_
        \/ \E e : hw_devices_' = Append(hw_devices_, e)
    BY <1>2 DEF RegisterHwDevice
  <2>. QED
    BY <1>1, <2>1 DEF Rows
<1>3. CASE UNCHANGED hw_devices_
  BY <1>3 DEF Rows
<1>. QED
  BY <1>2, <1>3, HardwareChange DEF ReleaseHwDevices

\* So is what a row says of its id.
LEMMA RowsStay ==
  ASSUME IInv, [Next]_vars, NEW i, NEW d, RowHas(i, d)
  PROVE  RowHas(i, d)'
BY RowsKept DEF RowHas

\* A call of CreateEp has the arguments it began with.
LEMMA CreateEpBegins ==
  ASSUME IInv, [Next]_vars, NEW t \in Threads, call'[t].op = "CreateEp"
  PROVE  \/ call'[t] = call[t]
         \/ \E i \in Rows, s \in EpSlots : CreateEp(t, i, s)
<1>1. call \in [Threads -> Call]
  BY DEF IInv, TypeOK, ThreadsType
<1>2. CASE Construct \/ Destroy
  BY <1>2 DEF Construct, EnumerateDriver, RegisterHwDevice, FinishConstruction,
     Destroy, ClearAllocators, ResetTransfer, ClearDevices, ReleaseHwDevices, thrVars
<1>3. ASSUME NEW u \in Threads, Start(u)
      PROVE  call'[t] = call[t] \/ \E i \in Rows, s \in EpSlots : CreateEp(t, i, s)
  <2>1. CASE u # t
    <3>1. \E c : call' = [call EXCEPT ![u] = c]
      BY <1>3 DEF Start, CreateEp, CreateAllocator, Compile, Compute, CopyTensors,
         CreateDataTransfer, Begin
    <3>. QED
      BY <1>1, <2>1, <3>1
  <2>2. CASE u = t
    <3>1. CASE \E i \in Rows, s \in EpSlots : CreateEp(t, i, s)
      BY <3>1
    <3>2. CASE \E id \in DeviceIds : CreateAllocator(t, id) \/ CopyTensors(t, id)
      BY <1>1, <3>2 DEF CreateAllocator, CopyTensors, Begin, NoCall
    <3>3. CASE \E n \in InfoSlots : Compute(t, n)
      BY <1>1, <3>3 DEF Compute, Begin, NoCall
    <3>4. CASE \E s \in EpSlots, n \in InfoSlots : Compile(t, s, n)
      BY <1>1, <3>4 DEF Compile, Begin, NoCall
    <3>5. CASE CreateDataTransfer(t)
      BY <1>1, <3>5 DEF CreateDataTransfer, Begin, NoCall
    <3>. QED
      BY <1>3, <2>2, <3>1, <3>2, <3>3, <3>4, <3>5 DEF Start
  <2>. QED
    BY <2>1, <2>2
<1>4. ASSUME NEW u \in Threads, Step(u)
      PROVE  call'[t] = call[t]
  <2>1. UNCHANGED call \/ call' = [call EXCEPT ![u] = NoCall]
    BY <1>4 DEF Step, FindAllocator, FindDevice, CreateHalDevice, HalDeviceFails,
       StoreDevice, FinishCreateEp, FinishCreateAllocator, FinishCompile, FinishUse,
       CheckTransfer, StoreTransfer, Return
  <2>. QED
    BY <1>1, <2>1 DEF NoCall
<1>. QED
  BY <1>2, <1>3, <1>4 DEF Next, GetSupportedDevices, ReleaseNodeComputeInfo, ReleaseEp,
     ReleaseEpFactory, Gone, vars, thrVars

\* CreateEp reads the id of its row, and FinishCreateEp stores what it read.
LEMMA EpRowsStep ==
  ASSUME IInv, TablesInv, [Next]_vars
  PROVE  EpRows'
<1>1. EpRows /\ eps \in [EpSlots -> [hw : Nat, device_id : Nat]]
  BY DEF TablesInv, IInv, TypeOK, UsersType
<1>2. ASSUME NEW s \in EpSlots, EpLive(s)'
      PROVE  RowHas(eps[s].hw, eps[s].device_id)'
  <2>1. CASE eps'[s] = eps[s]
    <3>1. EpLive(s)
      BY <1>2, <2>1 DEF EpLive
    <3>2. RowHas(eps[s].hw, eps[s].device_id)
      BY <1>1, <3>1 DEF EpRows
    <3>. QED
      BY <2>1, <3>2, RowsStay DEF RowHas
  <2>2. ASSUME NEW t \in Threads, FinishCreateEp(t), eps'[s] # eps[s]
        PROVE  RowHas(eps[s].hw, eps[s].device_id)'
    <3>1. eps'[s] = [hw |-> call[t].hw, device_id |-> call[t].id]
      BY <1>1, <2>2 DEF FinishCreateEp
    <3>2. RowHas(call[t].hw, call[t].id)
      BY <1>1, <2>2 DEF FinishCreateEp, EpRows
    <3>. QED
      BY <2>2, <3>1, <3>2 DEF RowHas, FinishCreateEp, tableVars, Rows
  <2>3. ASSUME NEW u \in EpSlots, ReleaseEp(u), eps'[s] # eps[s]
        PROVE  FALSE
    <3>1. eps'[s] = NoEp
      BY <1>1, <2>3 DEF ReleaseEp
    <3>. QED
      BY <1>2, <3>1 DEF EpLive, NoEp
  <2>. QED
    BY <2>1, <2>2, <2>3, EpsChange
<1>3. ASSUME NEW t \in Threads, call'[t].op = "CreateEp"
      PROVE  RowHas(call[t].hw, call[t].id)'
  <2>1. CASE call'[t] = call[t]
    <3>1. RowHas(call[t].hw, call[t].id)
      BY <1>1, <1>3, <2>1 DEF EpRows
    <3>. QED
      BY <2>1, <3>1, RowsStay DEF RowHas
  <2>2. ASSUME NEW i \in Rows, NEW s \in EpSlots, CreateEp(t, i, s)
        PROVE  RowHas(call[t].hw, call[t].id)'
    <3>1. call \in [Threads -> Call]
      BY DEF IInv, TypeOK, ThreadsType
    <3>2. call'[t].hw = i /\ call'[t].id = hw_devices_[i].device_id
      BY <2>2, <3>1 DEF CreateEp, Begin, NoCall
    <3>3. UNCHANGED hw_devices_
      BY <2>2 DEF CreateEp, tableVars
    <3>. QED
      BY <3>2, <3>3 DEF RowHas, Rows
  <2>. QED
    BY <1>3, <2>1, <2>2, CreateEpBegins
<1>. QED
  BY <1>2, <1>3 DEF EpRows

\* StoreDevice stores a device no id has.
LEMMA SeparateStep ==
  ASSUME IInv, TablesInv, [Next]_vars
  PROVE  Separate'
<1>1. Separate /\ device_cache_ \in [DeviceIds -> Nat]
  BY DEF TablesInv, IInv, TypeOK, CachesType
<1>2. ASSUME NEW t \in Threads, StoreDevice(t)
      PROVE  Separate'
  <2>1. /\ device_cache_' = [device_cache_ EXCEPT ![call[t].id] = dev[t]]
        /\ \A d \in DeviceIds : device_cache_[d] # dev[t]
    BY <1>2 DEF StoreDevice, IInv, Fresh
  <2>. QED
    BY <1>1, <2>1 DEF Separate
<1>3. CASE ClearDevices
  BY <1>3 DEF ClearDevices, Separate
<1>4. CASE UNCHANGED device_cache_
  BY <1>1, <1>4 DEF Separate
<1>. QED
  BY <1>2, <1>3, <1>4, DevicesChange

\* The phase before the allocators are cleared is left once.
LEMMA BeforeClearChange ==
  ASSUME [Next]_vars
  PROVE  UNCHANGED BeforeClear \/ ClearAllocators
BY PhaseChange DEF FinishConstruction, ReleaseEpFactory, ResetTransfer, ClearDevices,
   ReleaseHwDevices, BeforeClear

\* An allocator is stored with the device that its id has, which stays.
LEMMA AllocEntriesStep ==
  ASSUME IInv, TablesInv, [Next]_vars
  PROVE  AllocEntries'
<1>1. /\ AllocEntries
      /\ allocs \in Seq(Allocator)
      /\ allocators_ \in [DeviceIds -> Nat] /\ device_cache_ \in [DeviceIds -> Nat]
  BY DEF TablesInv, IInv, TypeOK, HeapType, CachesType
<1>2. \A a \in DOMAIN allocs : allocs[a].device_id \in DeviceIds /\ a \in Nat \ {0}
  <2>1. \A a \in DOMAIN allocs : allocs[a] \in Allocator /\ a \in Nat \ {0}
    BY <1>1
  <2>2. \A r \in Allocator : r.device_id \in DeviceIds
    BY DEF Allocator
  <2>. QED
    BY <2>1, <2>2
<1>3. ASSUME NEW t \in Threads, FinishCreateAllocator(t)
      PROVE  AllocEntries'
  <2>1. /\ allocators_[call[t].id] = 0 /\ call[t].id \in DeviceIds
        /\ dev[t] # 0 /\ dev[t] = device_cache_[call[t].id]
        /\ phase = "ready"
    BY <1>3 DEF FinishCreateAllocator, IInv, Missing, Calls, DeviceSteps, Fresh, Quiet,
       AllIdle
  <2>2. /\ allocs' = Append([a \in DOMAIN allocs |-> allocs[a]],
                      [device_id |-> call[t].id, device |-> dev[t],
                       info |-> device_memory_infos_[call[t].id + 1],
                       live |-> TRUE])
        /\ allocators_' = [allocators_ EXCEPT ![call[t].id] = Len(allocs) + 1]
        /\ UNCHANGED <<phase, device_cache_>>
    <3>1. \A a \in DOMAIN allocs : a # allocators_[call[t].id]
      BY <1>2, <2>1
    <3>. QED
      BY <1>3, <3>1 DEF FinishCreateAllocator
  <2>3. [a \in DOMAIN allocs |-> allocs[a]] = allocs
    BY <1>1
  <2>4. /\ DOMAIN allocs' = DOMAIN allocs \cup {Len(allocs) + 1}
        /\ \A a \in DOMAIN allocs : allocs'[a] = allocs[a]
        /\ allocs'[Len(allocs) + 1].device_id = call[t].id
        /\ allocs'[Len(allocs) + 1].device = dev[t]
        /\ allocs'[Len(allocs) + 1].live = TRUE
    BY <1>1, <2>2, <2>3
  <2>5. BeforeClear /\ BeforeClear'
    BY <2>1, <2>2 DEF BeforeClear
  <2>6. ASSUME NEW a \in DOMAIN allocs
        PROVE  /\ allocs'[a].live /\ allocators_'[allocs'[a].device_id] = a
               /\ device_cache_'[allocs'[a].device_id] # 0
               /\ allocs'[a].device = device_cache_'[allocs'[a].device_id]
    <3>1. /\ allocs[a].live /\ allocators_[allocs[a].device_id] = a
          /\ device_cache_[allocs[a].device_id] # 0
          /\ allocs[a].device = device_cache_[allocs[a].device_id]
      BY <1>1, <2>5 DEF AllocEntries
    <3>2. allocs[a].device_id # call[t].id
      BY <1>2, <2>1, <3>1
    <3>. QED
      BY <1>1, <1>2, <2>1, <2>2, <2>4, <3>1, <3>2
  <2>7. /\ allocators_'[call[t].id] = Len(allocs) + 1
        /\ device_cache_'[call[t].id] = dev[t]
    BY <1>1, <2>1, <2>2
  <2>. QED
    BY <2>1, <2>4, <2>5, <2>6, <2>7 DEF AllocEntries
<1>4. CASE ClearAllocators
  <2>1. /\ BeforeClear /\ ~BeforeClear'
        /\ allocs' = [a \in DOMAIN allocs |->
                        IF \E d \in DeviceIds : allocators_[d] = a
                        THEN [allocs[a] EXCEPT !.live = FALSE] ELSE allocs[a]]
    BY <1>4 DEF ClearAllocators, BeforeClear
  <2>2. ASSUME NEW a \in DOMAIN allocs
        PROVE  ~allocs'[a].live
    <3>1. \E d \in DeviceIds : allocators_[d] = a
      BY <1>1, <1>2, <2>1 DEF AllocEntries
    <3>2. allocs[a] \in Allocator
      BY <1>1
    <3>. QED
      BY <2>1, <3>1, <3>2 DEF Allocator
  <2>. QED
    BY <2>1, <2>2 DEF AllocEntries
<1>5. CASE UNCHANGED <<allocators_, allocs>> /\ ~ClearAllocators
  <2>1. UNCHANGED BeforeClear
    BY <1>5, BeforeClearChange
  <2>2. ASSUME BeforeClear, NEW a \in DOMAIN allocs
        PROVE  device_cache_'[allocs[a].device_id] = device_cache_[allocs[a].device_id]
    <3>1. ASSUME NEW t \in Threads, StoreDevice(t)
          PROVE  device_cache_'[allocs[a].device_id] = device_cache_[allocs[a].device_id]
      <4>1. /\ device_cache_' = [device_cache_ EXCEPT ![call[t].id] = dev[t]]
            /\ device_cache_[call[t].id] = 0
        BY <3>1 DEF StoreDevice, IInv, Missing
      <4>2. device_cache_[allocs[a].device_id] # 0
        BY <1>1, <2>2 DEF AllocEntries
      <4>. QED
        BY <1>1, <1>2, <4>1, <4>2
    <3>2. ~ClearDevices
      BY <2>2 DEF ClearDevices, BeforeClear
    <3>. QED
      BY <3>1, <3>2, DevicesChange
  <2>. QED
    BY <1>1, <1>5, <2>1, <2>2 DEF AllocEntries
<1>. QED
  BY <1>3, <1>4, <1>5, AllocatorsChange

\* Memory info k is made when row k + 1 is handed out; CreateAllocator is for one.
LEMMA AdvertisedStep ==
  ASSUME IInv, TablesInv, [Next]_vars
  PROVE  Advertised'
<1>1. /\ Advertised /\ Bounds
      /\ allocs \in Seq(Allocator) /\ device_memory_infos_ \in Seq(DeviceIds)
      /\ epDevices \in Nat
  BY DEF TablesInv, IInv, TypeOK, HeapType, TablesType
<1>2. ASSUME NEW max \in 0 .. MaxDevices, NEW n \in 0 .. MaxDevices,
             GetSupportedDevices(max, n)
      PROVE  Advertised'
  <2>1. /\ supported = "no" /\ supported' # "no"
        /\ device_memory_infos_' = [i \in 1 .. n |-> i - 1] /\ epDevices' = n
        /\ UNCHANGED allocs
    BY <1>2 DEF GetSupportedDevices, heapVars
  <2>2. allocs = << >>
    BY <1>1, <2>1 DEF Advertised
  <2>3. Len(device_memory_infos_') = n
    BY <2>1, MaxDevicesAssumption
  <2>. QED
    BY <2>1, <2>2, <2>3 DEF Advertised, AllocatorsAreAdvertised
<1>3. CASE UNCHANGED <<device_memory_infos_, supported, epDevices>>
  <2>1. ASSUME NEW t \in Threads, FinishCreateAllocator(t)
        PROVE  AllocatorsAreAdvertised' /\ supported # "no"
    <3>1. /\ call[t].id < Len(device_memory_infos_) /\ call[t].id \in Nat
          /\ allocators_[call[t].id] = 0
      BY <2>1, MaxDevicesAssumption
      DEF FinishCreateAllocator, IInv, Missing, Calls, DeviceSteps, DeviceIds
    <3>2. \A a \in DOMAIN allocs : a # allocators_[call[t].id]
      BY <1>1, <3>1
    <3>3. allocs' = Append([a \in DOMAIN allocs |-> allocs[a]],
                      [device_id |-> call[t].id, device |-> dev[t],
                       info |-> device_memory_infos_[call[t].id + 1],
                       live |-> TRUE])
      BY <2>1, <3>2 DEF FinishCreateAllocator
    <3>4. [a \in DOMAIN allocs |-> allocs[a]] = allocs
      BY <1>1
    <3>5. /\ DOMAIN allocs' = DOMAIN allocs \cup {Len(allocs) + 1}
          /\ \A a \in DOMAIN allocs : allocs'[a] = allocs[a]
          /\ allocs'[Len(allocs) + 1].device_id = call[t].id
          /\ allocs'[Len(allocs) + 1].info = device_memory_infos_[call[t].id + 1]
      BY <1>1, <3>3, <3>4
    <3>6. device_memory_infos_[call[t].id + 1] = call[t].id
      BY <1>1, <3>1 DEF Advertised
    <3>7. call[t].id < epDevices
      BY <1>1, <3>1 DEF Advertised
    <3>8. supported # "no"
      BY <1>1, <3>1 DEF Bounds
    <3>. QED
      BY <1>1, <1>3, <3>5, <3>6, <3>7, <3>8 DEF Advertised, AllocatorsAreAdvertised
  <2>2. CASE ClearAllocators
    <3>1. /\ DOMAIN allocs' = DOMAIN allocs
          /\ \A a \in DOMAIN allocs : \/ allocs'[a] = allocs[a]
                                      \/ allocs'[a] = [allocs[a] EXCEPT !.live = FALSE]
      BY <2>2 DEF ClearAllocators
    <3>2. \A a \in DOMAIN allocs : /\ allocs'[a].info = allocs[a].info
                                   /\ allocs'[a].device_id = allocs[a].device_id
      <4>1. \A a \in DOMAIN allocs : allocs[a] \in Allocator
        BY <1>1
      <4>2. \A r \in Allocator : LET f == [r EXCEPT !.live = FALSE] IN
                                  f.info = r.info /\ f.device_id = r.device_id
        BY DEF Allocator
      <4>. QED
        BY <3>1, <4>1, <4>2
    <3>3. allocs = << >> => allocs' = << >>
      BY <2>2 DEF ClearAllocators
    <3>. QED
      BY <1>1, <1>3, <3>1, <3>2, <3>3 DEF Advertised, AllocatorsAreAdvertised
  <2>3. CASE UNCHANGED allocs
    BY <1>1, <1>3, <2>3 DEF Advertised, AllocatorsAreAdvertised
  <2>. QED
    BY <1>1, <1>3, <2>1, <2>2, <2>3, AllocatorsChange DEF Advertised
<1>. QED
  BY <1>2, <1>3, SupportedChange

\* The destructor starts when no EP and no session is left, and none starts after.
LEMMA EndedStep ==
  ASSUME IInv, TablesInv, [Next]_vars
  PROVE  Ended'
<1>1. Ended /\ Quiet
  BY DEF TablesInv, IInv
<1>2. ASSUME ~Open'
      PROVE  (\A s \in EpSlots : ~EpLive(s)') /\ (\A n \in InfoSlots : ~InfoLive(n)')
  <2>1. CASE ReleaseEpFactory
    BY <2>1 DEF ReleaseEpFactory, userVars, EpLive, InfoLive
  <2>2. CASE ~Open
    <3>1. UNCHANGED eps
      BY <1>1, <2>2, EpsChange
      DEF FinishCreateEp, ReleaseEp, Quiet, AllIdle, Open
    <3>2. UNCHANGED infos
      BY <1>1, <2>2, InfosChange
      DEF FinishCompile, ReleaseNodeComputeInfo, Quiet, AllIdle, Open
    <3>. QED
      BY <1>1, <2>2, <3>1, <3>2 DEF Ended, EpLive, InfoLive
  <2>. QED
    BY <1>2, <2>1, <2>2, PhaseChange
    DEF FinishConstruction, ClearAllocators, ResetTransfer, ClearDevices,
        ReleaseHwDevices, Open
<1>3. ASSUME phase' \in {"releaseHw", "gone"}
      PROVE  \A d \in DeviceIds : device_cache_'[d] = 0
  <2>1. CASE ClearDevices
    BY <2>1 DEF ClearDevices
  <2>2. CASE ~ClearDevices
    <3>1. phase \in {"releaseHw", "gone"}
      BY <1>3, <2>2, PhaseChange
      DEF FinishConstruction, ReleaseEpFactory, ClearAllocators, ResetTransfer,
          ReleaseHwDevices
    <3>2. UNCHANGED device_cache_
      BY <1>1, <2>2, <3>1, DevicesChange DEF StoreDevice, Quiet, AllIdle
    <3>. QED
      BY <1>1, <3>1, <3>2 DEF Ended
  <2>. QED
    BY <2>1, <2>2
<1>. QED
  BY <1>2, <1>3 DEF Ended

\* The contents of the tables are right in every reachable state.
THEOREM TablesInductive ==
  ASSUME WarmHost
  PROVE  Spec => [](IInv /\ TablesInv)
<1>1. Init => TablesInv
  BY InitTablesInv
<1>2. IInv /\ TablesInv /\ [Next]_vars => TablesInv'
  BY RowedStep, EpRowsStep, SeparateStep, AllocEntriesStep, AdvertisedStep, EndedStep
  DEF TablesInv
<1>. QED
  BY <1>1, <1>2, Inductive, PTL DEF Spec

\* Until the destructor clears allocators_, an allocator is alive, and while it is
\* alive so is the device that its raw pointer points to.
THEOREM WarmHostAllocatorsUsable ==
  ASSUME WarmHost
  PROVE  Spec => []AllocatorsUsable
<1>1. ASSUME IInv, TablesInv, NEW a \in DOMAIN allocs, allocs[a].live
      PROVE  hal[allocs[a].device].refs > 0
  <2> DEFINE k == allocs[a].device
             d == allocs[a].device_id
  <2>1. device_cache_[d] = k /\ k # 0
    BY <1>1 DEF TablesInv, AllocEntries
  <2>2. d \in DeviceIds
    <3>1. allocs[a] \in Allocator
      BY <1>1 DEF IInv, TypeOK, HeapType
    <3>. QED
      BY <3>1 DEF Allocator
  <2>3. k \in DOMAIN hal
    BY <1>1, <2>1, <2>2 DEF IInv, Fresh, TypeOK, CachesType, HeapType
  <2>4. d \in CacheRefs(k)
    BY <2>1, <2>2 DEF CacheRefs
  <2>5. Cardinality(CacheRefs(k)) # 0
    BY <2>4, FiniteRefs, FS_EmptySet
  <2>6. hal[k].refs = Cardinality(CacheRefs(k)) + Cardinality(SessionRefs(k))
                      + Cardinality(LocalRefs(k))
    BY <1>1, <2>3 DEF IInv, RefsExact, RefsOK
  <2>. QED
    BY <2>5, <2>6, FiniteRefs
<1>2. IInv /\ TablesInv => AllocatorsUsable
  BY <1>1 DEF AllocatorsUsable, TablesInv, AllocEntries, BeforeClear
<1>. QED
  BY <1>2, TablesInductive, PTL

\* Every allocator was advertised with an OrtEpDevice, and has its memory info.
THEOREM WarmHostAllocatorsAdvertised ==
  ASSUME WarmHost
  PROVE  Spec => []AllocatorsAreAdvertised
<1>1. TablesInv => AllocatorsAreAdvertised
  BY DEF TablesInv, Advertised
<1>. QED
  BY <1>1, TablesInductive, PTL

\* The destructor leaves no HAL device, allocator or OrtHardwareDevice behind,
\* whichever tables were filled when it began.
THEOREM WarmHostNothingLeaks ==
  ASSUME WarmHost
  PROVE  Spec => []NothingLeaks
<1>1. ASSUME IInv, TablesInv, phase = "gone"
      PROVE  NothingLeaks
  <2>1. ASSUME NEW k \in DOMAIN hal PROVE hal[k].refs = 0
    <3>1. k # 0
      BY <1>1 DEF IInv, TypeOK, HeapType
    <3>2. CacheRefs(k) = {}
      BY <1>1, <3>1 DEF TablesInv, Ended, CacheRefs
    <3>3. SessionRefs(k) = {}
      BY <1>1, <3>1 DEF TablesInv, Ended, Open, InfoLive, SessionRefs
    <3>4. LocalRefs(k) = {}
      BY <1>1 DEF IInv, Quiet, AllIdle, LocalRefs
    <3>. QED
      BY <1>1, <3>2, <3>3, <3>4, FS_EmptySet DEF IInv, RefsExact, RefsOK
  <2>. QED
    BY <1>1, <2>1 DEF NothingLeaks, TablesInv, AllocEntries, BeforeClear, Rowed
<1>2. IInv /\ TablesInv => NothingLeaks
  BY <1>1 DEF NothingLeaks
<1>. QED
  BY <1>2, TablesInductive, PTL

\* EPs made for different hardware devices have different device ids and work on
\* different device instances, whatever ids the refused devices left unused.
THEOREM WarmHostDevicesStayApart ==
  ASSUME WarmHost
  PROVE  Spec => []DistinctDevicesStayApart
<1>1. ASSUME IInv, TablesInv, NEW s \in EpSlots, NEW u \in EpSlots,
             EpLive(s), EpLive(u), eps[s].hw # eps[u].hw
      PROVE  /\ eps[s].device_id # eps[u].device_id
             /\ device_cache_[eps[s].device_id] # device_cache_[eps[u].device_id]
  <2>1. RowHas(eps[s].hw, eps[s].device_id) /\ RowHas(eps[u].hw, eps[u].device_id)
    BY <1>1 DEF TablesInv, EpRows
  <2>2. eps[s].device_id # eps[u].device_id
    BY <1>1, <2>1 DEF TablesInv, Rowed, RowHas
  <2>3. Open
    BY <1>1 DEF TablesInv, Ended
  <2>4. /\ eps[s].device_id \in DeviceIds /\ eps[u].device_id \in DeviceIds
        /\ device_cache_[eps[s].device_id] # 0
    BY <1>1, <2>3 DEF IInv, Eps
  <2>. QED
    BY <1>1, <2>2, <2>4 DEF TablesInv, Separate
<1>2. IInv /\ TablesInv => DistinctDevicesStayApart
  BY <1>1 DEF DistinctDevicesStayApart
<1>. QED
  BY <1>2, TablesInductive, PTL

\* A session and an allocator of one device id work on one device instance: a warm
\* host does not meet the race in which they do not.
THEOREM WarmHostSessionSharesAllocator ==
  ASSUME WarmHost
  PROVE  Spec => []SessionSharesAllocatorDevice
<1>1. ASSUME IInv, TablesInv, NEW a \in DOMAIN allocs, NEW n \in InfoSlots,
             allocs[a].live, InfoLive(n),
             allocs[a].device_id = eps[infos[n].ep].device_id
      PROVE  allocs[a].device = infos[n].device
  <2>1. Open
    BY <1>1 DEF TablesInv, Ended
  <2>. QED
    BY <1>1, <2>1 DEF IInv, Infos, TablesInv, AllocEntries
<1>2. IInv /\ TablesInv => SessionSharesAllocatorDevice
  BY <1>1 DEF SessionSharesAllocatorDevice
<1>. QED
  BY <1>2, TablesInductive, PTL

-------------------------------------------------------------------------------
(* Which device an EP runs on.                                               *)

\* The device cached under id d is the one that row d + 1 names.
Opened ==
  /\ \A d \in DeviceIds : device_cache_[d] # 0 =>
       /\ d + 1 \in Rows
       /\ hal[device_cache_[d]].path = hw_devices_[d + 1].path
  /\ \A t \in Threads : pc[t] = "store" =>
       hal[dev[t]].path = hw_devices_[call[t].id + 1].path

\* When ORT refuses no device, rows and ids are the same numbers.
Dense ==
  ~HwCreateMayFail =>
    /\ Len(hw_devices_) = device_index
    /\ \A i \in Rows : hw_devices_[i].device_id = i - 1

\* EPs are made for the rows that were handed out.
Requested ==
  /\ \A s \in EpSlots : EpLive(s) => supported # "no" /\ eps[s].hw <= epDevices
  /\ \A t \in Threads : call[t].op = "CreateEp" =>
       supported # "no" /\ call[t].hw <= epDevices

RequestInv == Opened /\ Dense /\ Requested

\* A device keeps its path.
LEMMA PathsStay ==
  ASSUME IInv, [Next]_vars, NEW k \in DOMAIN hal
  PROVE  k \in DOMAIN hal' /\ hal'[k].path = hal[k].path
<1>1. hal \in Seq(Device) /\ hal[k] \in Device
  BY DEF IInv, TypeOK, HeapType
<1>2. \A j : /\ DOMAIN Retain(j) = DOMAIN hal /\ Retain(j)[k].path = hal[k].path
             /\ DOMAIN ReleaseHal(j) = DOMAIN hal /\ ReleaseHal(j)[k].path = hal[k].path
  BY <1>1 DEF Retain, ReleaseHal, Device
<1>3. CASE Construct
  BY <1>3 DEF Construct, EnumerateDriver, RegisterHwDevice, FinishConstruction, heapVars
<1>4. ASSUME NEW t \in Threads, Start(t)
      PROVE  UNCHANGED hal
  BY <1>4 DEF Start, CreateEp, CreateAllocator, Compile, Compute, CopyTensors,
     CreateDataTransfer, heapVars
<1>5. ASSUME NEW t \in Threads, Step(t)
      PROVE  k \in DOMAIN hal' /\ hal'[k].path = hal[k].path
  <2>1. CASE CreateHalDevice(t)
    <3>1. \E e : hal' = Append(hal, e)
      BY <2>1 DEF CreateHalDevice
    <3>. QED
      BY <1>1, <3>1
  <2>2. CASE StoreDevice(t) \/ FinishCompile(t)
    BY <1>2, <2>2 DEF StoreDevice, FinishCompile
  <2>3. CASE UNCHANGED hal
    BY <2>3
  <2>. QED
    BY <1>5, <2>1, <2>2, <2>3 DEF Step, FindAllocator, FindDevice, HalDeviceFails,
       FinishCreateEp, FinishCreateAllocator, FinishUse, CheckTransfer, StoreTransfer,
       heapVars
<1>6. ASSUME NEW n \in InfoSlots, ReleaseNodeComputeInfo(n)
      PROVE  k \in DOMAIN hal' /\ hal'[k].path = hal[k].path
  BY <1>2, <1>6 DEF ReleaseNodeComputeInfo
<1>7. CASE ClearDevices
  <2>1. /\ DOMAIN hal' = DOMAIN hal
        /\ \E r : hal'[k] = [hal[k] EXCEPT !.refs = r]
    BY <1>7 DEF ClearDevices
  <2>. QED
    BY <1>1, <2>1 DEF Device
<1>8. CASE Destroy /\ ~ClearDevices
  BY <1>8 DEF Destroy, ClearAllocators, ResetTransfer, ReleaseHwDevices, heapVars
<1>. QED
  BY <1>3, <1>4, <1>5, <1>6, <1>7, <1>8 DEF Next, GetSupportedDevices, ReleaseEp,
     ReleaseEpFactory, Gone, vars, heapVars

\* A thread is about to store the device of its call only when it made it, or was.
LEMMA StoreBegins ==
  ASSUME IInv, [Next]_vars, NEW t \in Threads, pc'[t] = "store"
  PROVE  \/ pc[t] = "store" /\ dev'[t] = dev[t] /\ call'[t] = call[t]
         \/ CreateHalDevice(t)
<1>1. /\ pc \in [Threads -> {"idle", "findAllocator", "find", "create", "store",
                             "use", "checkTransfer", "storeTransfer"}]
      /\ call \in [Threads -> Call] /\ dev \in [Threads -> Nat]
  BY DEF IInv, TypeOK, ThreadsType
<1>2. CASE Construct \/ Destroy
  BY <1>2 DEF Construct, EnumerateDriver, RegisterHwDevice, FinishConstruction,
     Destroy, ClearAllocators, ResetTransfer, ClearDevices, ReleaseHwDevices, thrVars
<1>3. ASSUME NEW u \in Threads, Start(u)
      PROVE  pc[t] = "store" /\ dev'[t] = dev[t] /\ call'[t] = call[t]
  <2>1. /\ \E c : call' = [call EXCEPT ![u] = c]
        /\ \E p \in {"find", "findAllocator", "checkTransfer"} :
             pc' = [pc EXCEPT ![u] = p]
        /\ UNCHANGED dev
    BY <1>3 DEF Start, CreateEp, CreateAllocator, Compile, Compute, CopyTensors,
       CreateDataTransfer, Begin
  <2>. QED
    BY <1>1, <2>1
<1>4. ASSUME NEW u \in Threads, Step(u), ~CreateHalDevice(u)
      PROVE  pc[t] = "store" /\ dev'[t] = dev[t] /\ call'[t] = call[t]
  <2>1. \/ pc' = [pc EXCEPT ![u] = "idle"]
        \/ pc' = [pc EXCEPT ![u] = "find"]
        \/ pc' = [pc EXCEPT ![u] = "create"]
        \/ pc' = [pc EXCEPT ![u] = "use"]
        \/ pc' = [pc EXCEPT ![u] = "storeTransfer"]
    BY <1>4 DEF Step, FindAllocator, FindDevice, HalDeviceFails, StoreDevice,
       FinishCreateEp, FinishCreateAllocator, FinishCompile, FinishUse, CheckTransfer,
       StoreTransfer, Return
  <2>2. \/ UNCHANGED <<call, dev>>
        \/ UNCHANGED call /\ dev' = [dev EXCEPT ![u] = device_cache_[call[u].id]]
        \/ /\ call' = [call EXCEPT ![u] = NoCall]
           /\ dev' = [dev EXCEPT ![u] = 0]
    BY <1>4 DEF Step, FindAllocator, FindDevice, HalDeviceFails, StoreDevice,
       FinishCreateEp, FinishCreateAllocator, FinishCompile, FinishUse, CheckTransfer,
       StoreTransfer, Return
  <2>3. u # t
    BY <1>1, <2>1
  <2>. QED
    BY <1>1, <2>1, <2>2, <2>3
<1>5. ASSUME NEW u \in Threads, CreateHalDevice(u), u # t
      PROVE  pc[t] = "store" /\ dev'[t] = dev[t] /\ call'[t] = call[t]
  BY <1>1, <1>5 DEF CreateHalDevice
<1>. QED
  BY <1>2, <1>3, <1>4, <1>5 DEF Next, GetSupportedDevices, ReleaseNodeComputeInfo,
     ReleaseEp, ReleaseEpFactory, Gone, vars, thrVars

\* StoreDevice stores the device that the call opened for its id.
LEMMA OpenedStep ==
  ASSUME IInv, RequestInv, [Next]_vars
  PROVE  Opened'
<1>1. /\ Opened /\ device_cache_ \in [DeviceIds -> Nat]
      /\ hal \in Seq(Device) /\ hw_devices_ \in Seq(HwDevice)
      /\ dev \in [Threads -> Nat]
  BY DEF RequestInv, IInv, TypeOK, CachesType, HeapType, TablesType, ThreadsType
<1>2. ASSUME NEW t \in Threads, pc[t] = "store"
      PROVE  /\ dev[t] \in DOMAIN hal /\ call[t].id \in DeviceIds
             /\ call[t].id + 1 \in Rows
  <2>1. /\ dev[t] \in 1 .. Len(hal) /\ call[t].id \in DeviceIds
        /\ call[t].id < Len(hw_devices_)
    BY <1>2 DEF IInv, Fresh, Missing, Calls, DeviceSteps
  <2>. QED
    BY <1>1, <2>1, MaxDevicesAssumption DEF Rows, DeviceIds
<1>3. ASSUME NEW t \in Threads, pc'[t] = "store"
      PROVE  hal'[dev'[t]].path = hw_devices_'[call'[t].id + 1].path
  <2>1. CASE pc[t] = "store" /\ dev'[t] = dev[t] /\ call'[t] = call[t]
    BY <1>1, <1>2, <2>1, PathsStay, RowsKept DEF Opened
  <2>2. CASE CreateHalDevice(t)
    <3>1. /\ hal' = Append(hal, [path |-> hw_devices_[call[t].id + 1].path, refs |-> 1])
          /\ dev' = [dev EXCEPT ![t] = Len(hal) + 1]
          /\ UNCHANGED <<hw_devices_, call>>
      BY <2>2 DEF CreateHalDevice, tableVars
    <3>2. /\ dev'[t] = Len(hal) + 1
          /\ hal'[Len(hal) + 1].path = hw_devices_[call[t].id + 1].path
      BY <1>1, <3>1
    <3>. QED
      BY <3>1, <3>2
  <2>. QED
    BY <1>3, <2>1, <2>2, StoreBegins
<1>4. ASSUME NEW d \in DeviceIds, device_cache_'[d] # 0
      PROVE  /\ d + 1 \in Rows'
             /\ hal'[device_cache_'[d]].path = hw_devices_'[d + 1].path
  <2>1. CASE device_cache_'[d] = device_cache_[d]
    <3>1. /\ d + 1 \in Rows
          /\ hal[device_cache_[d]].path = hw_devices_[d + 1].path
      BY <1>1, <1>4, <2>1 DEF Opened
    <3>2. device_cache_[d] \in DOMAIN hal
      BY <1>1, <1>4, <2>1 DEF IInv, Fresh
    <3>. QED
      BY <2>1, <3>1, <3>2, PathsStay, RowsKept
  <2>2. ASSUME NEW t \in Threads, StoreDevice(t), device_cache_'[d] # device_cache_[d]
        PROVE  /\ d + 1 \in Rows'
               /\ hal'[device_cache_'[d]].path = hw_devices_'[d + 1].path
    <3>1. pc[t] = "store" /\ d = call[t].id /\ device_cache_'[d] = dev[t]
      BY <1>1, <2>2 DEF StoreDevice
    <3>2. hal[dev[t]].path = hw_devices_[d + 1].path
      BY <1>1, <3>1 DEF Opened
    <3>. QED
      BY <1>2, <3>1, <3>2, PathsStay, RowsKept
  <2>3. ~ClearDevices
    BY <1>4 DEF ClearDevices
  <2>. QED
    BY <2>1, <2>2, <2>3, DevicesChange
<1>. QED
  BY <1>3, <1>4 DEF Opened

\* RegisterHwDevice counts the rows when ORT refuses none.
LEMMA DenseStep ==
  ASSUME IInv, RequestInv, [Next]_vars
  PROVE  Dense'
<1>1. SUFFICES ASSUME ~HwCreateMayFail
               PROVE  /\ Len(hw_devices_') = device_index'
                      /\ \A i \in Rows' : hw_devices_'[i].device_id = i - 1
  BY DEF Dense
<1>2. /\ hw_devices_ \in Seq(HwDevice) /\ Len(hw_devices_) = device_index
      /\ \A i \in Rows : hw_devices_[i].device_id = i - 1
  BY <1>1 DEF RequestInv, Dense, IInv, TypeOK, TablesType
<1>3. ASSUME NEW ok \in BOOLEAN, RegisterHwDevice(ok)
      PROVE  /\ Len(hw_devices_') = device_index'
             /\ \A i \in Rows' : hw_devices_'[i].device_id = i - 1
  <2>1. /\ hw_devices_' = Append(hw_devices_, [path |-> <<driver, reported>>,
                                               device_id |-> device_index])
        /\ device_index' = device_index + 1
    BY <1>1, <1>3 DEF RegisterHwDevice
  <2>2. /\ Len(hw_devices_') = Len(hw_devices_) + 1
        /\ \A i \in Rows : hw_devices_'[i] = hw_devices_[i]
        /\ hw_devices_'[Len(hw_devices_) + 1].device_id = device_index
    BY <1>2, <2>1 DEF Rows
  <2>3. Rows' = Rows \cup {Len(hw_devices_) + 1}
    BY <1>2, <2>2 DEF Rows
  <2>4. Len(hw_devices_) \in Nat
    BY <1>2
  <2>5. hw_devices_'[Len(hw_devices_) + 1].device_id = (Len(hw_devices_) + 1) - 1
    BY <1>2, <2>2, <2>4
  <2>6. ASSUME NEW i \in Rows'
        PROVE  hw_devices_'[i].device_id = i - 1
    <3>1. CASE i \in Rows
      <4>1. hw_devices_'[i] = hw_devices_[i]
        BY <2>2, <3>1
      <4>2. hw_devices_[i].device_id = i - 1
        BY <1>2, <3>1
      <4>. QED
        BY <4>1, <4>2
    <3>2. CASE i = Len(hw_devices_) + 1
      BY <2>5, <3>2
    <3>. QED
      BY <2>3, <2>6, <3>1, <3>2
  <2>. QED
    BY <1>2, <2>1, <2>2, <2>6
<1>. QED
  BY <1>2, <1>3, HardwareChange DEF ReleaseHwDevices, ctorVars, Rows

\* CreateEp is for a row that GetSupportedDevices handed out.
LEMMA RequestedStep ==
  ASSUME IInv, TablesInv, RequestInv, [Next]_vars
  PROVE  Requested'
<1>1. /\ Requested /\ eps \in [EpSlots -> [hw : Nat, device_id : Nat]]
      /\ call \in [Threads -> Call]
  BY DEF RequestInv, IInv, TypeOK, UsersType, ThreadsType
<1>2. ASSUME supported # "no"
      PROVE  UNCHANGED <<supported, epDevices>>
  BY <1>2, SupportedChange DEF GetSupportedDevices
<1>3. ASSUME NEW s \in EpSlots, EpLive(s)'
      PROVE  supported' # "no" /\ eps'[s].hw <= epDevices'
  <2>1. CASE eps'[s] = eps[s]
    BY <1>1, <1>2, <1>3, <2>1 DEF Requested, EpLive
  <2>2. ASSUME NEW t \in Threads, FinishCreateEp(t), eps'[s] # eps[s]
        PROVE  supported' # "no" /\ eps'[s].hw <= epDevices'
    BY <1>1, <1>2, <2>2 DEF FinishCreateEp, Requested
  <2>3. ASSUME NEW u \in EpSlots, ReleaseEp(u), eps'[s] # eps[s]
        PROVE  FALSE
    BY <1>1, <1>3, <2>3 DEF ReleaseEp, EpLive, NoEp
  <2>. QED
    BY <2>1, <2>2, <2>3, EpsChange
<1>4. ASSUME NEW t \in Threads, call'[t].op = "CreateEp"
      PROVE  supported' # "no" /\ call'[t].hw <= epDevices'
  <2>1. CASE call'[t] = call[t]
    BY <1>1, <1>2, <1>4, <2>1 DEF Requested
  <2>2. ASSUME NEW i \in Rows, NEW s \in EpSlots, CreateEp(t, i, s)
        PROVE  supported' # "no" /\ call'[t].hw <= epDevices'
    BY <1>1, <2>2 DEF CreateEp, Begin, NoCall, tableVars
  <2>. QED
    BY <1>4, <2>1, <2>2, CreateEpBegins
<1>. QED
  BY <1>3, <1>4 DEF Requested

\* When ORT refuses none of the hardware devices, an EP runs on the device that
\* the metadata of its hardware device names, and has the id of its memory info.
THEOREM EpRunsOnRequestedUnlessRefused ==
  ASSUME WarmHost, ~HwCreateMayFail
  PROVE  Spec => []EpRunsOnRequestedDevice
<1>1. Init => RequestInv
  BY DEF Init, RequestInv, Opened, Dense, Requested, Rows, EpLive, NoEp, NoCall
<1>2. IInv /\ TablesInv /\ RequestInv /\ [Next]_vars => RequestInv'
  BY OpenedStep, DenseStep, RequestedStep DEF RequestInv
<1>3. ASSUME IInv, TablesInv, RequestInv, NEW s \in EpSlots, EpLive(s)
      PROVE  /\ hal[device_cache_[eps[s].device_id]].path = hw_devices_[eps[s].hw].path
             /\ device_memory_infos_[eps[s].hw] = eps[s].device_id
  <2>1. /\ eps[s].hw \in Rows
        /\ eps[s].device_id = hw_devices_[eps[s].hw].device_id
    BY <1>3 DEF TablesInv, EpRows, RowHas
  <2>2. eps[s].device_id = eps[s].hw - 1
    BY <1>3, <2>1 DEF RequestInv, Dense
  <2>3. Len(hw_devices_) \in Nat
    BY <1>3 DEF IInv, TypeOK, TablesType
  <2>4. /\ eps[s].device_id \in DeviceIds
        /\ device_cache_[eps[s].device_id] # 0
    BY <1>3 DEF TablesInv, Ended, IInv, Eps
  <2>5. hal[device_cache_[eps[s].device_id]].path = hw_devices_[eps[s].hw].path
    <3>1. eps[s].device_id + 1 = eps[s].hw
      BY <2>1, <2>2, <2>3 DEF Rows
    <3>. QED
      BY <1>3, <2>4, <3>1 DEF RequestInv, Opened
  <2>6. eps[s].hw \in DOMAIN device_memory_infos_
    <3>1. eps[s].hw <= Len(device_memory_infos_)
      BY <1>3 DEF RequestInv, Requested, TablesInv, Advertised
    <3>2. device_memory_infos_ \in Seq(DeviceIds)
      BY <1>3 DEF IInv, TypeOK, TablesType
    <3>. QED
      BY <2>1, <2>3, <3>1, <3>2 DEF Rows
  <2>. QED
    BY <1>3, <2>2, <2>5, <2>6 DEF TablesInv, Advertised
<1>4. IInv /\ TablesInv /\ RequestInv => EpRunsOnRequestedDevice
  BY <1>3 DEF EpRunsOnRequestedDevice
<1>. QED
  BY <1>1, <1>2, <1>4, TablesInductive, PTL DEF Spec
===============================================================================
