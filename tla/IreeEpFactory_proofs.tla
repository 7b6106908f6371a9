------------------------- MODULE IreeEpFactory_proofs -------------------------
(***************************************************************************)
(* Theorems about IreeEpFactory for a host that keeps to the "warm" policy: *)
(* it calls from one thread until every table is filled, and from any       *)
(* number of threads afterwards.  The sets of threads, drivers, EPs and     *)
(* sessions and the number of devices are arbitrary.                        *)
(***************************************************************************)
EXTENDS IreeEpFactory, FiniteSetTheorems, TLAPS

\* The hypothesis of every theorem about several threads.
WarmHost == HostPolicy = "warm"

(* The inductive invariant.  Its heart is Serial with Missing: a thread that  *)
(* is about to write a table is about to fill a missing entry, so the tables  *)
(* are not warm, so every other thread is idle.                               *)

DeviceSteps == {"find", "create", "store", "use"}
DeviceOps == {"CreateEp", "CreateAllocator", "Compile", "Compute", "CopyTensors"}

Bounds ==
  /\ device_index + reported <= MaxDevices
  /\ Len(hw_devices_) <= device_index
  /\ reported > 0 => driver \in Drivers
  /\ epDevices <= Len(hw_devices_)
  /\ Len(device_memory_infos_) <= Len(hw_devices_)
  /\ phase = "enumerating" => supported = "no"
  /\ supported = "no" => device_memory_infos_ = << >>

\* Calls run only while the factory is ready.
Quiet == phase # "ready" => AllIdle

Calls ==
  \A t \in Threads :
    /\ pc[t] \in DeviceSteps => call[t].op \in DeviceOps
    /\ pc[t] = "findAllocator" => call[t].op = "CreateAllocator"
    /\ pc[t] \in DeviceSteps \cup {"findAllocator"} => call[t].id \in DeviceIds

\* At most one thread is inside a call, unless every entry is there.
Serial ==
  Warm \/ \A t, u \in Threads : t # u => pc[t] = "idle" \/ pc[u] = "idle"

\* What a thread is about to fill is missing.
Missing ==
  \A t \in Threads :
    /\ pc[t] \in {"create", "store"} =>
         device_cache_[call[t].id] = 0 /\ call[t].id < Len(hw_devices_)
    /\ pc[t] \in DeviceSteps /\ call[t].op = "CreateAllocator" =>
         /\ allocators_[call[t].id] = 0
         /\ call[t].id < Len(device_memory_infos_)
    /\ pc[t] = "storeTransfer" => data_transfer_ = 0

\* Objects are numbered in the order of their creation; the device a thread is
\* about to store is in no entry, the one it uses is the entry.
Fresh ==
  /\ \A d \in DeviceIds : device_cache_[d] <= Len(hal)
  /\ \A d \in DeviceIds : allocators_[d] <= Len(allocs)
  /\ \A t \in Threads :
       /\ pc[t] = "store" => /\ dev[t] \in 1 .. Len(hal)
                             /\ \A d \in DeviceIds : device_cache_[d] # dev[t]
       /\ pc[t] = "use" => /\ dev[t] # 0
                           /\ dev[t] = device_cache_[call[t].id]

\* The EPs: their device is in the cache, and the slot of an EP in the making
\* is free and reserved for it.
Eps ==
  Open =>
    /\ \A s \in EpSlots : EpLive(s) =>
         /\ eps[s].device_id \in DeviceIds
         /\ device_cache_[eps[s].device_id] # 0
    /\ \A t \in Threads : call[t].op = "CreateEp" =>
         /\ call[t].ep \in EpSlots
         /\ ~EpLive(call[t].ep)
         /\ call[t].hw # 0
         /\ \A u \in Threads : u # t => call[u].ep # call[t].ep

\* The sessions: their EP is alive and its device is theirs.
Infos ==
  Open =>
    /\ \A n \in InfoSlots : InfoLive(n) =>
         /\ infos[n].ep \in EpSlots
         /\ EpLive(infos[n].ep)
         /\ infos[n].device \in DOMAIN hal
         /\ infos[n].device = device_cache_[eps[infos[n].ep].device_id]
    /\ \A t \in Threads : call[t].op = "Compile" =>
         /\ call[t].ep \in EpSlots /\ call[t].info \in InfoSlots
         /\ EpLive(call[t].ep)
         /\ call[t].id = eps[call[t].ep].device_id
         /\ ~InfoLive(call[t].info)
         /\ \A u \in Threads : u # t => call[u].info # call[t].info
    /\ \A t \in Threads : call[t].op = "Compute" =>
         /\ call[t].info \in InfoSlots
         /\ InfoLive(call[t].info)
         /\ call[t].id = eps[infos[call[t].info].ep].device_id

\* The allocators: their device is the one in the cache.
Allocs ==
  Open =>
    \A a \in DOMAIN allocs :
      /\ device_cache_[allocs[a].device_id] # 0
      /\ allocs[a].device = device_cache_[allocs[a].device_id]

IInv == /\ TypeOK /\ Bounds /\ Quiet /\ Calls /\ Serial /\ Missing /\ Fresh
        /\ Eps /\ Infos /\ Allocs /\ RefsExact

-------------------------------------------------------------------------------
(* The sets that RefsExact counts are finite.                                *)
LEMMA FiniteRefs ==
  ASSUME NEW k
  PROVE  /\ IsFiniteSet(CacheRefs(k)) /\ Cardinality(CacheRefs(k)) \in Nat
         /\ IsFiniteSet(SessionRefs(k)) /\ Cardinality(SessionRefs(k)) \in Nat
         /\ IsFiniteSet(LocalRefs(k)) /\ Cardinality(LocalRefs(k)) \in Nat
<1>1. IsFiniteSet(DeviceIds)
  BY MaxDevicesAssumption, FS_Interval DEF DeviceIds
<1>2. /\ IsFiniteSet(CacheRefs(k))
      /\ IsFiniteSet(SessionRefs(k))
      /\ IsFiniteSet(LocalRefs(k))
  BY <1>1, FiniteAssumption, FS_Subset DEF CacheRefs, SessionRefs, LocalRefs
<1>. QED
  BY <1>2, FS_CardinalityType


(* The next driver may not report more devices than ids are left. *)
LEMMA EnumerateDriverStep ==
  ASSUME IInv, NEW d \in Drivers, NEW n \in 0 .. MaxDevices, EnumerateDriver(d, n)
  PROVE  IInv'
<1>1. FactoryType /\ TablesType /\ CachesType /\ HeapType /\ UsersType /\ ThreadsType
  BY DEF IInv, TypeOK
<1>2. Bounds /\ Quiet /\ Calls /\ Serial /\ Missing /\ Fresh /\ Eps /\ Infos
      /\ Allocs /\ RefsExact
  BY DEF IInv
<1>3. UNCHANGED <<phase, device_index, hw_devices_, hwLive, device_memory_infos_, supported,
                 epDevices, device_cache_, allocators_, data_transfer_, hal,
                 allocs, transfers, eps, infos, pc, call, dev>>
  BY DEF EnumerateDriver, vars, ctorVars, tableVars, cacheVars, heapVars, userVars, thrVars
<1>4. /\ untried' = untried \ {d} /\ driver' = d /\ reported' = n
      /\ device_index + n <= MaxDevices
  BY DEF EnumerateDriver, vars, ctorVars, tableVars, cacheVars, heapVars, userVars, thrVars
<1>5. TablesType' /\ CachesType' /\ HeapType' /\ UsersType' /\ ThreadsType' /\
      Quiet' /\ Calls' /\ Serial' /\ Missing' /\ Fresh' /\ Eps' /\
      Infos' /\ Allocs'
  BY <1>1, <1>2, <1>3 DEF TablesType, CachesType, HeapType, UsersType, ThreadsType, Quiet, AllIdle, Calls, Serial, Warm, Rows, Missing, Fresh, Eps, Open, EpLive, Infos, InfoLive, Allocs
<1>6. RefsExact'
  <2>1. \A k : /\ CacheRefs(k)' = CacheRefs(k)
                /\ SessionRefs(k)' = SessionRefs(k)
                /\ LocalRefs(k)' = LocalRefs(k)
    BY <1>3 DEF CacheRefs, SessionRefs, LocalRefs
  <2>. QED
    BY <1>2, <1>3, <2>1 DEF RefsExact, RefsOK
<1>7. FactoryType'
  BY <1>1, <1>3, <1>4 DEF FactoryType
<1>8. Bounds'
  BY <1>2, <1>3, <1>4 DEF Bounds
<1>. QED
  BY <1>5, <1>6, <1>7, <1>8 DEF IInv, TypeOK

(* One reported device becomes one device id and at most one row. *)
LEMMA RegisterHwDeviceStep ==
  ASSUME IInv, NEW ok \in BOOLEAN, RegisterHwDevice(ok)
  PROVE  IInv'
<1>1. FactoryType /\ TablesType /\ CachesType /\ HeapType /\ UsersType /\ ThreadsType
  BY DEF IInv, TypeOK
<1>2. Bounds /\ Quiet /\ Calls /\ Serial /\ Missing /\ Fresh /\ Eps /\ Infos
      /\ Allocs /\ RefsExact
  BY DEF IInv
<1>3. UNCHANGED <<phase, untried, driver, device_memory_infos_, supported, epDevices,
                 device_cache_, allocators_, data_transfer_, hal, allocs,
                 transfers, eps, infos, pc, call, dev>>
  BY DEF RegisterHwDevice, vars, ctorVars, tableVars, cacheVars, heapVars, userVars, thrVars
<1>4. /\ phase = "enumerating" /\ reported > 0
      /\ device_index' = device_index + 1 /\ reported' = reported - 1
  BY DEF RegisterHwDevice, vars, ctorVars, tableVars, cacheVars, heapVars, userVars, thrVars
<1>5. driver \in Drivers
  BY <1>1, <1>2, <1>4 DEF FactoryType, Bounds
<1>6. /\ hw_devices_' \in Seq(HwDevice)
      /\ Len(hw_devices_') \in {Len(hw_devices_), Len(hw_devices_) + 1}
      /\ hwLive' \subseteq Nat
  <2>1. [path |-> <<driver, reported>>, device_id |-> device_index] \in HwDevice
    BY <1>1, <1>2, <1>4, MaxDevicesAssumption DEF FactoryType, Bounds, HwDevice, Path, DeviceIds
  <2>2. CASE ok
    <3>1. /\ hw_devices_' = Append(hw_devices_, [path |-> <<driver, reported>>,
                                           device_id |-> device_index])
          /\ hwLive' = hwLive \cup {Len(hw_devices_) + 1}
      BY <2>2 DEF RegisterHwDevice
    <3>2. hw_devices_' \in Seq(HwDevice) /\ Len(hw_devices_') = Len(hw_devices_) + 1
      BY <3>1, <2>1, <1>1 DEF TablesType
    <3>3. Len(hw_devices_) \in Nat /\ hwLive \subseteq Nat
      BY <1>1 DEF TablesType
    <3>4. Len(hw_devices_) + 1 \in Nat
      BY <3>3
    <3>5. hwLive' \subseteq Nat
      BY <3>1, <3>3, <3>4
    <3>. QED
      BY <3>2, <3>3, <3>5
  <2>3. CASE ~ok
    BY <2>3, <1>1, <1>4 DEF RegisterHwDevice, TablesType
  <2>. QED
    BY <2>2, <2>3
<1>7. \A t \in Threads : pc[t] = "idle"
  BY <1>2, <1>4 DEF Quiet, AllIdle
<1>8. CachesType' /\ HeapType' /\ UsersType' /\ ThreadsType' /\ Quiet' /\
      Calls' /\ Fresh' /\ Eps' /\ Infos' /\ Allocs'
  BY <1>1, <1>2, <1>3 DEF CachesType, HeapType, UsersType, ThreadsType, Quiet, AllIdle, Calls, Fresh, Eps, Open, EpLive, Infos, InfoLive, Allocs
<1>9. RefsExact'
  <2>1. \A k : /\ CacheRefs(k)' = CacheRefs(k)
                /\ SessionRefs(k)' = SessionRefs(k)
                /\ LocalRefs(k)' = LocalRefs(k)
    BY <1>3 DEF CacheRefs, SessionRefs, LocalRefs
  <2>. QED
    BY <1>2, <1>3, <2>1 DEF RefsExact, RefsOK
<1>10. FactoryType'
  BY <1>1, <1>3, <1>4 DEF FactoryType
<1>11. TablesType'
  BY <1>1, <1>3, <1>6 DEF TablesType
<1>12. Bounds'
  BY <1>1, <1>2, <1>3, <1>4, <1>6 DEF Bounds, TablesType, FactoryType
<1>13. Serial'
  BY <1>3, <1>7 DEF Serial
<1>14. Missing'
  BY <1>3, <1>7 DEF Missing, DeviceSteps
<1>. QED
  BY <1>8, <1>9, <1>10, <1>11, <1>12, <1>13, <1>14 DEF IInv, TypeOK

(* The end of the constructor leaves the tables alone. *)
LEMMA FinishConstructionStep ==
  ASSUME IInv, FinishConstruction
  PROVE  IInv'
<1>1. FactoryType /\ TablesType /\ CachesType /\ HeapType /\ UsersType /\ ThreadsType
  BY DEF IInv, TypeOK
<1>2. Bounds /\ Quiet /\ Calls /\ Serial /\ Missing /\ Fresh /\ Eps /\ Infos
      /\ Allocs /\ RefsExact
  BY DEF IInv
<1>3. UNCHANGED <<reported, device_index, hw_devices_, hwLive, device_memory_infos_,
                 supported, epDevices, device_cache_, allocators_,
                 data_transfer_, hal, allocs, transfers, eps, infos, pc,
                 call, dev>>
  BY DEF FinishConstruction, vars, ctorVars, tableVars, cacheVars, heapVars, userVars, thrVars
<1>4. /\ phase = "enumerating" /\ phase' = "ready"
      /\ reported = 0 /\ untried' = {} /\ driver' = "none"
  BY DEF FinishConstruction, vars, ctorVars, tableVars, cacheVars, heapVars, userVars, thrVars
<1>5. TablesType' /\ CachesType' /\ HeapType' /\ UsersType' /\ ThreadsType' /\
      Calls' /\ Serial' /\ Missing' /\ Fresh'
  BY <1>1, <1>2, <1>3 DEF TablesType, CachesType, HeapType, UsersType, ThreadsType, Calls, Serial, Warm, Rows, Missing, Fresh
<1>6. RefsExact'
  <2>1. \A k : /\ CacheRefs(k)' = CacheRefs(k)
                /\ SessionRefs(k)' = SessionRefs(k)
                /\ LocalRefs(k)' = LocalRefs(k)
    BY <1>3 DEF CacheRefs, SessionRefs, LocalRefs
  <2>. QED
    BY <1>2, <1>3, <2>1 DEF RefsExact, RefsOK
<1>7. FactoryType'
  BY <1>1, <1>3, <1>4 DEF FactoryType
<1>8. Bounds'
  BY <1>2, <1>3, <1>4 DEF Bounds
<1>9. Quiet'
  BY <1>4 DEF Quiet, AllIdle
<1>10. Eps'
  BY <1>2, <1>3, <1>4 DEF Eps, Open, EpLive
<1>11. Infos'
  BY <1>2, <1>3, <1>4 DEF Infos, Open, EpLive, InfoLive
<1>12. Allocs'
  BY <1>2, <1>3, <1>4 DEF Allocs, Open
<1>. QED
  BY <1>5, <1>6, <1>7, <1>8, <1>9, <1>10, <1>11, <1>12 DEF IInv, TypeOK

(* The memory infos kept are no more than the devices; nothing runs. *)
LEMMA GetSupportedDevicesStep ==
  ASSUME IInv, NEW max \in 0 .. MaxDevices, NEW n \in 0 .. MaxDevices, GetSupportedDevices(max, n)
  PROVE  IInv'
<1>1. FactoryType /\ TablesType /\ CachesType /\ HeapType /\ UsersType /\ ThreadsType
  BY DEF IInv, TypeOK
<1>2. Bounds /\ Quiet /\ Calls /\ Serial /\ Missing /\ Fresh /\ Eps /\ Infos
      /\ Allocs /\ RefsExact
  BY DEF IInv
<1>3. UNCHANGED <<phase, untried, driver, reported, device_index, hw_devices_, hwLive,
                 device_cache_, allocators_, data_transfer_, hal, allocs,
                 transfers, eps, infos, pc, call, dev>>
  BY DEF GetSupportedDevices, AllIdle, vars, ctorVars, tableVars, cacheVars, heapVars, userVars, thrVars
<1>4. /\ phase = "ready" /\ n \in Nat /\ n <= Len(hw_devices_)
      /\ supported' \in {"ok", "error"} /\ epDevices' = n
      /\ device_memory_infos_' = [i \in 1 .. n |-> i - 1]
      /\ \A t \in Threads : pc[t] = "idle"
  BY MaxDevicesAssumption DEF GetSupportedDevices, AllIdle, vars, ctorVars, tableVars, cacheVars, heapVars, userVars, thrVars
<1>5. device_memory_infos_' \in Seq(DeviceIds) /\ Len(device_memory_infos_') = n
  BY <1>1, <1>2, <1>4, MaxDevicesAssumption DEF Bounds, FactoryType, TablesType, DeviceIds
<1>6. FactoryType' /\ CachesType' /\ HeapType' /\ UsersType' /\ ThreadsType'
      /\ Quiet' /\ Calls' /\ Fresh' /\ Eps' /\ Infos' /\ Allocs'
  BY <1>1, <1>2, <1>3 DEF FactoryType, CachesType, HeapType, UsersType, ThreadsType, Quiet, AllIdle, Calls, Fresh, Eps, Open, EpLive, Infos, InfoLive, Allocs
<1>7. RefsExact'
  <2>1. \A k : /\ CacheRefs(k)' = CacheRefs(k)
                /\ SessionRefs(k)' = SessionRefs(k)
                /\ LocalRefs(k)' = LocalRefs(k)
    BY <1>3 DEF CacheRefs, SessionRefs, LocalRefs
  <2>. QED
    BY <1>2, <1>3, <2>1 DEF RefsExact, RefsOK
<1>8. TablesType'
  BY <1>1, <1>3, <1>4, <1>5 DEF TablesType, HwDevice, DeviceIds
<1>9. Bounds'
  BY <1>2, <1>3, <1>4 DEF Bounds
<1>10. Serial'
  BY <1>3, <1>4 DEF Serial, Warm, Rows
<1>11. Missing'
  BY <1>3, <1>4 DEF Missing, DeviceSteps
<1>. QED
  BY <1>6, <1>7, <1>8, <1>9, <1>10, <1>11 DEF IInv, TypeOK

(* CreateEp begins only while the tables are warm or no call runs. *)
LEMMA CreateEpStep ==
  ASSUME IInv, WarmHost, NEW t \in Threads, NEW i \in Rows, NEW s \in EpSlots, CreateEp(t, i, s)
  PROVE  IInv'
<1>1. FactoryType /\ TablesType /\ CachesType /\ HeapType /\ UsersType /\ ThreadsType
  BY DEF IInv, TypeOK
<1>2. Bounds /\ Quiet /\ Calls /\ Serial /\ Missing /\ Fresh /\ Eps /\ Infos
      /\ Allocs /\ RefsExact
  BY DEF IInv
<1>3. UNCHANGED <<phase, untried, driver, reported, device_index, hw_devices_, hwLive,
                 device_memory_infos_, supported, epDevices, device_cache_,
                 allocators_, data_transfer_, hal, allocs, transfers, eps,
                 infos, dev>>
  BY DEF CreateEp, MayCall, Begin, NoCall, AllIdle, vars, ctorVars, tableVars, cacheVars, heapVars, userVars, thrVars
<1>4. /\ \A u \in Threads \ {t} : pc'[u] = pc[u] /\ call'[u] = call[u] /\ dev'[u] = dev[u]
      /\ phase = "ready" /\ pc[t] = "idle" /\ pc'[t] = "find"
      /\ call'[t] = [op |-> "CreateEp", id |-> hw_devices_[i].device_id, hw |-> i, ep |-> s, info |-> "none"]
  BY <1>1 DEF ThreadsType, CreateEp, MayCall, Begin, NoCall, AllIdle, vars, ctorVars, tableVars, cacheVars, heapVars, userVars, thrVars
<1>5. Warm \/ \A u \in Threads : pc[u] = "idle"
  BY DEF WarmHost, CreateEp, MayCall, Begin, NoCall, AllIdle, vars, ctorVars, tableVars, cacheVars, heapVars, userVars, thrVars
<1>6. ~EpLive(s) /\ (\A u \in Threads : call[u].ep # s) /\ hw_devices_[i].device_id \in DeviceIds /\ i # 0
  <2>1. hw_devices_[i] \in HwDevice /\ i # 0
    BY <1>1 DEF Rows, TablesType
  <2>2. hw_devices_[i].device_id \in DeviceIds
    BY <2>1 DEF HwDevice
  <2>. QED
    BY <2>1, <2>2 DEF CreateEp, MayCall, Begin, NoCall, AllIdle, vars, ctorVars, tableVars, cacheVars, heapVars, userVars, thrVars
<1>7. [op |-> "CreateEp", id |-> hw_devices_[i].device_id, hw |-> i, ep |-> s, info |-> "none"] \in Call
  BY <1>6 DEF EpLive, TablesType, UsersType, HwDevice, Rows, Eps, Open, Infos, InfoLive, Bounds, DeviceIds, Call, Ops
<1>8. FactoryType' /\ TablesType' /\ CachesType' /\ HeapType' /\ UsersType' /\
      Bounds' /\ Allocs'
  BY <1>1, <1>2, <1>3 DEF FactoryType, TablesType, CachesType, HeapType, UsersType, Bounds, Allocs, Open
<1>9. ThreadsType'
  BY <1>1, <1>7 DEF CreateEp, Begin, NoCall, ThreadsType
<1>10. Quiet'
  BY <1>3, <1>4 DEF Quiet, AllIdle
<1>11. Calls'
  BY <1>2, <1>4, <1>6 DEF Calls, DeviceSteps, DeviceOps, DeviceIds, Eps, Infos, Open
<1>12. Serial'
  BY <1>3, <1>4, <1>5 DEF Serial, Warm, Rows
<1>13. Missing'
  BY <1>2, <1>3, <1>4 DEF Missing, DeviceSteps
<1>14. Fresh'
  BY <1>2, <1>3, <1>4 DEF Fresh
<1>15. Eps'
  BY <1>2, <1>3, <1>4, <1>6 DEF Eps, Open, EpLive
<1>16. Infos'
  BY <1>2, <1>3, <1>4, SlotsAssumption DEF Infos, Open, EpLive, InfoLive
<1>17. RefsExact'
  <2>1. \A k : LocalRefs(k)' = LocalRefs(k)
    BY <1>3, <1>4 DEF LocalRefs
  <2>2. \A k : CacheRefs(k)' = CacheRefs(k) /\ SessionRefs(k)' = SessionRefs(k)
    BY <1>3 DEF CacheRefs, SessionRefs
  <2>. QED
    BY <1>2, <1>3, <2>1, <2>2 DEF RefsExact, RefsOK
<1>. QED
  BY <1>8, <1>9, <1>10, <1>11, <1>12, <1>13, <1>14, <1>15, <1>16, <1>17 DEF IInv, TypeOK

(* CreateAllocator begins only while the tables are warm or no call runs. *)
LEMMA CreateAllocatorStep ==
  ASSUME IInv, WarmHost, NEW t \in Threads, NEW id \in DeviceIds, CreateAllocator(t, id)
  PROVE  IInv'
<1>1. FactoryType /\ TablesType /\ CachesType /\ HeapType /\ UsersType /\ ThreadsType
  BY DEF IInv, TypeOK
<1>2. Bounds /\ Quiet /\ Calls /\ Serial /\ Missing /\ Fresh /\ Eps /\ Infos
      /\ Allocs /\ RefsExact
  BY DEF IInv
<1>3. UNCHANGED <<phase, untried, driver, reported, device_index, hw_devices_, hwLive,
                 device_memory_infos_, supported, epDevices, device_cache_,
                 allocators_, data_transfer_, hal, allocs, transfers, eps,
                 infos, dev>>
  BY DEF CreateAllocator, MayCall, Begin, NoCall, AllIdle, vars, ctorVars, tableVars, cacheVars, heapVars, userVars, thrVars
<1>4. /\ \A u \in Threads \ {t} : pc'[u] = pc[u] /\ call'[u] = call[u] /\ dev'[u] = dev[u]
      /\ phase = "ready" /\ pc[t] = "idle" /\ pc'[t] = "findAllocator"
      /\ call'[t] = [op |-> "CreateAllocator", id |-> id, hw |-> 0, ep |-> "none", info |-> "none"]
  BY <1>1 DEF ThreadsType, CreateAllocator, MayCall, Begin, NoCall, AllIdle, vars, ctorVars, tableVars, cacheVars, heapVars, userVars, thrVars
<1>5. Warm \/ \A u \in Threads : pc[u] = "idle"
  BY DEF WarmHost, CreateAllocator, MayCall, Begin, NoCall, AllIdle, vars, ctorVars, tableVars, cacheVars, heapVars, userVars, thrVars
<1>6. [op |-> "CreateAllocator", id |-> id, hw |-> 0, ep |-> "none", info |-> "none"] \in Call
  BY <1>2 DEF EpLive, TablesType, UsersType, HwDevice, Rows, Eps, Open, Infos, InfoLive, Bounds, DeviceIds, Call, Ops
<1>7. FactoryType' /\ TablesType' /\ CachesType' /\ HeapType' /\ UsersType' /\
      Bounds' /\ Allocs'
  BY <1>1, <1>2, <1>3 DEF FactoryType, TablesType, CachesType, HeapType, UsersType, Bounds, Allocs, Open
<1>8. ThreadsType'
  BY <1>1, <1>6 DEF CreateAllocator, Begin, NoCall, ThreadsType
<1>9. Quiet'
  BY <1>3, <1>4 DEF Quiet, AllIdle
<1>10. Calls'
  BY <1>2, <1>4 DEF Calls, DeviceSteps, DeviceOps, DeviceIds, Eps, Infos, Open
<1>11. Serial'
  BY <1>3, <1>4, <1>5 DEF Serial, Warm, Rows
<1>12. Missing'
  BY <1>2, <1>3, <1>4 DEF Missing, DeviceSteps
<1>13. Fresh'
  BY <1>2, <1>3, <1>4 DEF Fresh
<1>14. Eps'
  BY <1>2, <1>3, <1>4, SlotsAssumption DEF Eps, Open, EpLive
<1>15. Infos'
  BY <1>2, <1>3, <1>4, SlotsAssumption DEF Infos, Open, EpLive, InfoLive
<1>16. RefsExact'
  <2>1. \A k : LocalRefs(k)' = LocalRefs(k)
    BY <1>3, <1>4 DEF LocalRefs
  <2>2. \A k : CacheRefs(k)' = CacheRefs(k) /\ SessionRefs(k)' = SessionRefs(k)
    BY <1>3 DEF CacheRefs, SessionRefs
  <2>. QED
    BY <1>2, <1>3, <2>1, <2>2 DEF RefsExact, RefsOK
<1>. QED
  BY <1>7, <1>8, <1>9, <1>10, <1>11, <1>12, <1>13, <1>14, <1>15, <1>16 DEF IInv, TypeOK

(* Compile begins on a live EP, whose device is in the cache. *)
LEMMA CompileStep ==
  ASSUME IInv, WarmHost, NEW t \in Threads, NEW s \in EpSlots, NEW n \in InfoSlots, Compile(t, s, n)
  PROVE  IInv'
<1>1. FactoryType /\ TablesType /\ CachesType /\ HeapType /\ UsersType /\ ThreadsType
  BY DEF IInv, TypeOK
<1>2. Bounds /\ Quiet /\ Calls /\ Serial /\ Missing /\ Fresh /\ Eps /\ Infos
      /\ Allocs /\ RefsExact
  BY DEF IInv
<1>3. UNCHANGED <<phase, untried, driver, reported, device_index, hw_devices_, hwLive,
                 device_memory_infos_, supported, epDevices, device_cache_,
                 allocators_, data_transfer_, hal, allocs, transfers, eps,
                 infos, dev>>
  BY DEF Compile, MayCall, Begin, NoCall, AllIdle, vars, ctorVars, tableVars, cacheVars, heapVars, userVars, thrVars
<1>4. /\ \A u \in Threads \ {t} : pc'[u] = pc[u] /\ call'[u] = call[u] /\ dev'[u] = dev[u]
      /\ phase = "ready" /\ pc[t] = "idle" /\ pc'[t] = "find"
      /\ call'[t] = [op |-> "Compile", id |-> eps[s].device_id, hw |-> 0, ep |-> s, info |-> n]
  BY <1>1 DEF ThreadsType, Compile, MayCall, Begin, NoCall, AllIdle, vars, ctorVars, tableVars, cacheVars, heapVars, userVars, thrVars
<1>5. Warm \/ \A u \in Threads : pc[u] = "idle"
  BY DEF WarmHost, Compile, MayCall, Begin, NoCall, AllIdle, vars, ctorVars, tableVars, cacheVars, heapVars, userVars, thrVars
<1>6. EpLive(s) /\ ~InfoLive(n) /\ \A u \in Threads : call[u].info # n
  BY DEF Compile, MayCall, Begin, NoCall, AllIdle, vars, ctorVars, tableVars, cacheVars, heapVars, userVars, thrVars
<1>7. [op |-> "Compile", id |-> eps[s].device_id, hw |-> 0, ep |-> s, info |-> n] \in Call
  BY <1>2, <1>4, <1>6 DEF EpLive, TablesType, UsersType, HwDevice, Rows, Eps, Open, Infos, InfoLive, Bounds, DeviceIds, Call, Ops
<1>8. FactoryType' /\ TablesType' /\ CachesType' /\ HeapType' /\ UsersType' /\
      Bounds' /\ Allocs'
  BY <1>1, <1>2, <1>3 DEF FactoryType, TablesType, CachesType, HeapType, UsersType, Bounds, Allocs, Open
<1>9. ThreadsType'
  BY <1>1, <1>7 DEF Compile, Begin, NoCall, ThreadsType
<1>10. Quiet'
  BY <1>3, <1>4 DEF Quiet, AllIdle
<1>11. Calls'
  BY <1>2, <1>4, <1>6 DEF Calls, DeviceSteps, DeviceOps, DeviceIds, Eps, Infos, Open
<1>12. Serial'
  BY <1>3, <1>4, <1>5 DEF Serial, Warm, Rows
<1>13. Missing'
  BY <1>2, <1>3, <1>4 DEF Missing, DeviceSteps
<1>14. Fresh'
  BY <1>2, <1>3, <1>4 DEF Fresh
<1>15. Eps'
  BY <1>2, <1>3, <1>4, <1>6 DEF Eps, Open, EpLive
<1>16. Infos'
  BY <1>2, <1>3, <1>4, <1>6 DEF Infos, Open, EpLive, InfoLive
<1>17. RefsExact'
  <2>1. \A k : LocalRefs(k)' = LocalRefs(k)
    BY <1>3, <1>4 DEF LocalRefs
  <2>2. \A k : CacheRefs(k)' = CacheRefs(k) /\ SessionRefs(k)' = SessionRefs(k)
    BY <1>3 DEF CacheRefs, SessionRefs
  <2>. QED
    BY <1>2, <1>3, <2>1, <2>2 DEF RefsExact, RefsOK
<1>. QED
  BY <1>8, <1>9, <1>10, <1>11, <1>12, <1>13, <1>14, <1>15, <1>16, <1>17 DEF IInv, TypeOK

(* Compute begins on a live session, whose EP has a device in the cache. *)
LEMMA ComputeStep ==
  ASSUME IInv, WarmHost, NEW t \in Threads, NEW n \in InfoSlots, Compute(t, n)
  PROVE  IInv'
<1>1. FactoryType /\ TablesType /\ CachesType /\ HeapType /\ UsersType /\ ThreadsType
  BY DEF IInv, TypeOK
<1>2. Bounds /\ Quiet /\ Calls /\ Serial /\ Missing /\ Fresh /\ Eps /\ Infos
      /\ Allocs /\ RefsExact
  BY DEF IInv
<1>3. UNCHANGED <<phase, untried, driver, reported, device_index, hw_devices_, hwLive,
                 device_memory_infos_, supported, epDevices, device_cache_,
                 allocators_, data_transfer_, hal, allocs, transfers, eps,
                 infos, dev>>
  BY DEF Compute, MayCall, Begin, NoCall, AllIdle, vars, ctorVars, tableVars, cacheVars, heapVars, userVars, thrVars
<1>4. /\ \A u \in Threads \ {t} : pc'[u] = pc[u] /\ call'[u] = call[u] /\ dev'[u] = dev[u]
      /\ phase = "ready" /\ pc[t] = "idle" /\ pc'[t] = "find"
      /\ call'[t] = [op |-> "Compute", id |-> eps[infos[n].ep].device_id, hw |-> 0, ep |-> "none", info |-> n]
  BY <1>1 DEF ThreadsType, Compute, MayCall, Begin, NoCall, AllIdle, vars, ctorVars, tableVars, cacheVars, heapVars, userVars, thrVars
<1>5. Warm \/ \A u \in Threads : pc[u] = "idle"
  BY DEF WarmHost, Compute, MayCall, Begin, NoCall, AllIdle, vars, ctorVars, tableVars, cacheVars, heapVars, userVars, thrVars
<1>6. InfoLive(n)
  BY DEF Compute, MayCall, Begin, NoCall, AllIdle, vars, ctorVars, tableVars, cacheVars, heapVars, userVars, thrVars
<1>7. [op |-> "Compute", id |-> eps[infos[n].ep].device_id, hw |-> 0, ep |-> "none", info |-> n] \in Call
  BY <1>2, <1>4, <1>6 DEF EpLive, TablesType, UsersType, HwDevice, Rows, Eps, Open, Infos, InfoLive, Bounds, DeviceIds, Call, Ops
<1>8. FactoryType' /\ TablesType' /\ CachesType' /\ HeapType' /\ UsersType' /\
      Bounds' /\ Allocs'
  BY <1>1, <1>2, <1>3 DEF FactoryType, TablesType, CachesType, HeapType, UsersType, Bounds, Allocs, Open
<1>9. ThreadsType'
  BY <1>1, <1>7 DEF Compute, Begin, NoCall, ThreadsType
<1>10. Quiet'
  BY <1>3, <1>4 DEF Quiet, AllIdle
<1>11. Calls'
  BY <1>2, <1>4, <1>6 DEF Calls, DeviceSteps, DeviceOps, DeviceIds, Eps, Infos, Open
<1>12. Serial'
  BY <1>3, <1>4, <1>5 DEF Serial, Warm, Rows
<1>13. Missing'
  BY <1>2, <1>3, <1>4 DEF Missing, DeviceSteps
<1>14. Fresh'
  BY <1>2, <1>3, <1>4 DEF Fresh
<1>15. Eps'
  BY <1>2, <1>3, <1>4, SlotsAssumption DEF Eps, Open, EpLive
<1>16. Infos'
  BY <1>2, <1>3, <1>4, <1>6 DEF Infos, Open, EpLive, InfoLive
<1>17. RefsExact'
  <2>1. \A k : LocalRefs(k)' = LocalRefs(k)
    BY <1>3, <1>4 DEF LocalRefs
  <2>2. \A k : CacheRefs(k)' = CacheRefs(k) /\ SessionRefs(k)' = SessionRefs(k)
    BY <1>3 DEF CacheRefs, SessionRefs
  <2>. QED
    BY <1>2, <1>3, <2>1, <2>2 DEF RefsExact, RefsOK
<1>. QED
  BY <1>8, <1>9, <1>10, <1>11, <1>12, <1>13, <1>14, <1>15, <1>16, <1>17 DEF IInv, TypeOK

(* CopyTensors begins only while the tables are warm or no call runs. *)
LEMMA CopyTensorsStep ==
  ASSUME IInv, WarmHost, NEW t \in Threads, NEW id \in DeviceIds, CopyTensors(t, id)
  PROVE  IInv'
<1>1. FactoryType /\ TablesType /\ CachesType /\ HeapType /\ UsersType /\ ThreadsType
  BY DEF IInv, TypeOK
<1>2. Bounds /\ Quiet /\ Calls /\ Serial /\ Missing /\ Fresh /\ Eps /\ Infos
      /\ Allocs /\ RefsExact
  BY DEF IInv
<1>3. UNCHANGED <<phase, untried, driver, reported, device_index, hw_devices_, hwLive,
                 device_memory_infos_, supported, epDevices, device_cache_,
                 allocators_, data_transfer_, hal, allocs, transfers, eps,
                 infos, dev>>
  BY DEF CopyTensors, MayCall, Begin, NoCall, AllIdle, vars, ctorVars, tableVars, cacheVars, heapVars, userVars, thrVars
<1>4. /\ \A u \in Threads \ {t} : pc'[u] = pc[u] /\ call'[u] = call[u] /\ dev'[u] = dev[u]
      /\ phase = "ready" /\ pc[t] = "idle" /\ pc'[t] = "find"
      /\ call'[t] = [op |-> "CopyTensors", id |-> id, hw |-> 0, ep |-> "none", info |-> "none"]
  BY <1>1 DEF ThreadsType, CopyTensors, MayCall, Begin, NoCall, AllIdle, vars, ctorVars, tableVars, cacheVars, heapVars, userVars, thrVars
<1>5. Warm \/ \A u \in Threads : pc[u] = "idle"
  BY DEF WarmHost, CopyTensors, MayCall, Begin, NoCall, AllIdle, vars, ctorVars, tableVars, cacheVars, heapVars, userVars, thrVars
<1>6. [op |-> "CopyTensors", id |-> id, hw |-> 0, ep |-> "none", info |-> "none"] \in Call
  BY <1>2 DEF EpLive, TablesType, UsersType, HwDevice, Rows, Eps, Open, Infos, InfoLive, Bounds, DeviceIds, Call, Ops
<1>7. FactoryType' /\ TablesType' /\ CachesType' /\ HeapType' /\ UsersType' /\
      Bounds' /\ Allocs'
  BY <1>1, <1>2, <1>3 DEF FactoryType, TablesType, CachesType, HeapType, UsersType, Bounds, Allocs, Open
<1>8. ThreadsType'
  BY <1>1, <1>6 DEF CopyTensors, Begin, NoCall, ThreadsType
<1>9. Quiet'
  BY <1>3, <1>4 DEF Quiet, AllIdle
<1>10. Calls'
  BY <1>2, <1>4 DEF Calls, DeviceSteps, DeviceOps, DeviceIds, Eps, Infos, Open
<1>11. Serial'
  BY <1>3, <1>4, <1>5 DEF Serial, Warm, Rows
<1>12. Missing'
  BY <1>2, <1>3, <1>4 DEF Missing, DeviceSteps
<1>13. Fresh'
  BY <1>2, <1>3, <1>4 DEF Fresh
<1>14. Eps'
  BY <1>2, <1>3, <1>4, SlotsAssumption DEF Eps, Open, EpLive
<1>15. Infos'
  BY <1>2, <1>3, <1>4, SlotsAssumption DEF Infos, Open, EpLive, InfoLive
<1>16. RefsExact'
  <2>1. \A k : LocalRefs(k)' = LocalRefs(k)
    BY <1>3, <1>4 DEF LocalRefs
  <2>2. \A k : CacheRefs(k)' = CacheRefs(k) /\ SessionRefs(k)' = SessionRefs(k)
    BY <1>3 DEF CacheRefs, SessionRefs
  <2>. QED
    BY <1>2, <1>3, <2>1, <2>2 DEF RefsExact, RefsOK
<1>. QED
  BY <1>7, <1>8, <1>9, <1>10, <1>11, <1>12, <1>13, <1>14, <1>15, <1>16 DEF IInv, TypeOK

(* CreateDataTransfer begins only while the tables are warm or no call runs. *)
LEMMA CreateDataTransferStep ==
  ASSUME IInv, WarmHost, NEW t \in Threads, CreateDataTransfer(t)
  PROVE  IInv'
<1>1. FactoryType /\ TablesType /\ CachesType /\ HeapType /\ UsersType /\ ThreadsType
  BY DEF IInv, TypeOK
<1>2. Bounds /\ Quiet /\ Calls /\ Serial /\ Missing /\ Fresh /\ Eps /\ Infos
      /\ Allocs /\ RefsExact
  BY DEF IInv
<1>3. UNCHANGED <<phase, untried, driver, reported, device_index, hw_devices_, hwLive,
                 device_memory_infos_, supported, epDevices, device_cache_,
                 allocators_, data_transfer_, hal, allocs, transfers, eps,
                 infos, dev>>
  BY DEF CreateDataTransfer, MayCall, Begin, NoCall, AllIdle, vars, ctorVars, tableVars, cacheVars, heapVars, userVars, thrVars
<1>4. /\ \A u \in Threads \ {t} : pc'[u] = pc[u] /\ call'[u] = call[u] /\ dev'[u] = dev[u]
      /\ phase = "ready" /\ pc[t] = "idle" /\ pc'[t] = "checkTransfer"
      /\ call'[t] = [op |-> "CreateDataTransfer", id |-> 0, hw |-> 0, ep |-> "none", info |-> "none"]
  BY <1>1 DEF ThreadsType, CreateDataTransfer, MayCall, Begin, NoCall, AllIdle, vars, ctorVars, tableVars, cacheVars, heapVars, userVars, thrVars
<1>5. Warm \/ \A u \in Threads : pc[u] = "idle"
  BY DEF WarmHost, CreateDataTransfer, MayCall, Begin, NoCall, AllIdle, vars, ctorVars, tableVars, cacheVars, heapVars, userVars, thrVars
<1>6. [op |-> "CreateDataTransfer", id |-> 0, hw |-> 0, ep |-> "none", info |-> "none"] \in Call
  BY <1>2 DEF EpLive, TablesType, UsersType, HwDevice, Rows, Eps, Open, Infos, InfoLive, Bounds, DeviceIds, Call, Ops
<1>7. FactoryType' /\ TablesType' /\ CachesType' /\ HeapType' /\ UsersType' /\
      Bounds' /\ Allocs'
  BY <1>1, <1>2, <1>3 DEF FactoryType, TablesType, CachesType, HeapType, UsersType, Bounds, Allocs, Open
<1>8. ThreadsType'
  BY <1>1, <1>6 DEF CreateDataTransfer, Begin, NoCall, ThreadsType
<1>9. Quiet'
  BY <1>3, <1>4 DEF Quiet, AllIdle
<1>10. Calls'
  BY <1>2, <1>4 DEF Calls, DeviceSteps, DeviceOps, DeviceIds, Eps, Infos, Open
<1>11. Serial'
  BY <1>3, <1>4, <1>5 DEF Serial, Warm, Rows
<1>12. Missing'
  BY <1>2, <1>3, <1>4 DEF Missing, DeviceSteps
<1>13. Fresh'
  BY <1>2, <1>3, <1>4 DEF Fresh
<1>14. Eps'
  BY <1>2, <1>3, <1>4, SlotsAssumption DEF Eps, Open, EpLive
<1>15. Infos'
  BY <1>2, <1>3, <1>4, SlotsAssumption DEF Infos, Open, EpLive, InfoLive
<1>16. RefsExact'
  <2>1. \A k : LocalRefs(k)' = LocalRefs(k)
    BY <1>3, <1>4 DEF LocalRefs
  <2>2. \A k : CacheRefs(k)' = CacheRefs(k) /\ SessionRefs(k)' = SessionRefs(k)
    BY <1>3 DEF CacheRefs, SessionRefs
  <2>. QED
    BY <1>2, <1>3, <2>1, <2>2 DEF RefsExact, RefsOK
<1>. QED
  BY <1>7, <1>8, <1>9, <1>10, <1>11, <1>12, <1>13, <1>14, <1>15, <1>16 DEF IInv, TypeOK

(* A caller that goes on to make an allocator found none and a memory info. *)
LEMMA FindAllocatorStep ==
  ASSUME IInv, NEW t \in Threads, FindAllocator(t)
  PROVE  IInv'
<1>1. FactoryType /\ TablesType /\ CachesType /\ HeapType /\ UsersType /\ ThreadsType
  BY DEF IInv, TypeOK
<1>2. Bounds /\ Quiet /\ Calls /\ Serial /\ Missing /\ Fresh /\ Eps /\ Infos
      /\ Allocs /\ RefsExact
  BY DEF IInv
<1>3. UNCHANGED <<phase, untried, driver, reported, device_index, hw_devices_, hwLive,
                 device_memory_infos_, supported, epDevices, device_cache_,
                 allocators_, data_transfer_, hal, allocs, transfers, eps,
                 infos>>
  BY DEF FindAllocator, Return, vars, ctorVars, tableVars, cacheVars, heapVars, userVars, thrVars
<1>4. /\ \A u \in Threads \ {t} : pc'[u] = pc[u] /\ call'[u] = call[u] /\ dev'[u] = dev[u]
      /\ pc[t] = "findAllocator"
      /\ \/ pc'[t] = "idle" /\ call'[t] = NoCall /\ dev'[t] = 0
         \/ /\ pc'[t] = "find" /\ call'[t] = call[t] /\ dev'[t] = dev[t]
            /\ allocators_[call[t].id] = 0
            /\ ~(call[t].id >= Len(device_memory_infos_))
  BY <1>1 DEF ThreadsType, FindAllocator, Return, vars, ctorVars, tableVars, cacheVars, heapVars, userVars, thrVars
<1>5. phase = "ready"
  BY <1>2, <1>4 DEF Quiet, AllIdle
<1>6. FactoryType' /\ TablesType' /\ CachesType' /\ HeapType' /\ UsersType' /\
      Bounds' /\ Allocs'
  BY <1>1, <1>2, <1>3 DEF FactoryType, TablesType, CachesType, HeapType, UsersType, Bounds, Allocs, Open
<1>7. ThreadsType'
  <2>1. NoCall \in Call
    BY DEF NoCall, Call, Ops
  <2>2. /\ pc' = [pc EXCEPT ![t] = pc'[t]]
        /\ call' = [call EXCEPT ![t] = call'[t]]
        /\ dev' = [dev EXCEPT ![t] = dev'[t]]
    BY <1>1 DEF FindAllocator, Return, ThreadsType
  <2>. QED
    BY <1>1, <1>4, <2>1, <2>2 DEF ThreadsType
<1>8. Quiet'
  BY <1>2, <1>3, <1>4 DEF Quiet, AllIdle
<1>9. Calls'
  BY <1>2, <1>4 DEF Calls, DeviceSteps, DeviceOps, DeviceIds, NoCall
<1>10. Serial'
  BY <1>2, <1>3, <1>4 DEF Serial, Warm, Rows
<1>11. Missing'
  <2>1. call[t].id \in Nat /\ Len(device_memory_infos_) \in Nat
    BY <1>1 DEF ThreadsType, TablesType, Call
  <2>. QED
    BY <1>2, <1>3, <1>4, <2>1 DEF Missing, DeviceSteps, NoCall
<1>12. Fresh'
  BY <1>2, <1>3, <1>4 DEF Fresh, NoCall
<1>13. Eps'
  BY <1>2, <1>3, <1>4, SlotsAssumption DEF Eps, Open, EpLive, NoCall
<1>14. Infos'
  BY <1>2, <1>3, <1>4, SlotsAssumption DEF Infos, Open, EpLive, InfoLive, NoCall
<1>15. RefsExact'
  <2>1. \A k : LocalRefs(k)' = LocalRefs(k)
    BY <1>3, <1>4 DEF LocalRefs
  <2>2. \A k : CacheRefs(k)' = CacheRefs(k) /\ SessionRefs(k)' = SessionRefs(k)
    BY <1>3 DEF CacheRefs, SessionRefs
  <2>. QED
    BY <1>2, <1>3, <2>1, <2>2 DEF RefsExact, RefsOK
<1>. QED
  BY <1>6, <1>7, <1>8, <1>9, <1>10, <1>11, <1>12, <1>13, <1>14, <1>15 DEF IInv, TypeOK

(* A caller that goes on to create a device found none; one that uses a
   device uses the cached one. *)
LEMMA FindDeviceStep ==
  ASSUME IInv, NEW t \in Threads, FindDevice(t)
  PROVE  IInv'
<1>1. FactoryType /\ TablesType /\ CachesType /\ HeapType /\ UsersType /\ ThreadsType
  BY DEF IInv, TypeOK
<1>2. Bounds /\ Quiet /\ Calls /\ Serial /\ Missing /\ Fresh /\ Eps /\ Infos
      /\ Allocs /\ RefsExact
  BY DEF IInv
<1>3. UNCHANGED <<phase, untried, driver, reported, device_index, hw_devices_, hwLive,
                 device_memory_infos_, supported, epDevices, device_cache_,
                 allocators_, data_transfer_, hal, allocs, transfers, eps,
                 infos>>
  BY DEF FindDevice, Return, vars, ctorVars, tableVars, cacheVars, heapVars, userVars, thrVars
<1>4. /\ \A u \in Threads \ {t} : pc'[u] = pc[u] /\ call'[u] = call[u] /\ dev'[u] = dev[u]
      /\ pc[t] = "find"
      /\ \/ pc'[t] = "idle" /\ call'[t] = NoCall /\ dev'[t] = 0
         \/ /\ pc'[t] = "use" /\ call'[t] = call[t]
            /\ dev'[t] = device_cache_[call[t].id] /\ dev'[t] # 0
         \/ /\ pc'[t] = "create" /\ call'[t] = call[t] /\ dev'[t] = dev[t]
            /\ device_cache_[call[t].id] = 0
            /\ call[t].id < Len(hw_devices_)
  BY <1>1 DEF ThreadsType, FindDevice, Return, vars, ctorVars, tableVars, cacheVars, heapVars, userVars, thrVars
<1>5. phase = "ready"
  BY <1>2, <1>4 DEF Quiet, AllIdle
<1>6. FactoryType' /\ TablesType' /\ CachesType' /\ HeapType' /\ UsersType' /\
      Bounds' /\ Allocs'
  BY <1>1, <1>2, <1>3 DEF FactoryType, TablesType, CachesType, HeapType, UsersType, Bounds, Allocs, Open
<1>7. ThreadsType'
  <2>1. NoCall \in Call
    BY DEF NoCall, Call, Ops
  <2>3. device_cache_[call[t].id] \in Nat
    BY <1>1, <1>2, <1>4 DEF CachesType, Calls, DeviceSteps
  <2>2. /\ pc' = [pc EXCEPT ![t] = pc'[t]]
        /\ call' = [call EXCEPT ![t] = call'[t]]
        /\ dev' = [dev EXCEPT ![t] = dev'[t]]
    BY <1>1 DEF FindDevice, Return, ThreadsType
  <2>. QED
    BY <1>1, <1>4, <2>1, <2>2, <2>3 DEF ThreadsType
<1>8. Quiet'
  BY <1>2, <1>3, <1>4 DEF Quiet, AllIdle
<1>9. Calls'
  BY <1>2, <1>4 DEF Calls, DeviceSteps, DeviceOps, DeviceIds, NoCall
<1>10. Serial'
  BY <1>2, <1>3, <1>4 DEF Serial, Warm, Rows
<1>11. Missing'
  BY <1>2, <1>3, <1>4 DEF Missing, DeviceSteps, NoCall
<1>12. Fresh'
  BY <1>2, <1>3, <1>4 DEF Fresh, NoCall
<1>13. Eps'
  BY <1>2, <1>3, <1>4, SlotsAssumption DEF Eps, Open, EpLive, NoCall
<1>14. Infos'
  BY <1>2, <1>3, <1>4, SlotsAssumption DEF Infos, Open, EpLive, InfoLive, NoCall
<1>15. RefsExact'
  <2>1. \A k : LocalRefs(k)' = LocalRefs(k)
    BY <1>3, <1>4 DEF LocalRefs
  <2>2. \A k : CacheRefs(k)' = CacheRefs(k) /\ SessionRefs(k)' = SessionRefs(k)
    BY <1>3 DEF CacheRefs, SessionRefs
  <2>. QED
    BY <1>2, <1>3, <2>1, <2>2 DEF RefsExact, RefsOK
<1>. QED
  BY <1>6, <1>7, <1>8, <1>9, <1>10, <1>11, <1>12, <1>13, <1>14, <1>15 DEF IInv, TypeOK

(* A failed creation ends the call and leaves every table as it was. *)
LEMMA HalDeviceFailsStep ==
  ASSUME IInv, NEW t \in Threads, HalDeviceFails(t)
  PROVE  IInv'
<1>1. FactoryType /\ TablesType /\ CachesType /\ HeapType /\ UsersType /\ ThreadsType
  BY DEF IInv, TypeOK
<1>2. Bounds /\ Quiet /\ Calls /\ Serial /\ Missing /\ Fresh /\ Eps /\ Infos
      /\ Allocs /\ RefsExact
  BY DEF IInv
<1>3. UNCHANGED <<phase, untried, driver, reported, device_index, hw_devices_, hwLive,
                 device_memory_infos_, supported, epDevices, device_cache_,
                 allocators_, data_transfer_, hal, allocs, transfers, eps,
                 infos>>
  BY DEF HalDeviceFails, Return, vars, ctorVars, tableVars, cacheVars, heapVars, userVars, thrVars
<1>4. /\ \A u \in Threads \ {t} : pc'[u] = pc[u] /\ call'[u] = call[u] /\ dev'[u] = dev[u]
      /\ pc[t] = "create" /\ pc'[t] = "idle" /\ call'[t] = NoCall /\ dev'[t] = 0
  BY <1>1 DEF ThreadsType, HalDeviceFails, Return, vars, ctorVars, tableVars, cacheVars, heapVars, userVars, thrVars
<1>5. phase = "ready"
  BY <1>2, <1>4 DEF Quiet, AllIdle
<1>6. FactoryType' /\ TablesType' /\ CachesType' /\ HeapType' /\ UsersType' /\
      Bounds' /\ Allocs'
  BY <1>1, <1>2, <1>3 DEF FactoryType, TablesType, CachesType, HeapType, UsersType, Bounds, Allocs, Open
<1>7. ThreadsType'
  <2>1. NoCall \in Call
    BY DEF NoCall, Call, Ops
  <2>2. /\ pc' = [pc EXCEPT ![t] = pc'[t]]
        /\ call' = [call EXCEPT ![t] = call'[t]]
        /\ dev' = [dev EXCEPT ![t] = dev'[t]]
    BY <1>1 DEF HalDeviceFails, Return, ThreadsType
  <2>. QED
    BY <1>1, <1>4, <2>1, <2>2 DEF ThreadsType
<1>8. Quiet'
  BY <1>2, <1>3, <1>4 DEF Quiet, AllIdle
<1>9. Calls'
  BY <1>2, <1>4 DEF Calls, DeviceSteps, DeviceOps, DeviceIds, NoCall
<1>10. Serial'
  BY <1>2, <1>3, <1>4 DEF Serial, Warm, Rows
<1>11. Missing'
  BY <1>2, <1>3, <1>4 DEF Missing, DeviceSteps, NoCall
<1>12. Fresh'
  BY <1>2, <1>3, <1>4 DEF Fresh, NoCall
<1>13. Eps'
  BY <1>2, <1>3, <1>4, SlotsAssumption DEF Eps, Open, EpLive, NoCall
<1>14. Infos'
  BY <1>2, <1>3, <1>4, SlotsAssumption DEF Infos, Open, EpLive, InfoLive, NoCall
<1>15. RefsExact'
  <2>1. \A k : LocalRefs(k)' = LocalRefs(k)
    BY <1>3, <1>4 DEF LocalRefs
  <2>2. \A k : CacheRefs(k)' = CacheRefs(k) /\ SessionRefs(k)' = SessionRefs(k)
    BY <1>3 DEF CacheRefs, SessionRefs
  <2>. QED
    BY <1>2, <1>3, <2>1, <2>2 DEF RefsExact, RefsOK
<1>. QED
  BY <1>6, <1>7, <1>8, <1>9, <1>10, <1>11, <1>12, <1>13, <1>14, <1>15 DEF IInv, TypeOK

(* A call that ends without making anything changes only its own thread. *)
LEMMA FinishUseStep ==
  ASSUME IInv, NEW t \in Threads, FinishUse(t)
  PROVE  IInv'
<1>1. FactoryType /\ TablesType /\ CachesType /\ HeapType /\ UsersType /\ ThreadsType
  BY DEF IInv, TypeOK
<1>2. Bounds /\ Quiet /\ Calls /\ Serial /\ Missing /\ Fresh /\ Eps /\ Infos
      /\ Allocs /\ RefsExact
  BY DEF IInv
<1>3. UNCHANGED <<phase, untried, driver, reported, device_index, hw_devices_, hwLive,
                 device_memory_infos_, supported, epDevices, device_cache_,
                 allocators_, data_transfer_, hal, allocs, transfers, eps,
                 infos>>
  BY DEF FinishUse, Return, vars, ctorVars, tableVars, cacheVars, heapVars, userVars, thrVars
<1>4. /\ \A u \in Threads \ {t} : pc'[u] = pc[u] /\ call'[u] = call[u] /\ dev'[u] = dev[u]
      /\ pc[t] = "use" /\ pc'[t] = "idle" /\ call'[t] = NoCall /\ dev'[t] = 0
  BY <1>1 DEF ThreadsType, FinishUse, Return, vars, ctorVars, tableVars, cacheVars, heapVars, userVars, thrVars
<1>5. phase = "ready"
  BY <1>2, <1>4 DEF Quiet, AllIdle
<1>6. FactoryType' /\ TablesType' /\ CachesType' /\ HeapType' /\ UsersType' /\
      Bounds' /\ Allocs'
  BY <1>1, <1>2, <1>3 DEF FactoryType, TablesType, CachesType, HeapType, UsersType, Bounds, Allocs, Open
<1>7. ThreadsType'
  <2>1. NoCall \in Call
    BY DEF NoCall, Call, Ops
  <2>2. /\ pc' = [pc EXCEPT ![t] = pc'[t]]
        /\ call' = [call EXCEPT ![t] = call'[t]]
        /\ dev' = [dev EXCEPT ![t] = dev'[t]]
    BY <1>1 DEF FinishUse, Return, ThreadsType
  <2>. QED
    BY <1>1, <1>4, <2>1, <2>2 DEF ThreadsType
<1>8. Quiet'
  BY <1>2, <1>3, <1>4 DEF Quiet, AllIdle
<1>9. Calls'
  BY <1>2, <1>4 DEF Calls, DeviceSteps, DeviceOps, DeviceIds, NoCall
<1>10. Serial'
  BY <1>2, <1>3, <1>4 DEF Serial, Warm, Rows
<1>11. Missing'
  BY <1>2, <1>3, <1>4 DEF Missing, DeviceSteps, NoCall
<1>12. Fresh'
  BY <1>2, <1>3, <1>4 DEF Fresh, NoCall
<1>13. Eps'
  BY <1>2, <1>3, <1>4, SlotsAssumption DEF Eps, Open, EpLive, NoCall
<1>14. Infos'
  BY <1>2, <1>3, <1>4, SlotsAssumption DEF Infos, Open, EpLive, InfoLive, NoCall
<1>15. RefsExact'
  <2>1. \A k : LocalRefs(k)' = LocalRefs(k)
    BY <1>3, <1>4 DEF LocalRefs
  <2>2. \A k : CacheRefs(k)' = CacheRefs(k) /\ SessionRefs(k)' = SessionRefs(k)
    BY <1>3 DEF CacheRefs, SessionRefs
  <2>. QED
    BY <1>2, <1>3, <2>1, <2>2 DEF RefsExact, RefsOK
<1>. QED
  BY <1>6, <1>7, <1>8, <1>9, <1>10, <1>11, <1>12, <1>13, <1>14, <1>15 DEF IInv, TypeOK

(* A caller that goes on to make the data transfer found none. *)
LEMMA CheckTransferStep ==
  ASSUME IInv, NEW t \in Threads, CheckTransfer(t)
  PROVE  IInv'
<1>1. FactoryType /\ TablesType /\ CachesType /\ HeapType /\ UsersType /\ ThreadsType
  BY DEF IInv, TypeOK
<1>2. Bounds /\ Quiet /\ Calls /\ Serial /\ Missing /\ Fresh /\ Eps /\ Infos
      /\ Allocs /\ RefsExact
  BY DEF IInv
<1>3. UNCHANGED <<phase, untried, driver, reported, device_index, hw_devices_, hwLive,
                 device_memory_infos_, supported, epDevices, device_cache_,
                 allocators_, data_transfer_, hal, allocs, transfers, eps,
                 infos>>
  BY DEF CheckTransfer, Return, vars, ctorVars, tableVars, cacheVars, heapVars, userVars, thrVars
<1>4. /\ \A u \in Threads \ {t} : pc'[u] = pc[u] /\ call'[u] = call[u] /\ dev'[u] = dev[u]
      /\ pc[t] = "checkTransfer"
      /\ \/ pc'[t] = "idle" /\ call'[t] = NoCall /\ dev'[t] = 0
         \/ /\ pc'[t] = "storeTransfer" /\ call'[t] = call[t] /\ dev'[t] = dev[t]
            /\ data_transfer_ = 0
  BY <1>1 DEF ThreadsType, CheckTransfer, Return, vars, ctorVars, tableVars, cacheVars, heapVars, userVars, thrVars
<1>5. phase = "ready"
  BY <1>2, <1>4 DEF Quiet, AllIdle
<1>6. FactoryType' /\ TablesType' /\ CachesType' /\ HeapType' /\ UsersType' /\
      Bounds' /\ Allocs'
  BY <1>1, <1>2, <1>3 DEF FactoryType, TablesType, CachesType, HeapType, UsersType, Bounds, Allocs, Open
<1>7. ThreadsType'
  <2>1. NoCall \in Call
    BY DEF NoCall, Call, Ops
  <2>2. /\ pc' = [pc EXCEPT ![t] = pc'[t]]
        /\ call' = [call EXCEPT ![t] = call'[t]]
        /\ dev' = [dev EXCEPT ![t] = dev'[t]]
    BY <1>1 DEF CheckTransfer, Return, ThreadsType
  <2>. QED
    BY <1>1, <1>4, <2>1, <2>2 DEF ThreadsType
<1>8. Quiet'
  BY <1>2, <1>3, <1>4 DEF Quiet, AllIdle
<1>9. Calls'
  BY <1>2, <1>4 DEF Calls, DeviceSteps, DeviceOps, DeviceIds, NoCall
<1>10. Serial'
  BY <1>2, <1>3, <1>4 DEF Serial, Warm, Rows
<1>11. Missing'
  BY <1>2, <1>3, <1>4 DEF Missing, DeviceSteps, NoCall
<1>12. Fresh'
  BY <1>2, <1>3, <1>4 DEF Fresh, NoCall
<1>13. Eps'
  BY <1>2, <1>3, <1>4, SlotsAssumption DEF Eps, Open, EpLive, NoCall
<1>14. Infos'
  BY <1>2, <1>3, <1>4, SlotsAssumption DEF Infos, Open, EpLive, InfoLive, NoCall
<1>15. RefsExact'
  <2>1. \A k : LocalRefs(k)' = LocalRefs(k)
    BY <1>3, <1>4 DEF LocalRefs
  <2>2. \A k : CacheRefs(k)' = CacheRefs(k) /\ SessionRefs(k)' = SessionRefs(k)
    BY <1>3 DEF CacheRefs, SessionRefs
  <2>. QED
    BY <1>2, <1>3, <2>1, <2>2 DEF RefsExact, RefsOK
<1>. QED
  BY <1>6, <1>7, <1>8, <1>9, <1>10, <1>11, <1>12, <1>13, <1>14, <1>15 DEF IInv, TypeOK

(* A device just created is in no table; its one reference is the local one. *)
LEMMA CreateHalDeviceStep ==
  ASSUME IInv, NEW t \in Threads, CreateHalDevice(t)
  PROVE  IInv'
<1>1. FactoryType /\ TablesType /\ CachesType /\ HeapType /\ UsersType /\ ThreadsType
  BY DEF IInv, TypeOK
<1>2. Bounds /\ Quiet /\ Calls /\ Serial /\ Missing /\ Fresh /\ Eps /\ Infos
      /\ Allocs /\ RefsExact
  BY DEF IInv
<1>3. UNCHANGED <<phase, untried, driver, reported, device_index, hw_devices_, hwLive,
                 device_memory_infos_, supported, epDevices, device_cache_,
                 allocators_, data_transfer_, allocs, transfers, eps, infos,
                 call>>
  BY DEF CreateHalDevice, vars, ctorVars, tableVars, cacheVars, heapVars, userVars, thrVars
<1>4. /\ \A u \in Threads \ {t} : pc'[u] = pc[u] /\ call'[u] = call[u] /\ dev'[u] = dev[u]
      /\ pc[t] = "create" /\ pc'[t] = "store" /\ dev'[t] = Len(hal) + 1
      /\ hal' = Append(hal, [path |-> hw_devices_[call[t].id + 1].path, refs |-> 1])
  BY <1>1 DEF ThreadsType, CreateHalDevice, vars, ctorVars, tableVars, cacheVars, heapVars, userVars, thrVars
<1>5. phase = "ready"
  BY <1>2, <1>4 DEF Quiet, AllIdle
<1>6. /\ call[t].id \in DeviceIds /\ device_cache_[call[t].id] = 0
      /\ call[t].id + 1 \in 1 .. Len(hw_devices_)
      /\ Len(hal) \in Nat
  BY <1>1, <1>2, <1>4 DEF Calls, Missing, DeviceSteps, DeviceIds, TablesType, HeapType
<1>7. /\ hal' \in Seq(Device) /\ Len(hal') = Len(hal) + 1
      /\ \A k \in 1 .. Len(hal) : hal'[k] = hal[k]
      /\ hal'[Len(hal) + 1].refs = 1
  <2>1. hw_devices_[call[t].id + 1].path \in Path
    <3>1. hw_devices_[call[t].id + 1] \in HwDevice
      BY <1>1, <1>6 DEF TablesType
    <3>. QED
      BY <3>1 DEF HwDevice
  <2> DEFINE d == [path |-> hw_devices_[call[t].id + 1].path, refs |-> 1]
  <2>2. d \in Device
    BY <2>1 DEF Device
  <2>3. d.refs = 1
    OBVIOUS
  <2>4. hal' = Append(hal, d)
    BY <1>4
  <2>. HIDE DEF d
  <2>. QED
    BY <2>2, <2>3, <2>4, <1>1 DEF HeapType
<1>8. \A u \in Threads \ {t} : pc[u] = "idle"
  <2>1. ~Warm
    BY <1>2, <1>4, <1>6, <1>1 DEF Warm, Rows, DeviceIds, TablesType
  <2>. QED
    BY <2>1, <1>2, <1>4 DEF Serial
<1>9. FactoryType' /\ TablesType' /\ CachesType' /\ UsersType' /\ Bounds' /\
      Eps' /\ Allocs'
  BY <1>1, <1>2, <1>3 DEF FactoryType, TablesType, CachesType, UsersType, Bounds, Eps, Open, EpLive, Allocs
<1>10. HeapType'
  BY <1>1, <1>3, <1>7 DEF HeapType
<1>11. ThreadsType'
  BY <1>1, <1>6 DEF CreateHalDevice, ThreadsType
<1>12. Quiet'
  BY <1>2, <1>3, <1>4 DEF Quiet, AllIdle
<1>13. Calls'
  BY <1>2, <1>3, <1>4 DEF Calls, DeviceSteps, DeviceOps, DeviceIds
<1>14. Serial'
  BY <1>2, <1>3, <1>4 DEF Serial, Warm, Rows
<1>15. Missing'
  BY <1>2, <1>3, <1>4 DEF Missing, DeviceSteps
<1>16. Fresh'
  <2>1. \A d \in DeviceIds : device_cache_[d] \in Nat /\ device_cache_[d] <= Len(hal)
    BY <1>1, <1>2 DEF CachesType, Fresh
  <2>2. \A d \in DeviceIds : device_cache_'[d] <= Len(hal') /\ device_cache_'[d] # Len(hal) + 1
    BY <2>1, <1>3, <1>6, <1>7
  <2>3. \A d \in DeviceIds : allocators_'[d] <= Len(allocs')
    BY <1>2, <1>3 DEF Fresh
  <2>4. dev'[t] \in 1 .. Len(hal')
    BY <1>4, <1>6, <1>7
  <2>. QED
    BY <2>2, <2>3, <2>4, <1>4, <1>8 DEF Fresh
<1>17. Infos'
  BY <1>2, <1>3, <1>4 DEF Infos, Open, EpLive, InfoLive
<1>18. RefsExact'
  <2>. DOMAIN hal' = 1 .. Len(hal) + 1 /\ DOMAIN hal = 1 .. Len(hal)
    BY <1>1, <1>6, <1>7 DEF HeapType
  <2>1. \A k : CacheRefs(k)' = CacheRefs(k) /\ SessionRefs(k)' = SessionRefs(k)
    BY <1>3 DEF CacheRefs, SessionRefs
  <2>2. ASSUME NEW k \in DOMAIN hal PROVE LocalRefs(k)' = LocalRefs(k)
    BY <1>4, <1>6 DEF LocalRefs
  <2>3. ASSUME NEW k, k = Len(hal) + 1
        PROVE  CacheRefs(k) = {} /\ SessionRefs(k) = {} /\ LocalRefs(k)' = {t}
    <3>1. CacheRefs(k) = {}
      BY <2>3, <1>1, <1>2, <1>6 DEF CacheRefs, Fresh, CachesType
    <3>2. SessionRefs(k) = {}
      BY <2>3, <1>2, <1>5 DEF SessionRefs, Infos, InfoLive, Open
    <3>3. LocalRefs(k)' = {t}
      BY <2>3, <1>4, <1>6, <1>8 DEF LocalRefs
    <3>. QED
      BY <3>1, <3>2, <3>3
  <2>6. Cardinality({}) = 0 /\ Cardinality({t}) = 1
    BY FS_EmptySet, FS_Singleton
  <2>7. ASSUME NEW k \in DOMAIN hal' PROVE RefsOK(k)'
    <3>1. CASE k = Len(hal) + 1
      <4>1. /\ Cardinality(CacheRefs(k)') = 0
            /\ Cardinality(SessionRefs(k)') = 0
            /\ Cardinality(LocalRefs(k)') = 1
        BY <3>1, <2>1, <2>3, <2>6
      <4>2. hal'[k].refs = 1
        BY <3>1, <1>7
      <4>. QED
        BY <4>1, <4>2 DEF RefsOK
    <3>2. CASE k \in DOMAIN hal
      BY <3>2, <2>1, <2>2, <1>2, <1>7 DEF RefsExact, RefsOK
    <3>. QED
      BY <3>1, <3>2
  <2>. QED
    BY <2>7 DEF RefsExact
<1>. QED
  BY <1>9, <1>10, <1>11, <1>12, <1>13, <1>14, <1>15, <1>16, <1>17, <1>18 DEF IInv, TypeOK

(* The cache takes over the local reference; the writer is alone, for the
   entry it fills was missing. *)
LEMMA StoreDeviceStep ==
  ASSUME IInv, NEW t \in Threads, StoreDevice(t)
  PROVE  IInv'
<1>1. FactoryType /\ TablesType /\ CachesType /\ HeapType /\ UsersType /\ ThreadsType
  BY DEF IInv, TypeOK
<1>2. Bounds /\ Quiet /\ Calls /\ Serial /\ Missing /\ Fresh /\ Eps /\ Infos
      /\ Allocs /\ RefsExact
  BY DEF IInv
<1>3. UNCHANGED <<phase, untried, driver, reported, device_index, hw_devices_, hwLive,
                 device_memory_infos_, supported, epDevices, allocators_,
                 data_transfer_, allocs, transfers, eps, infos, call, dev>>
  BY DEF StoreDevice, ReleaseHal, vars, ctorVars, tableVars, cacheVars, heapVars, userVars, thrVars
<1>4. /\ \A u \in Threads \ {t} : pc'[u] = pc[u] /\ call'[u] = call[u] /\ dev'[u] = dev[u]
      /\ pc[t] = "store" /\ pc'[t] = "use"
  BY <1>1 DEF ThreadsType, StoreDevice, ReleaseHal, vars, ctorVars, tableVars, cacheVars, heapVars, userVars, thrVars
<1>5. phase = "ready"
  BY <1>2, <1>4 DEF Quiet, AllIdle
<1>6. /\ call[t].id \in DeviceIds /\ device_cache_[call[t].id] = 0
      /\ call[t].id + 1 \in 1 .. Len(hw_devices_)
      /\ dev[t] \in DOMAIN hal /\ dev[t] # 0
  BY <1>1, <1>2, <1>4 DEF Calls, Missing, Fresh, DeviceSteps, DeviceIds, TablesType, HeapType
<1>7. /\ hal' = hal
      /\ device_cache_' = [device_cache_ EXCEPT ![call[t].id] = dev[t]]
  BY <1>6 DEF StoreDevice, ReleaseHal, vars, ctorVars, tableVars, cacheVars, heapVars, userVars, thrVars
<1>8. \A u \in Threads \ {t} : pc[u] = "idle"
  <2>1. ~Warm
    BY <1>1, <1>2, <1>4, <1>6 DEF Warm, Rows, DeviceIds, TablesType
  <2>. QED
    BY <2>1, <1>2, <1>4 DEF Serial
<1>9. FactoryType' /\ TablesType' /\ UsersType' /\ Bounds'
  BY <1>1, <1>2, <1>3 DEF FactoryType, TablesType, UsersType, Bounds
<1>10. CachesType'
  BY <1>1, <1>3, <1>6, <1>7 DEF CachesType, ThreadsType
<1>11. HeapType'
  BY <1>1, <1>3, <1>7 DEF HeapType
<1>12. ThreadsType'
  BY <1>1, <1>3 DEF StoreDevice, ThreadsType
<1>13. Quiet'
  BY <1>2, <1>3, <1>4 DEF Quiet, AllIdle
<1>14. Calls'
  BY <1>2, <1>3, <1>4 DEF Calls, DeviceSteps, DeviceOps, DeviceIds
<1>15. Serial'
  BY <1>2, <1>3, <1>4, <1>6, <1>7 DEF Serial, Warm, Rows
<1>16. Missing'
  BY <1>2, <1>3, <1>4, <1>8 DEF Missing, DeviceSteps, CachesType, DeviceSteps
<1>17. Fresh'
  <2>1. \A d \in DeviceIds : device_cache_'[d] <= Len(hal')
    BY <1>2, <1>4, <1>7 DEF CachesType, HeapType, Fresh
  <2>2. \A d \in DeviceIds : allocators_'[d] <= Len(allocs')
    BY <1>2, <1>3 DEF Fresh
  <2>3. dev'[t] = device_cache_'[call'[t].id]
    BY <1>1, <1>3, <1>6, <1>7 DEF CachesType
  <2>. QED
    BY <2>1, <2>2, <2>3, <1>3, <1>4, <1>6, <1>8 DEF Fresh
<1>18. Eps'
  BY <1>2, <1>3, <1>6, <1>7 DEF Eps, Open, EpLive, CachesType
<1>19. Infos'
  BY <1>2, <1>3, <1>6, <1>7 DEF Infos, Open, EpLive, InfoLive, CachesType, Eps
<1>20. Allocs'
  BY <1>2, <1>3, <1>6, <1>7 DEF Allocs, Open, CachesType
<1>21. RefsExact'
  <2>1. ASSUME NEW k \in DOMAIN hal, k # dev[t] PROVE RefsOK(k)'
    <3>1. k # 0 /\ device_cache_ \in [DeviceIds -> Nat]
      BY <1>1 DEF HeapType, CachesType
    <3>2. CacheRefs(k)' = CacheRefs(k)
      BY <3>1, <2>1, <1>6, <1>7 DEF CacheRefs
    <3>3. LocalRefs(k)' = LocalRefs(k)
      BY <2>1, <1>3, <1>4 DEF LocalRefs
    <3>4. SessionRefs(k)' = SessionRefs(k)
      BY <1>3 DEF SessionRefs
    <3>. QED
      BY <3>2, <3>3, <3>4, <1>2, <1>7 DEF RefsExact, RefsOK
  <2>2. ASSUME NEW k \in DOMAIN hal, k = dev[t] PROVE RefsOK(k)'
    <3>1. CacheRefs(k) = {} /\ device_cache_ \in [DeviceIds -> Nat]
      BY <2>2, <1>1, <1>2, <1>4 DEF Fresh, CacheRefs, CachesType
    <3>2. CacheRefs(k)' = {call[t].id}
      BY <3>1, <2>2, <1>6, <1>7 DEF CacheRefs
    <3>3. LocalRefs(k) = {t}
      BY <2>2, <1>4, <1>8 DEF LocalRefs
    <3>4. LocalRefs(k)' = {}
      BY <2>2, <1>4, <1>8 DEF LocalRefs
    <3>5. SessionRefs(k)' = SessionRefs(k)
      BY <1>3 DEF SessionRefs
    <3>6. /\ Cardinality({}) = 0 /\ Cardinality({t}) = 1
          /\ Cardinality({call[t].id}) = 1
      BY FS_EmptySet, FS_Singleton
    <3>7. Cardinality(SessionRefs(k)) \in Nat
      BY FiniteAssumption, FS_Subset, FS_CardinalityType DEF SessionRefs
    <3>8. /\ Cardinality(CacheRefs(k)) = 0 /\ Cardinality(CacheRefs(k)') = 1
          /\ Cardinality(LocalRefs(k)) = 1 /\ Cardinality(LocalRefs(k)') = 0
          /\ Cardinality(SessionRefs(k)') = Cardinality(SessionRefs(k))
      BY <3>1, <3>2, <3>3, <3>4, <3>5, <3>6
    <3>9. RefsOK(k) /\ hal'[k] = hal[k]
      BY <1>2, <1>7 DEF RefsExact
    <3>. QED
      BY <3>7, <3>8, <3>9 DEF RefsOK
  <2>. QED
    BY <2>1, <2>2, <1>7 DEF RefsExact
<1>. QED
  BY <1>9, <1>10, <1>11, <1>12, <1>13, <1>14, <1>15, <1>16, <1>17, <1>18, <1>19, <1>20, <1>21 DEF IInv, TypeOK

(* The new EP is for a device id whose device was just found in the cache. *)
LEMMA FinishCreateEpStep ==
  ASSUME IInv, NEW t \in Threads, FinishCreateEp(t)
  PROVE  IInv'
<1>1. FactoryType /\ TablesType /\ CachesType /\ HeapType /\ UsersType /\ ThreadsType
  BY DEF IInv, TypeOK
<1>2. Bounds /\ Quiet /\ Calls /\ Serial /\ Missing /\ Fresh /\ Eps /\ Infos
      /\ Allocs /\ RefsExact
  BY DEF IInv
<1>3. UNCHANGED <<phase, untried, driver, reported, device_index, hw_devices_, hwLive,
                 device_memory_infos_, supported, epDevices, device_cache_,
                 allocators_, data_transfer_, hal, allocs, transfers, infos>>
  BY DEF FinishCreateEp, Return, vars, ctorVars, tableVars, cacheVars, heapVars, userVars, thrVars
<1>4. /\ \A u \in Threads \ {t} : pc'[u] = pc[u] /\ call'[u] = call[u] /\ dev'[u] = dev[u]
      /\ pc[t] = "use" /\ call[t].op = "CreateEp" /\ pc'[t] = "idle" /\ call'[t] = NoCall /\ dev'[t] = 0
  BY <1>1 DEF ThreadsType, FinishCreateEp, Return, vars, ctorVars, tableVars, cacheVars, heapVars, userVars, thrVars
<1>5. phase = "ready"
  BY <1>2, <1>4 DEF Quiet, AllIdle
<1>6. /\ call[t].ep \in EpSlots /\ ~EpLive(call[t].ep) /\ call[t].id \in DeviceIds
      /\ call[t].hw # 0 /\ call[t].hw \in Nat
      /\ \A u \in Threads : u # t => call[u].ep # call[t].ep
      /\ device_cache_[call[t].id] # 0
  BY <1>1, <1>2, <1>4, <1>5 DEF Eps, Open, Calls, Fresh, DeviceSteps, ThreadsType, Call
<1>7. /\ eps'[call[t].ep] = [hw |-> call[t].hw, device_id |-> call[t].id]
      /\ \A s \in EpSlots : s # call[t].ep => eps'[s] = eps[s]
  BY <1>1, <1>6 DEF UsersType, FinishCreateEp, Return, vars, ctorVars, tableVars, cacheVars, heapVars, userVars, thrVars
<1>8. FactoryType' /\ TablesType' /\ CachesType' /\ HeapType' /\ Bounds' /\
      Allocs'
  BY <1>1, <1>2, <1>3 DEF FactoryType, TablesType, CachesType, HeapType, Bounds, Allocs, Open
<1>9. UsersType'
  BY <1>1, <1>3, <1>6 DEF FinishCreateEp, UsersType, DeviceIds
<1>10. ThreadsType'
  <2>1. NoCall \in Call
    BY DEF NoCall, Call, Ops
  <2>2. /\ pc' = [pc EXCEPT ![t] = pc'[t]]
        /\ call' = [call EXCEPT ![t] = call'[t]]
        /\ dev' = [dev EXCEPT ![t] = dev'[t]]
    BY <1>1 DEF FinishCreateEp, Return, ThreadsType
  <2>. QED
    BY <1>1, <1>4, <2>1, <2>2 DEF ThreadsType
<1>11. Quiet'
  BY <1>2, <1>3, <1>4 DEF Quiet, AllIdle
<1>12. Calls'
  BY <1>2, <1>4 DEF Calls, DeviceSteps, DeviceOps, DeviceIds, NoCall
<1>13. Serial'
  BY <1>2, <1>3, <1>4 DEF Serial, Warm, Rows
<1>14. Missing'
  BY <1>2, <1>3, <1>4 DEF Missing, DeviceSteps, NoCall
<1>15. Fresh'
  BY <1>2, <1>3, <1>4 DEF Fresh, NoCall
<1>16. Eps'
  BY <1>2, <1>3, <1>4, <1>6, <1>7, SlotsAssumption DEF Eps, Open, EpLive, NoCall
<1>17. Infos'
  BY <1>2, <1>3, <1>4, <1>6, <1>7, SlotsAssumption DEF Infos, Open, EpLive, InfoLive, NoCall
<1>18. RefsExact'
  <2>1. \A k : LocalRefs(k)' = LocalRefs(k)
    BY <1>3, <1>4 DEF LocalRefs
  <2>2. \A k : CacheRefs(k)' = CacheRefs(k) /\ SessionRefs(k)' = SessionRefs(k)
    BY <1>3 DEF CacheRefs, SessionRefs
  <2>. QED
    BY <1>2, <1>3, <2>1, <2>2 DEF RefsExact, RefsOK
<1>. QED
  BY <1>8, <1>9, <1>10, <1>11, <1>12, <1>13, <1>14, <1>15, <1>16, <1>17, <1>18 DEF IInv, TypeOK

(* The entry was missing, so no allocator is overwritten. *)
LEMMA FinishCreateAllocatorStep ==
  ASSUME IInv, NEW t \in Threads, FinishCreateAllocator(t)
  PROVE  IInv'
<1>1. FactoryType /\ TablesType /\ CachesType /\ HeapType /\ UsersType /\ ThreadsType
  BY DEF IInv, TypeOK
<1>2. Bounds /\ Quiet /\ Calls /\ Serial /\ Missing /\ Fresh /\ Eps /\ Infos
      /\ Allocs /\ RefsExact
  BY DEF IInv
<1>3. UNCHANGED <<phase, untried, driver, reported, device_index, hw_devices_, hwLive,
                 device_memory_infos_, supported, epDevices, device_cache_,
                 data_transfer_, hal, transfers, eps, infos>>
  BY DEF FinishCreateAllocator, Return, vars, ctorVars, tableVars, cacheVars, heapVars, userVars, thrVars
<1>4. /\ \A u \in Threads \ {t} : pc'[u] = pc[u] /\ call'[u] = call[u] /\ dev'[u] = dev[u]
      /\ pc[t] = "use" /\ call[t].op = "CreateAllocator" /\ pc'[t] = "idle" /\ call'[t] = NoCall /\ dev'[t] = 0
  BY <1>1 DEF ThreadsType, FinishCreateAllocator, Return, vars, ctorVars, tableVars, cacheVars, heapVars, userVars, thrVars
<1>5. phase = "ready"
  BY <1>2, <1>4 DEF Quiet, AllIdle
<1>6. /\ call[t].id \in DeviceIds /\ allocators_[call[t].id] = 0
      /\ call[t].id + 1 \in 1 .. Len(device_memory_infos_)
      /\ dev[t] \in Nat /\ dev[t] # 0 /\ dev[t] = device_cache_[call[t].id]
      /\ Len(allocs) \in Nat
  BY <1>1, <1>2, <1>4 DEF Calls, Missing, Fresh, DeviceSteps, DeviceIds, TablesType, HeapType, ThreadsType
<1>7. /\ allocs' \in Seq(Allocator) /\ Len(allocs') = Len(allocs) + 1
      /\ \A a \in 1 .. Len(allocs) : allocs'[a] = allocs[a]
      /\ allocs'[Len(allocs) + 1].device = dev[t]
      /\ allocs'[Len(allocs) + 1].device_id = call[t].id
      /\ allocators_' = [allocators_ EXCEPT ![call[t].id] = Len(allocs) + 1]
  <2> DEFINE m == [device_id |-> call[t].id, device |-> dev[t],
                   info |-> device_memory_infos_[call[t].id + 1], live |-> TRUE]
  <2>1. m \in Allocator /\ m.device = dev[t] /\ m.device_id = call[t].id
    BY <1>1, <1>6 DEF TablesType, Allocator
  <2>2. [a \in DOMAIN allocs |->
           IF a = 0 THEN [allocs[a] EXCEPT !.live = FALSE] ELSE allocs[a]] = allocs
    BY <1>1 DEF HeapType
  <2>3. allocs' = Append(allocs, m)
    BY <2>2, <1>6 DEF FinishCreateAllocator
  <2>4. allocators_' = [allocators_ EXCEPT ![call[t].id] = Len(allocs) + 1]
    BY DEF FinishCreateAllocator
  <2>. HIDE DEF m
  <2>. QED
    BY <2>1, <2>3, <2>4, <1>1 DEF HeapType
<1>8. \A u \in Threads \ {t} : pc[u] = "idle"
  <2>1. ~Warm
    BY <1>6 DEF Warm, DeviceIds
  <2>. QED
    BY <2>1, <1>2, <1>4 DEF Serial
<1>9. FactoryType' /\ TablesType' /\ UsersType' /\ Bounds'
  BY <1>1, <1>2, <1>3 DEF FactoryType, TablesType, UsersType, Bounds
<1>10. CachesType'
  BY <1>1, <1>3, <1>6, <1>7 DEF CachesType
<1>11. HeapType'
  BY <1>1, <1>3, <1>7 DEF HeapType
<1>12. ThreadsType'
  <2>1. NoCall \in Call
    BY DEF NoCall, Call, Ops
  <2>2. /\ pc' = [pc EXCEPT ![t] = pc'[t]]
        /\ call' = [call EXCEPT ![t] = call'[t]]
        /\ dev' = [dev EXCEPT ![t] = dev'[t]]
    BY <1>1 DEF FinishCreateAllocator, Return, ThreadsType
  <2>. QED
    BY <1>1, <1>4, <2>1, <2>2 DEF ThreadsType
<1>13. Quiet'
  BY <1>2, <1>3, <1>4 DEF Quiet, AllIdle
<1>14. Calls'
  BY <1>2, <1>4 DEF Calls, DeviceSteps, DeviceOps, DeviceIds, NoCall
<1>15. Serial'
  BY <1>2, <1>3, <1>4, <1>7 DEF Serial, Warm, Rows
<1>16. Missing'
  BY <1>4, <1>8 DEF Missing, DeviceSteps, NoCall
<1>17. Fresh'
  <2>1. \A d \in DeviceIds : allocators_'[d] <= Len(allocs')
    BY <1>1, <1>2, <1>6, <1>7 DEF CachesType, Fresh
  <2>. QED
    BY <2>1, <1>2, <1>3, <1>4 DEF Fresh
<1>18. Eps'
  BY <1>1, <1>2, <1>3, <1>4, SlotsAssumption DEF Eps, Open, EpLive, NoCall
<1>19. Infos'
  BY <1>2, <1>3, <1>4, SlotsAssumption, MaxDevicesAssumption DEF Infos, Open, EpLive, InfoLive, NoCall
<1>20. Allocs'
  <2>1. ASSUME NEW a \in DOMAIN allocs', Open
        PROVE  /\ device_cache_[allocs'[a].device_id] # 0
               /\ allocs'[a].device = device_cache_[allocs'[a].device_id]
    <3>1. a \in 1 .. Len(allocs) \/ a = Len(allocs) + 1
      BY <1>6, <1>7
    <3>2. CASE a \in 1 .. Len(allocs)
      BY <2>1, <3>2, <1>2, <1>7 DEF Allocs, HeapType
    <3>3. CASE a = Len(allocs) + 1
      BY <3>3, <1>6, <1>7
    <3>. QED
      BY <3>1, <3>2, <3>3
  <2>. QED
    BY <2>1, <1>3 DEF Allocs, Open
<1>21. RefsExact'
  <2>1. \A k : LocalRefs(k)' = LocalRefs(k)
    BY <1>3, <1>4 DEF LocalRefs
  <2>2. \A k : CacheRefs(k)' = CacheRefs(k) /\ SessionRefs(k)' = SessionRefs(k)
    BY <1>3 DEF CacheRefs, SessionRefs
  <2>. QED
    BY <1>2, <1>3, <2>1, <2>2 DEF RefsExact, RefsOK
<1>. QED
  BY <1>9, <1>10, <1>11, <1>12, <1>13, <1>14, <1>15, <1>16, <1>17, <1>18, <1>19, <1>20, <1>21 DEF IInv, TypeOK

(* The new session adds one reference, to the device of its EP. *)
LEMMA FinishCompileStep ==
  ASSUME IInv, NEW t \in Threads, FinishCompile(t)
  PROVE  IInv'
<1>1. FactoryType /\ TablesType /\ CachesType /\ HeapType /\ UsersType /\ ThreadsType
  BY DEF IInv, TypeOK
<1>2. Bounds /\ Quiet /\ Calls /\ Serial /\ Missing /\ Fresh /\ Eps /\ Infos
      /\ Allocs /\ RefsExact
  BY DEF IInv
<1>3. UNCHANGED <<phase, untried, driver, reported, device_index, hw_devices_, hwLive,
                 device_memory_infos_, supported, epDevices, device_cache_,
                 allocators_, data_transfer_, allocs, transfers, eps>>
  BY DEF FinishCompile, Return, Retain, vars, ctorVars, tableVars, cacheVars, heapVars, userVars, thrVars
<1>4. /\ \A u \in Threads \ {t} : pc'[u] = pc[u] /\ call'[u] = call[u] /\ dev'[u] = dev[u]
      /\ pc[t] = "use" /\ call[t].op = "Compile" /\ pc'[t] = "idle" /\ call'[t] = NoCall /\ dev'[t] = 0
  BY <1>1 DEF ThreadsType, FinishCompile, Return, Retain, vars, ctorVars, tableVars, cacheVars, heapVars, userVars, thrVars
<1>5. phase = "ready"
  BY <1>2, <1>4 DEF Quiet, AllIdle
<1>6. /\ call[t].ep \in EpSlots /\ EpLive(call[t].ep)
      /\ call[t].info \in InfoSlots /\ ~InfoLive(call[t].info)
      /\ dev[t] \in Nat /\ dev[t] # 0
      /\ dev[t] = device_cache_[eps[call[t].ep].device_id]
      /\ dev[t] <= Len(hal)
      /\ \A u \in Threads : u # t => call[u].info # call[t].info
  BY <1>1, <1>2, <1>4, <1>5 DEF Infos, Open, Calls, Fresh, DeviceSteps, ThreadsType
<1>7. /\ dev[t] \in DOMAIN hal /\ infos[call[t].info].device = 0
      /\ infos' = [infos EXCEPT ![call[t].info] = [ep |-> call[t].ep, device |-> dev[t]]]
      /\ hal' = [hal EXCEPT ![dev[t]].refs = @ + 1]
  <2>1. dev[t] \in DOMAIN hal
    BY <1>1, <1>6 DEF HeapType
  <2>2. infos[call[t].info].device = 0
    BY <1>6 DEF InfoLive
  <2>. QED
    BY <2>1, <2>2 DEF FinishCompile, Retain
<1>8. /\ hal' \in Seq(Device) /\ Len(hal') = Len(hal) /\ DOMAIN hal' = DOMAIN hal
      /\ hal'[dev[t]].refs = hal[dev[t]].refs + 1
      /\ \A k \in DOMAIN hal : k # dev[t] => hal'[k] = hal[k]
  <2>1. hal[dev[t]] \in Device
    BY <1>1, <1>7 DEF HeapType
  <2>2. [hal[dev[t]] EXCEPT !.refs = @ + 1] \in Device
    BY <2>1 DEF Device
  <2>3. hal' = [hal EXCEPT ![dev[t]] = [hal[dev[t]] EXCEPT !.refs = @ + 1]]
    BY <1>7
  <2>4. [hal[dev[t]] EXCEPT !.refs = @ + 1].refs = hal[dev[t]].refs + 1
    BY <2>1 DEF Device
  <2>5. DOMAIN hal = 1 .. Len(hal) /\ Len(hal) \in Nat /\ hal \in [1 .. Len(hal) -> Device]
    BY <1>1 DEF HeapType
  <2>6. hal' \in [1 .. Len(hal) -> Device]
    BY <2>2, <2>3, <2>5
  <2>7. hal' \in Seq(Device) /\ Len(hal') = Len(hal) /\ DOMAIN hal' = DOMAIN hal
    BY <2>5, <2>6
  <2>8. \A k \in DOMAIN hal : k # dev[t] => hal'[k] = hal[k]
    BY <2>3
  <2>9. hal'[dev[t]].refs = hal[dev[t]].refs + 1
    BY <2>3, <2>4, <1>7
  <2>. QED
    BY <2>7, <2>8, <2>9
<1>9. \A n \in InfoSlots :
         /\ infos'[n].ep = IF n = call[t].info THEN call[t].ep ELSE infos[n].ep
         /\ infos'[n].device = IF n = call[t].info THEN dev[t] ELSE infos[n].device
  BY <1>1, <1>6, <1>7 DEF UsersType
<1>10. FactoryType' /\ TablesType' /\ CachesType' /\ Bounds' /\ Allocs'
  BY <1>1, <1>2, <1>3 DEF FactoryType, TablesType, CachesType, Bounds, Allocs, Open
<1>11. HeapType'
  BY <1>1, <1>3, <1>8 DEF HeapType
<1>12. UsersType'
  BY <1>1, <1>3, <1>6, <1>7 DEF UsersType
<1>13. ThreadsType'
  <2>1. NoCall \in Call
    BY DEF NoCall, Call, Ops
  <2>2. /\ pc' = [pc EXCEPT ![t] = pc'[t]]
        /\ call' = [call EXCEPT ![t] = call'[t]]
        /\ dev' = [dev EXCEPT ![t] = dev'[t]]
    BY <1>1 DEF FinishCompile, Return, ThreadsType
  <2>. QED
    BY <1>1, <1>4, <2>1, <2>2 DEF ThreadsType
<1>14. Quiet'
  BY <1>2, <1>3, <1>4 DEF Quiet, AllIdle
<1>15. Calls'
  BY <1>2, <1>4 DEF Calls, DeviceSteps, DeviceOps, DeviceIds, NoCall
<1>16. Serial'
  BY <1>1, <1>2, <1>3, <1>4, SlotsAssumption, MaxDevicesAssumption DEF Serial, Warm, Rows
<1>17. Missing'
  BY <1>2, <1>3, <1>4 DEF Missing, DeviceSteps, NoCall
<1>18. Fresh'
  BY <1>2, <1>3, <1>4, <1>8 DEF Fresh, NoCall
<1>19. Eps'
  BY <1>2, <1>3, <1>4, SlotsAssumption DEF Eps, Open, EpLive, NoCall
<1>20. Infos'
  <2>. Open /\ Open'
    BY <1>3, <1>5 DEF Open
  <2>1. ASSUME NEW n \in InfoSlots, InfoLive(n)'
        PROVE  /\ infos'[n].ep \in EpSlots /\ EpLive(infos'[n].ep)
               /\ infos'[n].device \in DOMAIN hal'
               /\ infos'[n].device = device_cache_[eps[infos'[n].ep].device_id]
    <3>1. CASE n = call[t].info
      BY <3>1, <1>6, <1>7, <1>9 DEF EpLive
    <3>2. CASE n # call[t].info
      BY <2>1, <3>2, <1>2, <1>8, <1>9 DEF Infos, InfoLive
    <3>. QED
      BY <3>1, <3>2
  <2>2. \A u \in Threads : call'[u].op = "Compile" =>
           /\ call'[u].ep \in EpSlots /\ call'[u].info \in InfoSlots
           /\ EpLive(call'[u].ep)
           /\ call'[u].id = eps[call'[u].ep].device_id
           /\ infos'[call'[u].info].device = 0
           /\ \A v \in Threads : v # u => call'[v].info # call'[u].info
    BY <1>2, <1>4, <1>9, SlotsAssumption DEF Infos, InfoLive, NoCall
  <2>3. \A u \in Threads : call'[u].op = "Compute" =>
           /\ call'[u].info \in InfoSlots
           /\ infos'[call'[u].info].device # 0
           /\ call'[u].id = eps[infos'[call'[u].info].ep].device_id
    BY <1>2, <1>4, <1>6, <1>9 DEF Infos, InfoLive, NoCall
  <2>. QED
    BY <2>1, <2>2, <2>3, <1>3 DEF Infos, InfoLive, EpLive
<1>21. RefsExact'
  <2>1. \A k : LocalRefs(k)' = LocalRefs(k) /\ CacheRefs(k)' = CacheRefs(k)
    BY <1>3, <1>4 DEF LocalRefs, CacheRefs
  <2>2. ASSUME NEW k \in DOMAIN hal, k # dev[t] PROVE RefsOK(k)'
    <3>1. k # 0
      BY <1>1 DEF HeapType
    <3>2. SessionRefs(k)' = SessionRefs(k)
      <4>1. \A n \in InfoSlots : infos'[n].device = k <=> infos[n].device = k
        BY <2>2, <3>1, <1>7, <1>9
      <4>. QED
        BY <4>1 DEF SessionRefs
    <3>. QED
      BY <2>1, <2>2, <3>2, <1>2, <1>8 DEF RefsExact, RefsOK
  <2>3. ASSUME NEW k \in DOMAIN hal, k = dev[t] PROVE RefsOK(k)'
    <3>1. SessionRefs(k)' = SessionRefs(k) \cup {call[t].info}
      BY <2>3, <1>6, <1>9 DEF SessionRefs
    <3>2. call[t].info \notin SessionRefs(k)
      BY <2>3, <1>6, <1>7 DEF SessionRefs
    <3>3. IsFiniteSet(SessionRefs(k))
      BY FiniteAssumption, FS_Subset DEF SessionRefs
    <3>4. Cardinality(SessionRefs(k)') = Cardinality(SessionRefs(k)) + 1
      BY <3>1, <3>2, <3>3, FS_AddElement
    <3>5. /\ Cardinality(SessionRefs(k)) \in Nat
          /\ Cardinality(CacheRefs(k)) \in Nat
          /\ Cardinality(LocalRefs(k)) \in Nat
      BY FiniteRefs
    <3>6. RefsOK(k) /\ hal'[k].refs = hal[k].refs + 1
      BY <2>3, <1>2, <1>8 DEF RefsExact
    <3>. QED
      BY <2>1, <3>4, <3>5, <3>6 DEF RefsOK
  <2>. QED
    BY <2>2, <2>3, <1>8 DEF RefsExact
<1>. QED
  BY <1>10, <1>11, <1>12, <1>13, <1>14, <1>15, <1>16, <1>17, <1>18, <1>19, <1>20, <1>21 DEF IInv, TypeOK

(* The writer of the data transfer is alone, for it was missing. *)
LEMMA StoreTransferStep ==
  ASSUME IInv, NEW t \in Threads, StoreTransfer(t)
  PROVE  IInv'
<1>1. FactoryType /\ TablesType /\ CachesType /\ HeapType /\ UsersType /\ ThreadsType
  BY DEF IInv, TypeOK
<1>2. Bounds /\ Quiet /\ Calls /\ Serial /\ Missing /\ Fresh /\ Eps /\ Infos
      /\ Allocs /\ RefsExact
  BY DEF IInv
<1>3. UNCHANGED <<phase, untried, driver, reported, device_index, hw_devices_, hwLive,
                 device_memory_infos_, supported, epDevices, device_cache_,
                 allocators_, hal, allocs, eps, infos>>
  BY DEF StoreTransfer, Return, vars, ctorVars, tableVars, cacheVars, heapVars, userVars, thrVars
<1>4. /\ \A u \in Threads \ {t} : pc'[u] = pc[u] /\ call'[u] = call[u] /\ dev'[u] = dev[u]
      /\ pc[t] = "storeTransfer" /\ pc'[t] = "idle" /\ call'[t] = NoCall /\ dev'[t] = 0
  BY <1>1 DEF ThreadsType, StoreTransfer, Return, vars, ctorVars, tableVars, cacheVars, heapVars, userVars, thrVars
<1>5. phase = "ready"
  BY <1>2, <1>4 DEF Quiet, AllIdle
<1>6. /\ data_transfer_ = 0 /\ transfers' = transfers + 1
      /\ data_transfer_' = transfers + 1
  BY <1>2, <1>4 DEF Missing, StoreTransfer, Return, vars, ctorVars, tableVars, cacheVars, heapVars, userVars, thrVars
<1>7. \A u \in Threads \ {t} : pc[u] = "idle"
  <2>1. ~Warm
    BY <1>6 DEF Warm
  <2>. QED
    BY <2>1, <1>2, <1>4 DEF Serial
<1>8. FactoryType' /\ TablesType' /\ UsersType' /\ Bounds' /\ Allocs'
  BY <1>1, <1>2, <1>3 DEF FactoryType, TablesType, UsersType, Bounds, Allocs, Open
<1>9. CachesType'
  BY <1>1, <1>3, <1>6 DEF CachesType, HeapType
<1>10. HeapType'
  BY <1>1, <1>3, <1>6 DEF HeapType, Device, Allocator
<1>11. ThreadsType'
  <2>1. NoCall \in Call
    BY DEF NoCall, Call, Ops
  <2>2. /\ pc' = [pc EXCEPT ![t] = pc'[t]]
        /\ call' = [call EXCEPT ![t] = call'[t]]
        /\ dev' = [dev EXCEPT ![t] = dev'[t]]
    BY <1>1 DEF StoreTransfer, Return, ThreadsType
  <2>. QED
    BY <1>1, <1>4, <2>1, <2>2 DEF ThreadsType
<1>12. Quiet'
  BY <1>2, <1>3, <1>4 DEF Quiet, AllIdle
<1>13. Calls'
  BY <1>2, <1>4 DEF Calls, DeviceSteps, DeviceOps, DeviceIds, NoCall
<1>14. Serial'
  BY <1>2, <1>4, <1>6 DEF Serial, Warm, Rows
<1>15. Missing'
  BY <1>4, <1>7 DEF Missing, DeviceSteps, NoCall
<1>16. Fresh'
  BY <1>2, <1>3, <1>4 DEF Fresh, NoCall
<1>17. Eps'
  BY <1>2, <1>3, <1>4, SlotsAssumption DEF Eps, Open, EpLive, NoCall
<1>18. Infos'
  BY <1>2, <1>3, <1>4, SlotsAssumption DEF Infos, Open, EpLive, InfoLive, NoCall
<1>19. RefsExact'
  <2>1. \A k : LocalRefs(k)' = LocalRefs(k)
    BY <1>3, <1>4 DEF LocalRefs
  <2>2. \A k : CacheRefs(k)' = CacheRefs(k) /\ SessionRefs(k)' = SessionRefs(k)
    BY <1>3 DEF CacheRefs, SessionRefs
  <2>. QED
    BY <1>2, <1>3, <2>1, <2>2 DEF RefsExact, RefsOK
<1>. QED
  BY <1>8, <1>9, <1>10, <1>11, <1>12, <1>13, <1>14, <1>15, <1>16, <1>17, <1>18, <1>19 DEF IInv, TypeOK

(* The session gives its one reference back. *)
LEMMA ReleaseNodeComputeInfoStep ==
  ASSUME IInv, NEW n \in InfoSlots, ReleaseNodeComputeInfo(n)
  PROVE  IInv'
<1>1. FactoryType /\ TablesType /\ CachesType /\ HeapType /\ UsersType /\ ThreadsType
  BY DEF IInv, TypeOK
<1>2. Bounds /\ Quiet /\ Calls /\ Serial /\ Missing /\ Fresh /\ Eps /\ Infos
      /\ Allocs /\ RefsExact
  BY DEF IInv
<1>3. UNCHANGED <<phase, untried, driver, reported, device_index, hw_devices_, hwLive,
                 device_memory_infos_, supported, epDevices, device_cache_,
                 allocators_, data_transfer_, allocs, transfers, eps, pc,
                 call, dev>>
  BY DEF ReleaseNodeComputeInfo, ReleaseHal, vars, ctorVars, tableVars, cacheVars, heapVars, userVars, thrVars
<1>4. /\ phase = "ready" /\ infos[n].device # 0 /\ infos[n].device \in DOMAIN hal
      /\ \A t \in Threads : call[t].info # n
  BY <1>2 DEF Infos, Open, InfoLive, ReleaseNodeComputeInfo, ReleaseHal, vars, ctorVars, tableVars, cacheVars, heapVars, userVars, thrVars
<1>5. /\ infos' = [infos EXCEPT ![n] = NoInfo]
      /\ hal' = [hal EXCEPT ![infos[n].device].refs = @ - 1]
  BY <1>4 DEF ReleaseNodeComputeInfo, ReleaseHal, vars, ctorVars, tableVars, cacheVars, heapVars, userVars, thrVars
<1>6. \A m \in InfoSlots :
        /\ m # n => infos'[m] = infos[m]
        /\ m # n => infos'[m].device = infos[m].device
        /\ m # n => infos'[m].ep = infos[m].ep
        /\ m = n => infos'[m].device = 0
  BY <1>1, <1>5 DEF UsersType, NoInfo
<1>7. \A k : LocalRefs(k)' = LocalRefs(k) /\ CacheRefs(k)' = CacheRefs(k)
  BY <1>3 DEF LocalRefs, CacheRefs
<1>8. /\ hal[infos[n].device].refs \in Nat
      /\ hal[infos[n].device].refs > 0
  <2> DEFINE k == infos[n].device
  <2>1. n \in SessionRefs(k)
    BY DEF SessionRefs
  <2>2. Cardinality(SessionRefs(k)) # 0
    BY <2>1, FiniteRefs, FS_EmptySet
  <2>3. RefsOK(k)
    BY <1>2, <1>4 DEF RefsExact
  <2>4. /\ Cardinality(CacheRefs(k)) \in Nat /\ Cardinality(SessionRefs(k)) \in Nat
        /\ Cardinality(LocalRefs(k)) \in Nat
    BY FiniteRefs
  <2>. QED
    BY <2>2, <2>3, <2>4 DEF RefsOK
<1>9. /\ hal' \in Seq(Device) /\ Len(hal') = Len(hal) /\ DOMAIN hal' = DOMAIN hal
      /\ hal'[infos[n].device].refs = hal[infos[n].device].refs - 1
      /\ \A k \in DOMAIN hal : k # infos[n].device => hal'[k] = hal[k]
  <2> DEFINE k == infos[n].device
  <2>0. k \in DOMAIN hal /\ hal[k] \in Device
    BY <1>1, <1>4 DEF HeapType
  <2> DEFINE d == [hal[k] EXCEPT !.refs = @ - 1]
  <2>1. d \in Device
    BY <2>0, <1>8 DEF Device
  <2>2. d.refs = hal[k].refs - 1
    BY <2>0 DEF Device
  <2>3. hal' = [hal EXCEPT ![k] = d]
    BY <1>5
  <2>4. DOMAIN hal = 1 .. Len(hal) /\ Len(hal) \in Nat /\ hal \in [1 .. Len(hal) -> Device]
    BY <1>1 DEF HeapType
  <2>. HIDE DEF d
  <2>5. hal' \in [1 .. Len(hal) -> Device]
    BY <2>1, <2>3, <2>4
  <2>6. hal' \in Seq(Device) /\ Len(hal') = Len(hal) /\ DOMAIN hal' = DOMAIN hal
    BY <2>4, <2>5
  <2>7. hal'[k] = d /\ \A j \in DOMAIN hal : j # k => hal'[j] = hal[j]
    BY <2>0, <2>3
  <2>. QED
    BY <2>2, <2>6, <2>7
<1>10. FactoryType' /\ TablesType' /\ CachesType' /\ ThreadsType' /\ Bounds' /\
      Quiet' /\ Calls' /\ Serial' /\ Missing' /\ Eps' /\ Allocs'
  BY <1>1, <1>2, <1>3 DEF FactoryType, TablesType, CachesType, ThreadsType, Bounds, Quiet, AllIdle, Calls, Serial, Warm, Rows, Missing, Eps, Open, EpLive, Allocs
<1>11. HeapType'
  BY <1>1, <1>3, <1>9 DEF HeapType
<1>12. UsersType'
  BY <1>1, <1>3, <1>5 DEF UsersType, NoInfo
<1>13. Fresh'
  BY <1>2, <1>3, <1>9 DEF Fresh
<1>14. Infos'
  <2>0. Open
    BY <1>4 DEF Open
  <2>1. \A k \in DOMAIN hal : k \in DOMAIN hal'
    BY <1>9
  <2>2. \A m \in InfoSlots : InfoLive(m)' => m # n /\ InfoLive(m)
    BY <1>6 DEF InfoLive
  <2>3. \A m \in InfoSlots : InfoLive(m)' =>
          /\ infos'[m].ep = infos[m].ep
          /\ infos'[m].device = infos[m].device
    BY <2>2, <1>6
  <2>4. \A m \in InfoSlots : m # n => infos'[m].device = infos[m].device
    BY <1>6
  <2>5. \A s \in EpSlots : EpLive(s)' <=> EpLive(s)
    BY <1>3 DEF EpLive
  <2>6. \A m \in InfoSlots : InfoLive(m) => /\ infos[m].ep \in EpSlots
          /\ EpLive(infos[m].ep)
          /\ infos[m].device \in DOMAIN hal
          /\ infos[m].device = device_cache_[eps[infos[m].ep].device_id]
    BY <1>2, <2>0 DEF Infos
  <2>7. \A m \in InfoSlots : InfoLive(m)' => /\ infos'[m].ep \in EpSlots
          /\ eps'[infos'[m].ep].hw # 0
          /\ infos'[m].device \in DOMAIN hal'
          /\ infos'[m].device = device_cache_'[eps'[infos'[m].ep].device_id]
    BY <2>1, <2>2, <2>3, <2>6, <1>3 DEF EpLive
  <2>8. \A t \in Threads : call[t].op = "Compute" =>
          /\ call[t].info \in InfoSlots
          /\ InfoLive(call[t].info)
          /\ call[t].id = eps[infos[call[t].info].ep].device_id
    BY <1>2, <2>0 DEF Infos
  <2>9. \A t \in Threads : call'[t].op = "Compute" =>
          /\ call'[t].info \in InfoSlots
          /\ infos'[call'[t].info].device # 0
          /\ call'[t].id = eps'[infos'[call'[t].info].ep].device_id
    BY <2>8, <1>3, <1>4, <1>6 DEF InfoLive
  <2>10. \A t \in Threads : call[t].op = "Compile" =>
           /\ call[t].ep \in EpSlots /\ call[t].info \in InfoSlots
           /\ EpLive(call[t].ep)
           /\ call[t].id = eps[call[t].ep].device_id
           /\ ~InfoLive(call[t].info)
           /\ \A u \in Threads : u # t => call[u].info # call[t].info
    BY <1>2, <2>0 DEF Infos
  <2>11. \A t \in Threads : call'[t].op = "Compile" =>
           /\ call'[t].ep \in EpSlots /\ call'[t].info \in InfoSlots
           /\ eps'[call'[t].ep].hw # 0
           /\ call'[t].id = eps'[call'[t].ep].device_id
           /\ infos'[call'[t].info].device = 0
           /\ \A u \in Threads : u # t => call'[u].info # call'[t].info
    BY <2>10, <1>3, <1>6 DEF EpLive, InfoLive
  <2>. QED
    BY <2>7, <2>9, <2>11 DEF Infos, EpLive, InfoLive
<1>15. RefsExact'
  <2>1. ASSUME NEW k \in DOMAIN hal, k # infos[n].device PROVE RefsOK(k)'
    <3>1. k # 0
      BY <1>1 DEF HeapType
    <3>2. \A m \in InfoSlots : infos'[m].device = k <=> infos[m].device = k
      BY <2>1, <3>1, <1>6
    <3>3. SessionRefs(k)' = SessionRefs(k)
      BY <3>2 DEF SessionRefs
    <3>. QED
      BY <2>1, <3>3, <1>2, <1>7, <1>9 DEF RefsExact, RefsOK
  <2>2. ASSUME NEW k \in DOMAIN hal, k = infos[n].device PROVE RefsOK(k)'
    <3>1. \A m \in InfoSlots :
            infos'[m].device = k <=> infos[m].device = k /\ m # n
      BY <2>2, <1>4, <1>6
    <3>2. SessionRefs(k)' = SessionRefs(k) \ {n}
      BY <3>1 DEF SessionRefs
    <3>3. n \in SessionRefs(k)
      BY <2>2 DEF SessionRefs
    <3>4. Cardinality(SessionRefs(k)') = Cardinality(SessionRefs(k)) - 1
      BY <3>2, <3>3, FiniteRefs, FS_RemoveElement
    <3>5. /\ Cardinality(SessionRefs(k)) \in Nat
          /\ Cardinality(CacheRefs(k)) \in Nat
          /\ Cardinality(LocalRefs(k)) \in Nat
      BY FiniteRefs
    <3>6. RefsOK(k) /\ hal'[k].refs = hal[k].refs - 1
      BY <2>2, <1>2, <1>9 DEF RefsExact
    <3>. QED
      BY <1>7, <3>4, <3>5, <3>6 DEF RefsOK
  <2>. QED
    BY <2>1, <2>2, <1>9 DEF RefsExact
<1>. QED
  BY <1>10, <1>11, <1>12, <1>13, <1>14, <1>15 DEF IInv, TypeOK

(* No session is left that could name the EP. *)
LEMMA ReleaseEpStep ==
  ASSUME IInv, NEW s \in EpSlots, ReleaseEp(s)
  PROVE  IInv'
<1>1. FactoryType /\ TablesType /\ CachesType /\ HeapType /\ UsersType /\ ThreadsType
  BY DEF IInv, TypeOK
<1>2. Bounds /\ Quiet /\ Calls /\ Serial /\ Missing /\ Fresh /\ Eps /\ Infos
      /\ Allocs /\ RefsExact
  BY DEF IInv
<1>3. UNCHANGED <<phase, untried, driver, reported, device_index, hw_devices_, hwLive,
                 device_memory_infos_, supported, epDevices, device_cache_,
                 allocators_, data_transfer_, hal, allocs, transfers, infos,
                 pc, call, dev>>
  BY DEF ReleaseEp, vars, ctorVars, tableVars, cacheVars, heapVars, userVars, thrVars
<1>4. /\ \A t \in Threads : call[t].ep # s
      /\ \A n \in InfoSlots : InfoLive(n) => infos[n].ep # s
      /\ eps' = [eps EXCEPT ![s] = NoEp]
  BY DEF ReleaseEp, vars, ctorVars, tableVars, cacheVars, heapVars, userVars, thrVars
<1>5. \A r \in EpSlots : /\ r # s => eps'[r] = eps[r]
                        /\ r = s => eps'[r] = NoEp
  BY <1>1, <1>4 DEF UsersType
<1>6. FactoryType' /\ TablesType' /\ CachesType' /\ HeapType' /\ ThreadsType'
      /\ Bounds' /\ Quiet' /\ Calls' /\ Serial' /\ Missing' /\ Fresh' /\
      Allocs'
  BY <1>1, <1>2, <1>3 DEF FactoryType, TablesType, CachesType, HeapType, ThreadsType, Bounds, Quiet, AllIdle, Calls, Serial, Warm, Rows, Missing, Fresh, Allocs, Open
<1>7. RefsExact'
  <2>1. \A k : /\ CacheRefs(k)' = CacheRefs(k)
                /\ SessionRefs(k)' = SessionRefs(k)
                /\ LocalRefs(k)' = LocalRefs(k)
    BY <1>3 DEF CacheRefs, SessionRefs, LocalRefs
  <2>. QED
    BY <1>2, <1>3, <2>1 DEF RefsExact, RefsOK
<1>8. UsersType'
  BY <1>1, <1>3, <1>4 DEF UsersType, NoEp
<1>9. Eps'
  BY <1>2, <1>3, <1>4, <1>5 DEF Eps, Open, EpLive, NoEp
<1>10. Infos'
  BY <1>2, <1>3, <1>4, <1>5 DEF Infos, Open, EpLive, InfoLive, NoEp
<1>. QED
  BY <1>6, <1>7, <1>8, <1>9, <1>10 DEF IInv, TypeOK

(* The destructor starts when no call runs and no user is left. *)
LEMMA ReleaseEpFactoryStep ==
  ASSUME IInv, ReleaseEpFactory
  PROVE  IInv'
<1>1. FactoryType /\ TablesType /\ CachesType /\ HeapType /\ UsersType /\ ThreadsType
  BY DEF IInv, TypeOK
<1>2. Bounds /\ Quiet /\ Calls /\ Serial /\ Missing /\ Fresh /\ Eps /\ Infos
      /\ Allocs /\ RefsExact
  BY DEF IInv
<1>3. UNCHANGED <<untried, driver, reported, device_index, hw_devices_, hwLive,
                 device_memory_infos_, supported, epDevices, device_cache_,
                 allocators_, data_transfer_, hal, allocs, transfers, eps,
                 infos, pc, call, dev>>
  BY DEF ReleaseEpFactory, vars, ctorVars, tableVars, cacheVars, heapVars, userVars, thrVars
<1>4. phase = "ready" /\ phase' = "clearAllocators" /\ AllIdle
  BY DEF ReleaseEpFactory, vars, ctorVars, tableVars, cacheVars, heapVars, userVars, thrVars
<1>5. TablesType' /\ CachesType' /\ HeapType' /\ UsersType' /\ ThreadsType' /\
      Calls' /\ Serial' /\ Missing' /\ Fresh'
  BY <1>1, <1>2, <1>3 DEF TablesType, CachesType, HeapType, UsersType, ThreadsType, Calls, Serial, Warm, Rows, Missing, Fresh
<1>6. RefsExact'
  <2>1. \A k : /\ CacheRefs(k)' = CacheRefs(k)
                /\ SessionRefs(k)' = SessionRefs(k)
                /\ LocalRefs(k)' = LocalRefs(k)
    BY <1>3 DEF CacheRefs, SessionRefs, LocalRefs
  <2>. QED
    BY <1>2, <1>3, <2>1 DEF RefsExact, RefsOK
<1>7. FactoryType'
  BY <1>1, <1>3, <1>4 DEF FactoryType
<1>8. Bounds'
  BY <1>2, <1>3, <1>4 DEF Bounds
<1>9. Quiet'
  BY <1>3, <1>4 DEF Quiet, AllIdle
<1>10. Eps'
  BY <1>4 DEF Eps, Open, EpLive
<1>11. Infos'
  BY <1>4 DEF Infos, Open, EpLive, InfoLive
<1>12. Allocs'
  BY <1>4 DEF Allocs, Open
<1>. QED
  BY <1>5, <1>6, <1>7, <1>8, <1>9, <1>10, <1>11, <1>12 DEF IInv, TypeOK

(* Clearing the allocators leaves the devices they point to alone. *)
LEMMA ClearAllocatorsStep ==
  ASSUME IInv, ClearAllocators
  PROVE  IInv'
<1>1. FactoryType /\ TablesType /\ CachesType /\ HeapType /\ UsersType /\ ThreadsType
  BY DEF IInv, TypeOK
<1>2. Bounds /\ Quiet /\ Calls /\ Serial /\ Missing /\ Fresh /\ Eps /\ Infos
      /\ Allocs /\ RefsExact
  BY DEF IInv
<1>3. UNCHANGED <<untried, driver, reported, device_index, hw_devices_, hwLive,
                 device_memory_infos_, supported, epDevices, device_cache_,
                 data_transfer_, hal, transfers, eps, infos, pc, call, dev>>
  BY DEF ClearAllocators, vars, ctorVars, tableVars, cacheVars, heapVars, userVars, thrVars
<1>4. phase = "clearAllocators" /\ phase' = "resetTransfer"
  BY DEF ClearAllocators, vars, ctorVars, tableVars, cacheVars, heapVars, userVars, thrVars
<1>5. AllIdle
  BY <1>2, <1>4 DEF Quiet
<1>6. /\ allocators_' = [d \in DeviceIds |-> 0]
      /\ allocs' = [a \in DOMAIN allocs |->
           IF \E d \in DeviceIds : allocators_[d] = a
           THEN [allocs[a] EXCEPT !.live = FALSE] ELSE allocs[a]]
  BY DEF ClearAllocators, vars, ctorVars, tableVars, cacheVars, heapVars, userVars, thrVars
<1>7. /\ allocs' \in Seq(Allocator) /\ Len(allocs') = Len(allocs) /\ Len(allocs) \in Nat
  <2>1. /\ DOMAIN allocs = 1 .. Len(allocs) /\ Len(allocs) \in Nat
        /\ \A a \in DOMAIN allocs : allocs[a] \in Allocator
    BY <1>1 DEF HeapType
  <2>2. \A a \in DOMAIN allocs : [allocs[a] EXCEPT !.live = FALSE] \in Allocator
    BY <2>1 DEF Allocator
  <2>3. allocs' \in [1 .. Len(allocs) -> Allocator]
    BY <2>1, <2>2, <1>6
  <2>. QED
    BY <2>1, <2>3
<1>8. TablesType' /\ UsersType' /\ ThreadsType' /\ Calls'
  BY <1>1, <1>2, <1>3 DEF TablesType, UsersType, ThreadsType, Calls
<1>9. RefsExact'
  <2>1. \A k : /\ CacheRefs(k)' = CacheRefs(k)
                /\ SessionRefs(k)' = SessionRefs(k)
                /\ LocalRefs(k)' = LocalRefs(k)
    BY <1>3 DEF CacheRefs, SessionRefs, LocalRefs
  <2>. QED
    BY <1>2, <1>3, <2>1 DEF RefsExact, RefsOK
<1>10. FactoryType'
  BY <1>1, <1>3, <1>4 DEF FactoryType
<1>11. CachesType'
  BY <1>1, <1>3, <1>6 DEF CachesType
<1>12. HeapType'
  BY <1>1, <1>3, <1>7 DEF HeapType
<1>13. Bounds'
  BY <1>2, <1>3, <1>4 DEF Bounds
<1>14. Quiet'
  BY <1>3, <1>5 DEF Quiet, AllIdle
<1>15. Serial'
  BY <1>3, <1>5 DEF Serial, AllIdle
<1>16. Missing'
  BY <1>3, <1>5 DEF Missing, AllIdle, DeviceSteps
<1>17. Fresh'
  BY <1>2, <1>3, <1>6 DEF Fresh, AllIdle
<1>18. Eps'
  BY <1>4 DEF Eps, Open
<1>19. Infos'
  BY <1>4 DEF Infos, Open
<1>20. Allocs'
  BY <1>4 DEF Allocs, Open
<1>. QED
  BY <1>8, <1>9, <1>10, <1>11, <1>12, <1>13, <1>14, <1>15, <1>16, <1>17, <1>18, <1>19, <1>20 DEF IInv, TypeOK

(* Resetting the data transfer leaves the devices alone. *)
LEMMA ResetTransferStep ==
  ASSUME IInv, ResetTransfer
  PROVE  IInv'
<1>1. FactoryType /\ TablesType /\ CachesType /\ HeapType /\ UsersType /\ ThreadsType
  BY DEF IInv, TypeOK
<1>2. Bounds /\ Quiet /\ Calls /\ Serial /\ Missing /\ Fresh /\ Eps /\ Infos
      /\ Allocs /\ RefsExact
  BY DEF IInv
<1>3. UNCHANGED <<untried, driver, reported, device_index, hw_devices_, hwLive,
                 device_memory_infos_, supported, epDevices, device_cache_,
                 allocators_, hal, allocs, transfers, eps, infos, pc, call,
                 dev>>
  BY DEF ResetTransfer, vars, ctorVars, tableVars, cacheVars, heapVars, userVars, thrVars
<1>4. phase = "resetTransfer" /\ phase' = "clearDevices" /\ data_transfer_' = 0
  BY DEF ResetTransfer, vars, ctorVars, tableVars, cacheVars, heapVars, userVars, thrVars
<1>5. AllIdle
  BY <1>2, <1>4 DEF Quiet
<1>6. TablesType' /\ HeapType' /\ UsersType' /\ ThreadsType' /\ Calls' /\
      Fresh'
  BY <1>1, <1>2, <1>3 DEF TablesType, HeapType, UsersType, ThreadsType, Calls, Fresh
<1>7. RefsExact'
  <2>1. \A k : /\ CacheRefs(k)' = CacheRefs(k)
                /\ SessionRefs(k)' = SessionRefs(k)
                /\ LocalRefs(k)' = LocalRefs(k)
    BY <1>3 DEF CacheRefs, SessionRefs, LocalRefs
  <2>. QED
    BY <1>2, <1>3, <2>1 DEF RefsExact, RefsOK
<1>8. FactoryType'
  BY <1>1, <1>3, <1>4 DEF FactoryType
<1>9. CachesType'
  BY <1>1, <1>3, <1>4 DEF CachesType, DeviceIds
<1>10. Bounds'
  BY <1>2, <1>3, <1>4 DEF Bounds
<1>11. Quiet'
  BY <1>3, <1>5 DEF Quiet, AllIdle
<1>12. Serial'
  BY <1>3, <1>5 DEF Serial, AllIdle
<1>13. Missing'
  BY <1>3, <1>5 DEF Missing, AllIdle, DeviceSteps
<1>14. Eps'
  BY <1>4 DEF Eps, Open
<1>15. Infos'
  BY <1>4 DEF Infos, Open
<1>16. Allocs'
  BY <1>4 DEF Allocs, Open
<1>. QED
  BY <1>6, <1>7, <1>8, <1>9, <1>10, <1>11, <1>12, <1>13, <1>14, <1>15, <1>16 DEF IInv, TypeOK

(* Each device loses as many references as the cache has entries for it. *)
LEMMA ClearDevicesStep ==
  ASSUME IInv, ClearDevices
  PROVE  IInv'
<1>1. FactoryType /\ TablesType /\ CachesType /\ HeapType /\ UsersType /\ ThreadsType
  BY DEF IInv, TypeOK
<1>2. Bounds /\ Quiet /\ Calls /\ Serial /\ Missing /\ Fresh /\ Eps /\ Infos
      /\ Allocs /\ RefsExact
  BY DEF IInv
<1>3. UNCHANGED <<untried, driver, reported, device_index, hw_devices_, hwLive,
                 device_memory_infos_, supported, epDevices, allocators_,
                 data_transfer_, allocs, transfers, eps, infos, pc, call,
                 dev>>
  BY DEF ClearDevices, vars, ctorVars, tableVars, cacheVars, heapVars, userVars, thrVars
<1>4. phase = "clearDevices" /\ phase' = "releaseHw"
  BY DEF ClearDevices, vars, ctorVars, tableVars, cacheVars, heapVars, userVars, thrVars
<1>5. AllIdle
  BY <1>2, <1>4 DEF Quiet
<1>6. /\ device_cache_' = [d \in DeviceIds |-> 0]
      /\ hal' = [k \in DOMAIN hal |->
           [hal[k] EXCEPT !.refs = @ - Cardinality(CacheRefs(k))]]
  BY DEF CacheRefs, ClearDevices, vars, ctorVars, tableVars, cacheVars, heapVars, userVars, thrVars
<1>7. /\ DOMAIN hal = 1 .. Len(hal) /\ Len(hal) \in Nat
      /\ \A k \in DOMAIN hal : /\ hal[k] \in Device /\ hal[k].path \in Path
                              /\ hal[k].refs \in Nat
  <2>1. /\ DOMAIN hal = 1 .. Len(hal) /\ Len(hal) \in Nat
        /\ \A k \in DOMAIN hal : hal[k] \in Device
    BY <1>1 DEF HeapType
  <2>. QED
    BY <2>1 DEF Device
<1>8. \A k \in DOMAIN hal : hal[k].refs - Cardinality(CacheRefs(k))
                          = Cardinality(SessionRefs(k)) + Cardinality(LocalRefs(k))
  BY <1>2, <1>7, FiniteRefs DEF RefsExact, RefsOK
<1>9. /\ hal' \in Seq(Device) /\ Len(hal') = Len(hal) /\ DOMAIN hal' = DOMAIN hal
      /\ \A k \in DOMAIN hal :
           hal'[k].refs = Cardinality(SessionRefs(k)) + Cardinality(LocalRefs(k))
  <2>1. \A k \in DOMAIN hal : Cardinality(SessionRefs(k)) + Cardinality(LocalRefs(k)) \in Nat
    BY FiniteRefs
  <2>2. \A k \in DOMAIN hal :
          [hal[k] EXCEPT !.refs = @ - Cardinality(CacheRefs(k))]
            = [path |-> hal[k].path,
               refs |-> Cardinality(SessionRefs(k)) + Cardinality(LocalRefs(k))]
    BY <1>7, <1>8 DEF Device
  <2>3. \A k \in DOMAIN hal :
          hal'[k] = [path |-> hal[k].path,
                     refs |-> Cardinality(SessionRefs(k)) + Cardinality(LocalRefs(k))]
    BY <2>2, <1>6
  <2>4. \A k \in DOMAIN hal : hal'[k] \in Device
    <3>1. \A k \in DOMAIN hal : hal[k].path \in Path
      BY <1>7
    <3>2. \A p \in Path, r \in Nat : [path |-> p, refs |-> r] \in Device
      BY DEF Device
    <3>. QED
      BY <2>1, <2>3, <3>1, <3>2
  <2>5. hal' \in [1 .. Len(hal) -> Device]
    BY <2>4, <1>6, <1>7
  <2>6. hal' \in Seq(Device) /\ Len(hal') = Len(hal) /\ DOMAIN hal' = DOMAIN hal
    BY <2>5, <1>7
  <2>. QED
    BY <2>3, <2>6
<1>10. TablesType' /\ UsersType' /\ ThreadsType' /\ Calls'
  BY <1>1, <1>2, <1>3 DEF TablesType, UsersType, ThreadsType, Calls
<1>11. FactoryType'
  BY <1>1, <1>3, <1>4 DEF FactoryType
<1>12. CachesType'
  BY <1>1, <1>3, <1>6 DEF CachesType
<1>13. HeapType'
  BY <1>1, <1>3, <1>9 DEF HeapType
<1>14. Bounds'
  BY <1>2, <1>3, <1>4 DEF Bounds
<1>15. Quiet'
  BY <1>3, <1>5 DEF Quiet, AllIdle
<1>16. Serial'
  BY <1>3, <1>5 DEF Serial, AllIdle
<1>17. Missing'
  BY <1>3, <1>5 DEF Missing, AllIdle, DeviceSteps
<1>18. Fresh'
  BY <1>2, <1>3, <1>5, <1>6 DEF Fresh, AllIdle
<1>19. Eps'
  BY <1>4 DEF Eps, Open
<1>20. Infos'
  BY <1>4 DEF Infos, Open
<1>21. Allocs'
  BY <1>4 DEF Allocs, Open
<1>22. RefsExact'
  <2>1. \A k : SessionRefs(k)' = SessionRefs(k) /\ LocalRefs(k)' = LocalRefs(k)
    BY <1>3 DEF SessionRefs, LocalRefs
  <2>2. ASSUME NEW k \in DOMAIN hal PROVE CacheRefs(k)' = {}
    <3>1. k # 0
      BY <1>7
    <3>. QED
      BY <3>1, <1>6 DEF CacheRefs
  <2>3. ASSUME NEW k \in DOMAIN hal PROVE RefsOK(k)'
    <3>1. Cardinality(CacheRefs(k)') = 0
      BY <2>2, FS_EmptySet
    <3>2. Cardinality(SessionRefs(k)) \in Nat /\ Cardinality(LocalRefs(k)) \in Nat
      BY FiniteRefs
    <3>. QED
      BY <2>1, <3>1, <3>2, <1>9 DEF RefsOK
  <2>. QED
    BY <2>3, <1>9 DEF RefsExact
<1>. QED
  BY <1>10, <1>11, <1>12, <1>13, <1>14, <1>15, <1>16, <1>17, <1>18, <1>19, <1>20, <1>21, <1>22 DEF IInv, TypeOK

(* Releasing the hardware devices is the last thing the destructor does. *)
LEMMA ReleaseHwDevicesStep ==
  ASSUME IInv, ReleaseHwDevices
  PROVE  IInv'
<1>1. FactoryType /\ TablesType /\ CachesType /\ HeapType /\ UsersType /\ ThreadsType
  BY DEF IInv, TypeOK
<1>2. Bounds /\ Quiet /\ Calls /\ Serial /\ Missing /\ Fresh /\ Eps /\ Infos
      /\ Allocs /\ RefsExact
  BY DEF IInv
<1>3. UNCHANGED <<untried, driver, reported, device_index, hw_devices_, device_memory_infos_,
                 supported, epDevices, device_cache_, allocators_,
                 data_transfer_, hal, allocs, transfers, eps, infos, pc,
                 call, dev>>
  BY DEF ReleaseHwDevices, vars, ctorVars, tableVars, cacheVars, heapVars, userVars, thrVars
<1>4. phase = "releaseHw" /\ phase' = "gone" /\ hwLive' = hwLive \ Rows
  BY DEF ReleaseHwDevices, vars, ctorVars, tableVars, cacheVars, heapVars, userVars, thrVars
<1>5. CachesType' /\ HeapType' /\ UsersType' /\ ThreadsType' /\ Calls' /\
      Serial' /\ Missing' /\ Fresh'
  BY <1>1, <1>2, <1>3 DEF CachesType, HeapType, UsersType, ThreadsType, Calls, Serial, Warm, Rows, Missing, Fresh
<1>6. RefsExact'
  <2>1. \A k : /\ CacheRefs(k)' = CacheRefs(k)
                /\ SessionRefs(k)' = SessionRefs(k)
                /\ LocalRefs(k)' = LocalRefs(k)
    BY <1>3 DEF CacheRefs, SessionRefs, LocalRefs
  <2>. QED
    BY <1>2, <1>3, <2>1 DEF RefsExact, RefsOK
<1>7. FactoryType'
  BY <1>1, <1>3, <1>4 DEF FactoryType
<1>8. TablesType'
  BY <1>1, <1>3, <1>4 DEF TablesType, HwDevice, DeviceIds
<1>9. Bounds'
  BY <1>2, <1>3, <1>4 DEF Bounds
<1>10. Quiet'
  BY <1>2, <1>3, <1>4 DEF Quiet, AllIdle
<1>11. Eps'
  BY <1>4 DEF Eps, Open
<1>12. Infos'
  BY <1>4 DEF Infos, Open
<1>13. Allocs'
  BY <1>4 DEF Allocs, Open
<1>. QED
  BY <1>5, <1>6, <1>7, <1>8, <1>9, <1>10, <1>11, <1>12, <1>13 DEF IInv, TypeOK

-------------------------------------------------------------------------------
(* The constructor starts in a state of the inductive invariant.             *)
LEMMA InitIInv ==
  ASSUME Init
  PROVE  IInv
<1>1. NoCall \in Call
  BY DEF NoCall, Call, Ops
<1>2. TypeOK
  BY <1>1, MaxDevicesAssumption DEF Init, TypeOK, FactoryType, TablesType,
     CachesType, HeapType, UsersType, ThreadsType, NoEp, NoInfo
<1>3. Bounds /\ Quiet /\ Calls /\ Serial /\ Missing /\ Fresh
  BY MaxDevicesAssumption DEF Init, Bounds, Quiet, AllIdle, Calls, Serial,
     Missing, Fresh, DeviceSteps
<1>4. \A s \in EpSlots : ~EpLive(s)
  BY DEF Init, EpLive, NoEp
<1>5. \A n \in InfoSlots : ~InfoLive(n)
  BY DEF Init, InfoLive, NoInfo
<1>6. \A t \in Threads : call[t].op = "none"
  BY DEF Init, NoCall
<1>7. Eps /\ Infos
  BY <1>4, <1>5, <1>6 DEF Eps, Infos
<1>8. Allocs /\ RefsExact
  BY DEF Init, Allocs, RefsExact
<1>. QED
  BY <1>2, <1>3, <1>7, <1>8 DEF IInv

(* A stuttering step keeps it. *)
LEMMA StutterStep ==
  ASSUME IInv, UNCHANGED vars
  PROVE  IInv'
<1>1. UNCHANGED <<phase, untried, driver, reported, device_index, hw_devices_,
                  hwLive, device_memory_infos_, supported, epDevices,
                  device_cache_, allocators_, data_transfer_, hal, allocs,
                  transfers, eps, infos, pc, call, dev>>
  BY DEF vars, ctorVars, tableVars, cacheVars, heapVars, userVars, thrVars
<1>2. TypeOK'
  BY <1>1 DEF IInv, TypeOK, FactoryType, TablesType, CachesType, HeapType,
     UsersType, ThreadsType
<1>3. Bounds' /\ Quiet' /\ Calls' /\ Serial' /\ Missing' /\ Fresh'
  BY <1>1 DEF IInv, Bounds, Quiet, AllIdle, Calls, Serial, Warm, Rows,
     Missing, Fresh
<1>4. Eps' /\ Infos' /\ Allocs'
  BY <1>1 DEF IInv, Eps, Infos, Allocs, Open, EpLive, InfoLive
<1>5. \A k : /\ CacheRefs(k)' = CacheRefs(k)
             /\ SessionRefs(k)' = SessionRefs(k)
             /\ LocalRefs(k)' = LocalRefs(k)
  BY <1>1 DEF CacheRefs, SessionRefs, LocalRefs
<1>6. RefsExact'
  BY <1>1, <1>5 DEF IInv, RefsExact, RefsOK
<1>. QED
  BY <1>2, <1>3, <1>4, <1>6 DEF IInv

(* Every step of a warm host's factory keeps the inductive invariant. *)
LEMMA NextIInv ==
  ASSUME IInv, WarmHost, [Next]_vars
  PROVE  IInv'
<1>1. ASSUME Construct PROVE IInv'
  BY <1>1, EnumerateDriverStep, RegisterHwDeviceStep, FinishConstructionStep
  DEF Construct
<1>2. ASSUME NEW max \in 0 .. MaxDevices, NEW n \in 0 .. MaxDevices,
             GetSupportedDevices(max, n)
      PROVE  IInv'
  BY <1>2, GetSupportedDevicesStep
<1>3. ASSUME NEW t \in Threads, Start(t) PROVE IInv'
  <2>1. CASE \E i \in Rows, s \in EpSlots : CreateEp(t, i, s)
    BY <2>1, CreateEpStep
  <2>2. CASE \E id \in DeviceIds : CreateAllocator(t, id)
    BY <2>2, CreateAllocatorStep
  <2>3. CASE \E s \in EpSlots, n \in InfoSlots : Compile(t, s, n)
    BY <2>3, CompileStep
  <2>4. CASE \E n \in InfoSlots : Compute(t, n)
    BY <2>4, ComputeStep
  <2>5. CASE \E id \in DeviceIds : CopyTensors(t, id)
    BY <2>5, CopyTensorsStep
  <2>6. CASE CreateDataTransfer(t)
    BY <2>6, CreateDataTransferStep
  <2>. QED
    BY <1>3, <2>1, <2>2, <2>3, <2>4, <2>5, <2>6 DEF Start
<1>4. ASSUME NEW t \in Threads, Step(t) PROVE IInv'
  BY <1>4, FindAllocatorStep, FindDeviceStep, CreateHalDeviceStep,
     HalDeviceFailsStep, StoreDeviceStep, FinishCreateEpStep,
     FinishCreateAllocatorStep, FinishCompileStep, FinishUseStep,
     CheckTransferStep, StoreTransferStep
  DEF Step
<1>5. ASSUME NEW n \in InfoSlots, ReleaseNodeComputeInfo(n) PROVE IInv'
  BY <1>5, ReleaseNodeComputeInfoStep
<1>6. ASSUME NEW s \in EpSlots, ReleaseEp(s) PROVE IInv'
  BY <1>6, ReleaseEpStep
<1>7. CASE ReleaseEpFactory
  BY <1>7, ReleaseEpFactoryStep
<1>8. ASSUME Destroy PROVE IInv'
  BY <1>8, ClearAllocatorsStep, ResetTransferStep, ClearDevicesStep,
     ReleaseHwDevicesStep
  DEF Destroy
<1>9. CASE Gone \/ UNCHANGED vars
  BY <1>9, StutterStep DEF Gone
<1>. QED
  BY <1>1, <1>2, <1>3, <1>4, <1>5, <1>6, <1>7, <1>8, <1>9 DEF Next

(* The inductive invariant holds in every behaviour of a warm host. *)
THEOREM Inductive ==
  ASSUME WarmHost
  PROVE  Spec => []IInv
<1>1. Init => IInv
  BY InitIInv
<1>2. IInv /\ [Next]_vars => IInv'
  BY NextIInv
<1>. QED
  BY <1>1, <1>2, PTL DEF Spec

-------------------------------------------------------------------------------
(* Every variable keeps its type: no reference count goes below zero, no row *)
(* is numbered past the devices found, no call is for an id out of range.    *)
THEOREM TypeCorrect ==
  ASSUME WarmHost
  PROVE  Spec => []TypeOK
<1>1. IInv => TypeOK
  BY DEF IInv
<1>. QED
  BY <1>1, Inductive, PTL

(* A host that fills the tables one call at a time may then call from any     *)
(* number of threads: no two of them meet at one of the unlocked tables.      *)
THEOREM WarmHostHasNoDataRace ==
  ASSUME WarmHost
  PROVE  Spec => []NoDataRace
<1>1. ASSUME IInv, NEW t \in Threads, NEW u \in Threads, t # u
      PROVE  Writes(t) \cap (Reads(u) \cup Writes(u)) = {}
  <2>1. /\ Serial /\ Missing
        /\ \A v \in Threads : pc[v] \in DeviceSteps =>
                                call[v].op \in DeviceOps
    BY <1>1 DEF IInv, Calls
  <2>2. CASE ~Warm
    <3>1. pc[t] = "idle" \/ pc[u] = "idle"
      BY <1>1, <2>1, <2>2 DEF Serial
    <3>. QED
      BY <3>1 DEF Writes, Reads
  <2>3. CASE Warm
    <3>1. CachesType /\ TablesType /\ ThreadsType
      BY <1>1 DEF IInv, TypeOK
    <3>2. pc[t] # "store" /\ pc[t] # "storeTransfer"
      <4>1. ASSUME pc[t] = "store" PROVE FALSE
        <5>1. /\ device_cache_[call[t].id] = 0
              /\ call[t].id < Len(hw_devices_)
              /\ call[t].id \in Nat
          BY <1>1, <2>1, <3>1, <4>1 DEF Missing, ThreadsType, Call
        <5>2. call[t].id + 1 \in Rows /\ (call[t].id + 1) - 1 = call[t].id
          BY <5>1, <3>1 DEF Rows, TablesType
        <5>. QED
          BY <2>3, <5>1, <5>2 DEF Warm
      <4>2. pc[t] # "storeTransfer"
        BY <1>1, <2>1, <2>3 DEF Missing, Warm
      <4>. QED
        BY <4>1, <4>2
    <3>3. ~(pc[t] = "use" /\ call[t].op = "CreateAllocator")
      <4>1. ASSUME pc[t] = "use" /\ call[t].op = "CreateAllocator" PROVE FALSE
        <5>1. /\ allocators_[call[t].id] = 0
              /\ call[t].id < Len(device_memory_infos_)
              /\ call[t].id \in Nat
          BY <1>1, <2>1, <3>1, <4>1 DEF Missing, ThreadsType, Call, DeviceSteps
        <5>2. /\ call[t].id + 1 \in 1 .. Len(device_memory_infos_)
              /\ (call[t].id + 1) - 1 = call[t].id
          BY <5>1, <3>1 DEF TablesType
        <5>. QED
          BY <2>3, <5>1, <5>2 DEF Warm
      <4>. QED
        BY <4>1
    <3>. QED
      BY <3>2, <3>3 DEF Writes
  <2>. QED
    BY <2>2, <2>3
<1>2. IInv => NoDataRace
  BY <1>1 DEF NoDataRace
<1>. QED
  BY <1>2, Inductive, PTL

(* An allocator, a session and a call for one device id all work on the one   *)
(* device instance in the cache.                                              *)
THEOREM WarmHostSharesDevices ==
  ASSUME WarmHost
  PROVE  Spec => []OneInstancePerDevice
<1>1. IInv => OneInstancePerDevice
  BY DEF IInv, OneInstancePerDevice, Open, Allocs, Infos, Fresh
<1>. QED
  BY <1>1, Inductive, PTL

(* The reference count of every HAL device is exact, in every reachable state *)
(* up to the end of the destructor.                                           *)
THEOREM WarmHostRefsExact ==
  ASSUME WarmHost
  PROVE  Spec => []RefsExact
<1>1. IInv => RefsExact
  BY DEF IInv
<1>. QED
  BY <1>1, Inductive, PTL

(* Compile and Compute may use the result of GetDeviceForId unchecked: an EP  *)
(* exists only while its device is in the cache.                              *)
THEOREM WarmHostDeviceIsCached ==
  ASSUME WarmHost
  PROVE  Spec => []UncheckedDeviceIsCached
<1>1. ASSUME IInv, NEW t \in Threads, pc[t] = "find",
             call[t].op \in {"Compile", "Compute"}
      PROVE  device_cache_[call[t].id] # 0
  <2>1. Open
    BY <1>1 DEF IInv, Quiet, AllIdle, Open
  <2>. QED
    BY <1>1, <2>1 DEF IInv, Eps, Infos, EpLive
<1>2. IInv => UncheckedDeviceIsCached
  BY <1>1 DEF UncheckedDeviceIsCached
<1>. QED
  BY <1>2, Inductive, PTL

===============================================================================
