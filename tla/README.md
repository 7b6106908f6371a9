# Verification of the IREE execution provider for ONNX Runtime

This directory holds TLA+ models of the plugin in `src/`, the TLC configurations
that check them and TLAPS proofs about them. Paths of the form `iree_ep.cc:200`
are under `src/src/`. `PROJECT.json` lists, for machines, what this file says
for readers: components, runs, mutants, the source lines behind each definition,
findings, hazards and theorems.

## 1. The system

ONNX Runtime (ORT, "the host") loads the plugin, asks it for devices, has it
compile a graph, and then calls it for every inference. The plugin is a set of
objects reached through C function pointers; it starts no thread of its own, and
every call runs to its end on the host's thread.

| Component | State | Operations |
|---|---|---|
| Factory (`iree_ep_factory`, `plugin_entry`) | `hw_devices_`, `device_memory_infos_`, and three tables filled on demand: `device_cache_`, `allocators_`, `data_transfer_` | construction (enumerates IREE devices), GetSupportedDevices, CreateEp, ReleaseEp, CreateAllocator, CreateDataTransfer, GetDeviceForId, destruction |
| EP and compilation (`iree_ep`, `iree_compile`, `temp_file`) | configuration, device id; during Compile three temporary files and a chain of reference-counted objects | GetCapability, Compile, ReleaseNodeComputeInfos |
| Computation (`iree_ep`, `iree_ort_utils`) | a session and a function per compiled graph; per call: input views, output list | Compute |
| Allocator (`iree_allocator`) | `allocations_`, from raw buffer pointer to its reference | Alloc, Free, destruction |
| Data transfer (`iree_data_transfer`) | none | CanCopy, CopyTensors |
| MLIR generation (`mlir_gen`) | the emitted text, `parameter_initializers_`, two parameter indices | GenerateMlir, BuildParameterArchive |
| Smart pointers (`iree_wrappers`) | a counted reference, a block with its allocator, or an initialized call each | construct, adopt, borrow, move, ForOutput, Release, Reset, destroy |
| Element types (`iree_ort_utils`, `mlir_gen`) | none | five switches over types, byte sizes, shapes |
| Python package, build | none | |

**How they interact.** The host's calls enter at the factory, the EP, the compute
info, the allocator and the data transfer. All of them resolve a device id by
`GetDeviceForId`, which reads and may write the factory's `device_cache_` with no
lock. An allocator keeps the raw pointer it got; a session retains the device; an
EP keeps only the id and asks again at each Compile and Compute
(`iree_ep.cc:88`). A device tensor of the host is a raw `iree_hal_buffer_t*` whose
reference is in the allocator's map; Compute and CopyTensors cast it back. Compile
passes files and, through smart pointers, the parameter provider from
`mlir_gen.cc` to the runtime session.

**What is hard.**
- *Interleaving*: three unlocked check-then-act tables (the `TODO(thread-safety)`
  marks) used by every entry point.
- *Lifetimes*: raw device pointers, raw buffer pointers, borrowed tensor data and
  unlinked files, each valid only for as long as some other object lives.
- *Partial failure*: enumeration, GetSupportedDevices, every phase of Compile,
  every step of Compute and every pair of CopyTensors may fail, and leaves early.
- *Ordering*: destructors, outputs written while inputs are still wanted, tables
  indexed by numbers that another function counted.
- *Names*: different ONNX names become the same MLIR identifier.
- *Tables that must agree*: five switches list element types, written apart and used
  at different times (generation, the upload of inputs, the check of outputs, copies).

Nothing is persisted and no message can be lost, so crash recovery and unreliable
delivery do not arise. `PROJECT.json` lists the hazards line by line, with the
properties that watch each, or why none does.

**What makes each component correct.** Factory: one device instance per id, for
allocator, session and call alike; the id means the device the host asked for; no
lost or doubled reference; an orderly destruction. Compile: the session alone keeps
what the program reads; nothing keeps what ORT may free; no stray files.
Computation, allocator and transfer together: the host sees tensors with values,
and a call writes exactly the results of its arguments. MLIR generation: the
emitted module means what the graph means, or is rejected by the compiler. Element
types: what compiles can also be fed, run and read back. Smart pointers: every
reference, block and list is given back once, whatever the sequence of operations.

## 2. The modules

| Module | What it is |
|---|---|
| `Registry` | abstract: a table in which a key is bound at most once, to an object of its own |
| `IreeEpFactory` | the factory, its callers' use of devices, the destructor |
| `MCIreeEpFactory` | its instances for TLC |
| `IreeEpFactory_proofs` | theorems on its devices, references and races |
| `FactoryTables_proofs` | theorems on its three tables, its destructor and its device ids |
| `TensorStore` | abstract: tensors with values; a call is a list of writes that may stop early |
| `IreeBuffers` | allocator, Compute and CopyTensors over reference-counted buffers |
| `MCIreeBuffers` | its instances for TLC |
| `IreeBuffers_proofs` | its theorems, among them the refinement of `TensorStore` |
| `IreeCompile` | the life of an EP: its configuration, the nodes it claims, and the phases, files and ownership of Compile |
| `IreeCompile_proofs` | its theorems |
| `MlirGen` | names, operands, initializers and parameters of GenerateMlir |
| `MCMlirGen` | the graphs TLC tries |
| `MlirGen_proofs` | its theorems, for all valid graphs |
| `TensorTypes` | element types, shapes and byte counts of one tensor, from its declaration through calls |
| `MCTensorTypes` | the shapes TLC tries |
| `TensorTypes_proofs` | its theorems, for all shapes |
| `IreeWrappers` | IreePtr, IreeAllocatedPtr and RuntimeCall under any sequence of operations |
| `IreeWrappers_proofs` | its theorems |

Operators whose name ends in `_Something` after the name of an action
(`StoreDevice_Retains`) are mutants: the action as a plausible mistake would have
it. For each property of a passing run one mutant, put in the action's place,
makes TLC find the property violated. They are not part of any specification.

### IreeEpFactory

Variables bear the names of the members. `hal`, `allocs` and `transfers` number
every object ever created, so that two instances for one id can be told apart;
0 is the null pointer. `eps` and `infos` are the EPs and compute infos the host
holds. Each thread has a step `pc`, the arguments `call` and the local device
pointer `dev`.

A call is cut exactly where the code reads a table and writes it later:
`FindAllocator` (the lookup at `iree_ep_factory.cc:443` and the check at 453),
`FindDevice` (167-178), `CreateHalDevice` or `HalDeviceFails` (180-209),
`StoreDevice` (216), then the caller's end (`FinishCreateEp`,
`FinishCreateAllocator`, `FinishCompile`, `FinishUse`); `CheckTransfer` and
`StoreTransfer` for `data_transfer_`. The first check of `GetDeviceForId` and the
validation of the id share one step: the vector `hw_devices_` does not change after
construction. The destructor is one action per statement.

Left out: metadata other than driver, path and id; options and logging; calls
refused for their arguments, which change nothing.

*The host* is not in `src/`. The model lets it call at any time on any thread, with
these restrictions, which the interface implies: GetSupportedDevices is called
once and before other calls; an EP outlives its compute infos
(`iree_ep.h:116`); an object is not released while a call uses it; the factory is
released when no EP is left. `HostPolicy` adds one more choice. `"free"` is all of
the above. With `"warm"` the host makes its calls one at a time until every device
has its HAL device and its allocator and the data transfer exists. That is an
assumption on the host, not something the code enforces. What a warm host is shown
to have therefore says nothing of the races that the assumption rules out, those of
two threads that both find a table empty: `factory_cold` shows what that does to
`device_cache_`. In `allocators_` and `data_transfer_` the second store likewise
destroys the object that the first call returned; that is read from the code, and
no run shows it.

### IreeBuffers and TensorStore

`refs` and `data` are the count and contents of each HAL buffer; an address whose
count is 0 may be handed out again. `allocations_` holds the keys of each
allocator's map, `tensor` what the host's OrtValues are (in host memory, or the raw
pointer of a buffer of a device). A Compute call is a step per input (`WrapInput`
retains the tensor's own buffer, `CopyInput` fills a new one), `Invoke`, for each
output a step that copies it (`Output`), before it one that has the tensor made if it
does not exist yet (`GetOutput`: ORT uses host memory, or calls Alloc of the session's
device back while Compute runs), and `FinishCompute`, or `FailCompute` wherever the code returns early.
CopyTensors is a step per pair. The host does not let a call write a tensor another
call uses, or free one a call uses, or give its name to a new tensor. Contents are small numbers. The compiled
program is the constant operator `Result`; the runs give it an arithmetic function
(`MCResult`) that tells its inputs, their order and the output's number apart, the
theorems leave it open.

Alloc and Free are atomic: a race inside `std::unordered_map` has no outcomes to
enumerate. Sizes are nonzero. New device buffers keep what was at their address.

### IreeCompile

`CreateEp` chooses the backend for the device's driver and refuses drivers without
one; `GetCapability` decides how many fused graphs ORT will hand to Compile; the
flags that `CompileToVmfb` passes are the part of `GenerateCompileFlags` that depends
on the device. Objects and an `owns` relation stand for IREE's reference counts; the locals of
CompileImpl, those of BuildParameterArchive and the compute info are the roots, and
an object lives while a root reaches it. One action per phase; `Fail` ends any
phase. The model follows one compute info at a time. What a failing phase has
already written to its own file is not modelled. Removing a file succeeds; the
code does not look whether it did (`temp_file.cc:38`).

### MlirGen

The emitted module is a list of operations, each with the set of values it defines and
the set it uses; the order of the operands of one operation is left out. A value is
an id with, as history, the ONNX name it was made for and whether it is the name's own
value (`Ssa`) or the constant it is cast from (`Raw`). Characters are tokens; graphs
are given by a constant, of which `GraphsAssumption` says what ORT has checked before
it hands a graph out (`ValidGraph`): initializers differ in their names, each value is
defined once, and nodes come after what they use. The code relies on this and does
not check it again. Abstracted: types, attributes, hexadecimal data, layout.
What iree-compile accepts is `WellFormed`: each id defined once and before its use.
`SanitizeName` is that of a build without assertions, in which an empty name
becomes `_unnamed`.

### TensorTypes

One tensor, an input, an output or an initializer of any ONNX type, known to the
plugin or not. `Generate` writes its two MLIR types and decides whether its data
goes into the module's text; `CompileModule` is the compiler, which rejects a type
`NYI` and a cast between types of different width; then calls follow: an input is
perhaps moved to the device by `CopyTensors` and turned into a buffer view by
`OrtTensorToIreeBufferView`; an output comes back as a view of one of the HAL types
the program may use (IREE may drop the sign), is checked and copied by `Output`, and
perhaps moved by `CopyTensors`. `transfer` records the length of the last copy and the
sizes of both its ends, by IREE's type and by ORT's own. What the compiler, the
program and ORT do with types is external and named so in the map. Byte counts do not
overflow in the model.

### IreeWrappers

Any sequence of operations on a few variables of each wrapper class; a variable that
is not alive is `"gone"`. The environment holds references too (`raw`): it makes
objects, and adopted or released references pass to or from it. An API function that
is given `ForOutput()` stores an object with a reference of its own, be it new or one
that exists, or fails. `lists` counts how often a call's lists were made and not yet
released, so that a second release would show as a negative count.

## 3. The runs

| Run | Question | Bounds |
|---|---|---|
| `factory_warm` | everything about devices, allocators, references and destruction, and that the three tables implement `Registry`, for a warm host | 2 threads, 3 drivers, 2 devices, 2 EPs, 1 session, enumeration may fail |
| `factory_eps` | do ids and instances of devices stay apart, when ORT may refuse some, and does every call return, for a free host? | 1 thread, 2 drivers, 4 devices, 2 EPs, 1 session, no allocator or transfer |
| `factory_cold` | *violated*: allocator and session share an instance, for a free host | 2 threads, 1 device |
| `factory_skew` | *violated*: EP on the requested device, when ORT may refuse a device | 1 thread, 3 devices |
| `buffers` | references, ownership and `TensorStore`, two sessions at once | 2 threads, 2 devices, 2 tensors, 4 buffers, 1 input, 2 outputs |
| `buffers_args` | `TensorStore` for several arguments | 1 thread, 5 buffers, 2 inputs, 2 outputs or pairs, 3 values |
| `buffers_d2d` | *violated*: transfers stay on one device | 2 devices |
| `compile` | files, ownership, borrowed data, flags and compute infos on every path through an EP's life | none but graphs of 0 to 2 nodes |
| `mlir` | well-formedness, operands and parameters | graphs of 1 input, 2 initializers, 1 node, names that collide |
| `mlir_function` | *violated*: the function looked up is the one emitted | 5 graph names |
| `types` | do the switches over element types agree, and do copies fit? | 13 known and 3 unknown types, 10 shapes, dynamic dimensions of 0, 1 and 5 |
| `pointers` | is everything given back once? | 3 pointers on 2 objects with 1 reference elsewhere, 2 owners of 2 blocks of 2 allocators, 1 call |

**Why the bounds are enough.** Two threads suffice for a race on one table, and two
devices to confuse them. Four devices are the fewest of which two can have EPs after one
that was refused, for its gap puts the last id out of range; `factory_eps` pays for them
with one thread and a host that makes EPs and sessions only (`MCEpHost`): ids do not
depend on the rest. In `buffers`, two tensors can be one call's input and output or two
calls' arguments, and four buffers allow every address to be reused while both calls
hold views. Two arguments show order; a third adds nothing the loops treat differently.
In `mlir`, two initializers give every mixture of small, large and external and every
collision of two names. `compile` needs almost no bound: its state is finite. Symmetry
is used for threads and slots of the factory, and for buffers and tensors; never in a
liveness run. `mlir` and `types` do not check deadlock: GenerateMlir returns, and a
rejected graph is not used. The shapes of `types` put every width on both sides of the
limit for inline data. Two pointers to one object while a third moves is all that one
operation can see of `IreePtr`; the theorems drop the bound.

**Fairness** (`factory_eps` only): weak fairness of each thread's steps inside a
call. The code waits for no lock and no other
thread, so a thread the operating system schedules goes on. The host need never
call. Blocking inside IREE (`iree_infinite_timeout`) is taken to end.

**Findings.** The four violated runs state what comments in the code say:

1. `factory_cold`: "the EP uses the same device instance as the allocator"
   (`iree_ep_factory.cc:393`). Two threads that miss in the cache break it.
2. `factory_skew`: the device id is "the index it's stored in hw_devices_"
   (`iree_ep_factory.cc:105`). It is not after CreateHardwareDevice failed for an
   earlier device, since `device_index++` is evaluated anyway.
3. `buffers_d2d`: "D2D on same device" (`iree_data_transfer.cc:60`, and so
   `iree_data_transfer.h:29`). CanCopy compares vendor ids, not device ids. The comments
   differ among themselves: the head of `iree_data_transfer.h` (9-10) says "and between
   IREE devices", as the code does.
4. `mlir_function`: the function name is "module.{graph_name}" (`iree_ep.cc:229`).
   The emitted name is sanitized, the one looked up is not, and the default "main" is
   never emitted.

## 4. The proofs

`IreeEpFactory_proofs` proves, for any finite set of threads, any drivers, EPs and
sessions and any number of devices, and for a warm host (`HostPolicy = "warm"` is
the hypothesis of each theorem):

- `TypeCorrect`: `TypeOK`.
- `WarmHostHasNoDataRace`: no two threads meet at an unlocked table.
- `WarmHostSharesDevices`: `OneInstancePerDevice`.
- `WarmHostRefsExact`: `RefsExact`, to the end of the destructor.
- `WarmHostDeviceIsCached`: the unchecked `IreeDevice()` is never null.

All follow from `Inductive`, that `IInv` is invariant. None of the properties is
inductive alone. `NoDataRace` says what is true of a moment; that it stays true needs
`Serial` (unless the tables are full, at most one thread is inside a call) together
with `Missing` (a thread on its way to write an entry finds it empty): a thread about
to write implies the tables are not full, hence is alone, and filling an entry never
makes them less full. `OneInstancePerDevice` needs `Fresh` and `Missing`, so that
storing a device replaces none; `RefsExact` needs `Fresh`, so that a new
device is in no entry, and `Infos`, so that a released session held a device. `Eps`
and `Infos` also reserve the slot of an EP or session in the making, which
stands for the fact that the host's pointers are distinct. There is one lemma per
action (`<Action>Step`) and the theorem `Inductive` puts them together.

The assumptions are those of `IreeEpFactory`, about its constants: the bound is a
natural number, the two switches have one of their values, the sets of threads
and sessions are finite (`Cardinality` counts them) and `"none"` is no slot.

`FactoryTables_proofs` goes on from there, for the same warm host:

- `DevicesRefineRegistry`, `AllocatorsRefineRegistry`, `TransferRefinesRegistry`: each
  of the three tables implements `Registry`. `StoreDevice`, `FinishCreateAllocator`
  and `StoreTransfer` are `Bind`, the statement of the destructor that empties the
  table is `Clear`, its begin is `Close`, and every other step stutters. That a
  `Bind` finds its key unbound is again `Missing`.
- `WarmHostAllocatorsUsable`, `WarmHostAllocatorsAdvertised`, `WarmHostNothingLeaks`,
  `WarmHostDevicesStayApart`: the invariants of `factory_warm` and `factory_eps`
  that relate tables and objects. They follow from `TablesInductive`, whose invariant `TablesInv`
  says that each row of `hw_devices_` has an id of its own (`Rowed`), which an EP made
  for the row has too (`EpRows`), that no instance is cached under two ids
  (`Separate`), that until `allocators_` is cleared the allocators are its entries,
  on the cached device of their id (`AllocEntries`), and were advertised
  (`Advertised`), and that the destructor runs without EPs and sessions (`Ended`).
- `WarmHostSessionSharesAllocator` and `EpRunsOnRequestedUnlessRefused` are the
  properties that `factory_cold` and `factory_skew` refute, with the hypothesis
  that each refutation breaks: the host is warm; and, for the second,
  ORT refuses no hardware device (`~HwCreateMayFail`). The second rests on
  `RequestInv`: a cached device is the one that the row at position id + 1 names
  (`Opened`), while nothing is refused that row has that id (`Dense`), and
  EPs are made for rows that were handed out (`Requested`).

`IreeBuffers_proofs` proves all properties of the run `buffers`, for any finite sets
of threads and devices, any tensors and buffers, any number of values and arguments,
and any compiled program: `TypeCorrect`, `ReferencesExact` (`BufferRefsExact`),
`HandlesAreOwned` (`HandlesOwned`), `AllocatorsRelease` (`AllocatorsReleaseAll`) and
`CallsImplementStore`, the refinement of `TensorStore`. The invariant `IInv` adds to
the properties

- `CallShapes`: phase by phase, how a call's index and lists go together (as many
  views as inputs passed, as many outputs as destinations);
- `Apart` and `Present`, what the host promises when it calls, kept while it does
  other things: nobody writes what another call uses, and what a call reads stays;
- `NoHandles`: a tensor not on a device has no buffer, a destroyed allocator no entry;
- `Kept`: while inputs are collected they have the values that the call was made
  with, a view is of the input's own buffer or of a private copy, and the outputs
  that are left to copy are in buffers that no allocator knows.

`Kept` needs the counts: a private buffer keeps its contents because it is not free
(`HeldIsCounted`), so that nobody can be given its address; and the counts need
`HandlesOwned`, since Free gives up the reference of the pointer it is handed. Counting
is by slots: each thread's views are counted apart from the others' (`CountApart`), so
that a step changes the count by what it changes in its own lists (`CallRefs`). For
the refinement, `GetOutput`, Alloc and the host's tensors are `Create`, Free and the
destruction of an allocator `Drop`; `Output` and `CopyOne` are `Write`; an
early return is `Fail`; collecting inputs and invoking the program does not show,
because it touches free buffers only (`FreeUnseen`). The assumptions: names of devices
and tensors are not "none" or "cpu", the sets of threads and devices are finite,
the bounds are numbers and the program returns values (`ResultAssumption`).

`IreeWrappers_proofs` proves all five properties of `IreeWrappers` for any finite set
of pointers and any objects, blocks, allocators and calls: `TypeCorrect`,
`ReferencesExact` (`RefsExact`), `BlocksOwned` (`BlocksOwnedOnce`), `ListsBalanced`
(`CallsBalanced`) and `MovesKeep` (`MovesKeepObject`). `Inductive` says that `IInv`,
the conjunction of the parts about the three classes, is invariant. `RefsExact` is
nearly inductive: what an operation does to the set `PtrsTo(o)` is one element more
or less (`CountOne`, `AssignStep`, `MoveStep`), and a count is positive where a
pointer holds the object (`HeldIsPositive`), so that no release goes below 0; that
uses that `Ptrs` is finite. Objects must not be called `"null"` or `"gone"`.

`IreeCompile_proofs` proves the six properties of `IreeCompile` for graphs of any
number of nodes (`MaxNodesAssumption`: the bound is a natural number), and
all paths of failure: `TypeCorrect`, `SessionResolves` (`SessionResolvesParameters`),
`NothingBorrowed` (`NoBorrowedData`), `FilesRemovedOrKept` (`FilesCleanedOrKept`),
`GraphsHaveInfos` (`EveryGraphHasInfo`) and `ProgramsFit` (`ProgramFitsDevice`). The
parts of `IInv` say phase by phase what an earlier phase left: `ChainInv` has the links
session, parameters module, provider, archive, handles, each from the
phase that makes it on; `HoldInv` says that only the source index, dropped when the
archive is done, refers to ORT's tensors; `FileInv` has the files that the phases
passed have written, in a call and, with save_intermediates, after one that failed.
`FilesCleanedOrKept` speaks only of the moment between calls, so it
is not inductive without them. `ChainReached` follows the chain, and is
what shows that `Finish`, which drops whatever the session does not reach, drops
nothing that the parameters need; `NotReached` is its converse.

`TensorTypes_proofs` proves the five properties of `TensorTypes` for any set of shapes
and any sizes of dynamic dimensions: `TensorTypeCorrect` (`TypeOK`), `CallsNeverRefused`
(`NeverRefused`), `CopiesFit` (`TransfersFit`), `SizedTypesAccepted`
(`SupportedAccepted`) and `InlineDataIsSmall` (`InlineStaysSmall`). The invariant
`Inv` says that the lengths of a copy's ends are equal (`Sizes`) and that what was written
for a tensor is `Written`, that only tensors whose types the compiler accepts come to
be called, and that a view has one of the types the program may use (`Types`). That the
switches agree is a matter of cases (`KnownTypes`, `UnknownTypes`, `SignlessTypes`);
that the sizes agree needs `NumElements` to be a natural number for *every*
shape. The library's induction theorems take an operator, which the provers cannot
instantiate; its theorem on minimal elements (`WFMin`) takes a set. `LeastNat` draws
from it that a set of naturals has a least element, and with the set of lengths at which
a claim fails this replaces the induction: two solutions of the recursion agree
(`SolutionsAgree`), each length has one (`SolutionsExist`), hence the function defined
by it satisfies it (`NumElementsStep`) and stays in Nat (`NumElementsNat`).

`MlirGen_proofs` proves the four properties of the run `mlir` for any set of valid
graphs, of any size: `GeneratorTypeCorrect` (`TypeOK`), `PlainGraphsBecomeModules`
(`PlainGraphsAccepted`), `AcceptedModulesAreFaithful` (`AcceptedMeansFaithful`) and
`ParametersAreFound` (`ParametersResolve`). The properties speak of the end of
GenerateMlir; the invariant `Inv` of every moment before. `Passed` is the set of names
the loops have dealt with, and `Sound` says of it: each of its names is defined or was
skipped, nothing else is defined, no two operations define the same value, every
operand was defined before its operation or was skipped, and what was skipped is
nowhere defined (`LeftOut`). `NodeNames` and
`DefinedGrows` turn what ORT promises of a graph into what `Passed` needs at each node.
`ParamsInv` ties each recorded index to its initializer, its key and its constant;
`ArchiveInv` says which parameters have their one entry in each index after so many
turns of the two loops (`Sources`, `Targets`). Uniqueness of ids is nowhere in the
invariant, since different names may share one: it comes from `Apart`, or from the
module having been accepted. An initializer that could not be read is left out without
a word; `PlainGraphsAccepted` says in both directions what becomes of that when names
stay apart: the module is rejected if, and only if, it uses the initializer. When
names collide, `AcceptedMeansFaithful` leaves one case, which the code has: the operand
was left out and another value has its id.

**Only model-checked**: the liveness property `CallsReturn`, for liveness is out of the
prover's reach, as is `ENABLED`. Every invariant, action property
and refinement that a passing run checks is also a theorem.

## 5. What is not modelled

- The text of attributes (its precision, and kinds written as "NYI") and data, the compiler's flags that do not depend on the
  device, the mapping of status codes: pure functions of their input.
- The moves of `TempFile`, which the program does not use.
- Overflow of byte counts: `size_t` products of dimensions that ORT has allocated.
- Races inside `allocations_`, zero-size Alloc, null buffers.
- What the host does with a second graph: the code compiles the first and sets one
  info. GetCapability never makes two (`EveryGraphHasInfo`).
- Positions of operands after an omitted one: nothing in the repository says what
  the operator expects.
- Getters and stream entry points: they keep no state.
- The Python package and the build.

## 6. Plan

In order of what matters most to a user of the plugin:

1. (done) `Registry`, `IreeEpFactory`, its runs and the theorems above.
2. (done) `TensorStore`, `IreeBuffers` with the refinement checked.
3. (done) `IreeCompile`, `MlirGen`.
4. (done) `IreeWrappers` with its theorems, `TensorTypes`, GetCapability and CreateEp's
   configuration in `IreeCompile`, the allocation of outputs in `IreeBuffers`.
5. (done) Proofs of every invariant, action property and refinement of the runs.
6. Composition: Compute and CopyTensors over the factory's devices, to drop the
   assumption that each device id has one instance from `IreeBuffers`; the objects of
   `IreeCompile` held through the pointers of `IreeWrappers`.

## 7. Running

    tlc -workers 2 -config factory_warm.cfg MCIreeEpFactory
    tlapm IreeEpFactory_proofs.tla
