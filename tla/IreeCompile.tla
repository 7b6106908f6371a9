------------------------------ MODULE IreeCompile ------------------------------
(***************************************************************************)
(* The life of an IreeEp: its configuration, the nodes it claims, Compile     *)
(* with its temporary files, parameter archive, phases and errors, and the    *)
(* release of what it compiled.                                               *)
(*                                                                         *)
(* Who keeps whom alive is a relation, owns, between objects of the IREE     *)
(* runtime; the local smart pointers and the node compute info are its       *)
(* roots.  An object lives for as long as a root reaches it (IREE counts      *)
(* references and no cycle is built).                                        *)
(***************************************************************************)
EXTENDS Naturals, FiniteSets

CONSTANT MaxNodes   \* bound: nodes of a graph

ASSUME MaxNodesAssumption == MaxNodes \in Nat

\* Drivers of the hardware devices; the plugin has no compiler backend for metal.
Drivers == {"vulkan", "cuda", "hip", "local-task", "local-sync", "metal"}

\* Large initializers: held in memory by ORT, or in a file of the model.
Params == {"memory", "external"}
FileNames == {"mlir", "vmfb", "irpa"}

Objects == {"source_index", "target_index", "provider", "parameters_module",
            "bytecode_module", "session",
            "hostHandle",   \* wraps the tensor data of ORT
            "irpaHandle",   \* the archive file, open
            "extHandle"}    \* a data file of the model, open

VARIABLES
  driver,    \* the driver of the EP's device, "none" while there is no EP
  backend,   \* config_.backend
  count,     \* the fused graphs ORT will hand to Compile
  program,   \* the flags the last VMFB was compiled with
  pc,        \* the phase Compile is in, "idle" between calls
  params,    \* kinds of large initializers of the graph
  keep,      \* config_.save_intermediates
  files,     \* the temporary files of the last call: absent, empty, written
  inner,     \* objects held by the locals of BuildParameterArchive
  locals,    \* objects held by the locals of Compile
  owns,      \* which object holds a reference to which
  infos,     \* where node_compute_infos has an info; the info owns the session
  failedAt   \* the phase the last call failed in, "none" if it succeeded;
             \* "arguments" also before the first call

epVars == <<driver, backend, count, keep>>
compileVars == <<program, pc, params, files, inner, locals, owns, infos, failedAt>>
vars == <<epVars, compileVars>>

Holders(S, R) == S \cup {r[2] : r \in {q \in R : q[1] \in S}}

\* What the roots keep alive; no chain of owners is longer than four.
Reached(S, R) == Holders(Holders(Holders(Holders(S, R), R), R), R)

Roots == inner \cup locals \cup (IF infos # {} THEN {"session"} ELSE {})
Alive == Reached(Roots, owns)

Init ==
  /\ driver = "none" /\ backend = "none" /\ count = 0 /\ program = {}
  /\ pc = "idle" /\ params = {} /\ keep = FALSE
  /\ files = [f \in FileNames |-> "absent"]
  /\ inner = {} /\ locals = {} /\ owns = {} /\ infos = {}
  /\ failedAt = "arguments"

-------------------------------------------------------------------------------
(* The EP and its configuration.                                             *)

\* Mutant: the two GPU backends are exchanged.
BackendOf_Swapped(d) ==
  CASE d = "vulkan" -> "vulkan" [] d = "cuda" -> "hip" [] d = "hip" -> "cuda"
    [] d \in {"local-task", "local-sync"} -> "llvm-cpu"
    [] OTHER -> "none"

BackendOf(d) ==
  CASE d \in {"vulkan", "cuda", "hip"} -> d
    [] d \in {"local-task", "local-sync"} -> "llvm-cpu"
    [] OTHER -> "none"

\* CreateEp; a driver without a backend, or options without a target_arch, are
\* refused (enumeration calls every device a GPU).
CreateEp(d, save) ==
  /\ driver = "none" /\ BackendOf(d) # "none"
  /\ driver' = d /\ backend' = BackendOf(d) /\ keep' = save
  /\ UNCHANGED <<count, compileVars>>

\* What is kept of the EP's files is no longer followed.
ReleaseEp ==
  /\ driver # "none" /\ pc = "idle" /\ infos = {}
  /\ driver' = "none" /\ backend' = "none" /\ count' = 0 /\ keep' = FALSE
  /\ files' = [f \in FileNames |-> "absent"] /\ failedAt' = "arguments"
  /\ UNCHANGED <<program, pc, params, inner, locals, owns, infos>>

\* Mutant: each node is claimed on its own.
GetCapability_EachNode(nodes) ==
  /\ driver # "none" /\ pc = "idle" /\ infos = {}
  /\ count' = nodes
  /\ UNCHANGED <<driver, backend, keep, compileVars>>

\* All nodes of the graph become one fused graph.
GetCapability(nodes) ==
  /\ driver # "none" /\ pc = "idle" /\ infos = {}
  /\ count' = IF nodes = 0 THEN 0 ELSE 1
  /\ UNCHANGED <<driver, backend, keep, compileVars>>

-------------------------------------------------------------------------------
(* The host calls Compile.  Without graphs it is refused; of several only the *)
(* first is compiled.  The model follows one compiled graph of the EP at a    *)
(* time; what is compiled for several shares nothing.  The three TempFile     *)
(* constructors try to create their files and do not look whether they did.   *)

CompileImpl(P, made) ==
  /\ driver # "none" /\ pc = "idle" /\ infos = {}
  /\ IF count = 0
     THEN /\ failedAt' = "arguments"
          /\ UNCHANGED <<pc, params, files>>
     ELSE /\ pc' = "generate" /\ params' = P
          /\ files' = [f \in FileNames |-> IF f \in made THEN "empty" ELSE "absent"]
          /\ failedAt' = "none"
  /\ UNCHANGED <<epVars, program, inner, locals, owns, infos>>

\* The destructors of the TempFiles.  They do not look whether the removal
\* succeeded; here it does.
Remaining(fs) == IF keep THEN fs ELSE [f \in FileNames |-> "absent"]

\* Mutant: an early return leaves the files for the system to clean up.
Fail_LeavesFiles ==
  /\ pc # "idle"
  /\ pc' = "idle" /\ failedAt' = pc
  /\ inner' = {} /\ locals' = {} /\ owns' = {}
  /\ UNCHANGED <<epVars, program, params, files, infos>>

\* Any phase may fail: the locals of both functions are destroyed, and with them
\* every object and, unless they are to be kept, the files.
Fail ==
  /\ pc # "idle"
  /\ pc' = "idle" /\ failedAt' = pc
  /\ inner' = {} /\ locals' = {} /\ owns' = {}
  /\ files' = Remaining(files)
  /\ UNCHANGED <<epVars, program, params, infos>>

-------------------------------------------------------------------------------
(* Phase 1: GenerateMlir and, in it, BuildParameterArchive.                  *)

WriteMlir ==
  /\ pc = "generate"
  /\ files' = [files EXCEPT !["mlir"] = "written"]
  /\ pc' = IF params = {} THEN "compile" ELSE "source"
  /\ UNCHANGED <<epVars, program, params, inner, locals, owns, infos, failedAt>>

\* The source index gets a handle for each initializer in memory; external ones
\* are skipped.
BuildSourceIndex ==
  /\ pc = "source"
  /\ inner' = {"source_index"}
  /\ owns' = owns \cup (IF "memory" \in params
                        THEN {<<"source_index", "hostHandle">>} ELSE {})
  /\ pc' = "archive"
  /\ UNCHANGED <<epVars, program, params, files, locals, infos, failedAt>>

\* Mutant: the source index is used as the target, without a copy to the file.
BuildArchive_InPlace ==
  /\ pc = "archive"
  /\ inner' = inner \cup {"target_index"}
  /\ owns' = owns \cup (IF "memory" \in params
                        THEN {<<"target_index", "hostHandle">>} ELSE {})
  /\ pc' = "external"
  /\ UNCHANGED <<epVars, program, params, files, locals, infos, failedAt>>

\* The target index; when the source index has entries, their data is copied to
\* the archive file, whose open handle the target index keeps.
BuildArchive ==
  /\ pc = "archive"
  /\ inner' = inner \cup {"target_index"}
  /\ IF "memory" \in params
     THEN /\ files' = [files EXCEPT !["irpa"] = "written"]
          /\ owns' = owns \cup {<<"target_index", "irpaHandle">>}
     ELSE UNCHANGED <<files, owns>>
  /\ pc' = "external"
  /\ UNCHANGED <<epVars, program, params, locals, infos, failedAt>>

AddExternal ==
  /\ pc = "external"
  /\ owns' = owns \cup (IF "external" \in params
                        THEN {<<"target_index", "extHandle">>} ELSE {})
  /\ pc' = "provider"
  /\ UNCHANGED <<epVars, program, params, files, inner, locals, infos, failedAt>>

\* The provider retains the index; both move to Compile's locals and those of
\* BuildParameterArchive are destroyed.
CreateProvider ==
  /\ pc = "provider"
  /\ locals' = {"target_index", "provider"}
  /\ inner' = {}
  /\ owns' = {r \in owns : r[1] # "source_index"}
             \cup {<<"provider", "target_index">>}
  /\ pc' = "compile"
  /\ UNCHANGED <<epVars, program, params, files, infos, failedAt>>

-------------------------------------------------------------------------------
(* Phases 2 to 6.                                                            *)

\* The device and architecture flags.
GenerateCompileFlags ==
  CASE backend = "llvm-cpu" -> {"device=local", "local-backend=llvm-cpu"}
    [] backend = "vulkan"   -> {"device=vulkan"}
    [] backend = "cuda"     -> {"device=cuda", "cuda-target"}
    [] backend = "hip"      -> {"device=hip", "hip-target"}
    [] OTHER -> {}   \* the assertion

CompileToVmfb ==
  /\ pc = "compile"
  /\ files' = [files EXCEPT !["vmfb"] = "written"]
  /\ program' = GenerateCompileFlags
  /\ pc' = "session"
  /\ UNCHANGED <<epVars, params, inner, locals, owns, infos, failedAt>>

\* Mutant: whether there is a provider is not looked at.
CreateSession_NoProviderCheck ==
  /\ pc = "session"
  /\ locals' = locals \cup {"session"}
  /\ pc' = "parameters"
  /\ UNCHANGED <<epVars, program, params, files, inner, owns, infos, failedAt>>

\* The block that registers the parameters runs when there is a provider.
CreateSession ==
  /\ pc = "session"
  /\ locals' = locals \cup {"session"}
  /\ pc' = IF "provider" \in locals THEN "parameters" ELSE "load"
  /\ UNCHANGED <<epVars, program, params, files, inner, owns, infos, failedAt>>

\* Mutant: the module is made but not appended to the session.
RegisterParameters_NotAppended ==
  /\ pc = "parameters"
  /\ pc' = "load"
  /\ UNCHANGED <<epVars, program, params, files, inner, locals, owns, infos, failedAt>>

\* The io_parameters module retains the provider, the session the module; the
\* local parameters_module is released at the end of the block.
RegisterParameters ==
  /\ pc = "parameters"
  /\ owns' = owns \cup {<<"session", "parameters_module">>,
                        <<"parameters_module", "provider">>}
  /\ pc' = "load"
  /\ UNCHANGED <<epVars, program, params, files, inner, locals, infos, failedAt>>

\* The session keeps the contents of the VMFB file, not the file.
LoadBytecode ==
  /\ pc = "load"
  /\ owns' = owns \cup {<<"session", "bytecode_module">>}
  /\ pc' = "lookup"
  /\ UNCHANGED <<epVars, program, params, files, inner, locals, infos, failedAt>>

\* The function is found.  The node compute info takes the session over, the
\* other locals are destroyed, the files are removed unless they are to be kept.
Finish ==
  /\ pc = "lookup"
  /\ infos' = {1}
  /\ inner' = {} /\ locals' = {}
  /\ owns' = {r \in owns : r[1] \in Reached({"session"}, owns)}
  /\ files' = Remaining(files)
  /\ pc' = "idle"
  /\ UNCHANGED <<epVars, program, params, failedAt>>

ReleaseNodeComputeInfos ==
  /\ pc = "idle" /\ infos # {}
  /\ infos' = {} /\ owns' = {}
  /\ UNCHANGED <<epVars, program, pc, params, files, inner, locals, failedAt>>

-------------------------------------------------------------------------------

Phase ==
  \/ WriteMlir
  \/ BuildSourceIndex
  \/ BuildArchive
  \/ AddExternal
  \/ CreateProvider
  \/ CompileToVmfb
  \/ CreateSession
  \/ RegisterParameters
  \/ LoadBytecode
  \/ Finish

Next ==
  \/ \E d \in Drivers, save \in BOOLEAN : CreateEp(d, save)
  \/ \E nodes \in 0 .. MaxNodes : GetCapability(nodes)
  \/ \E P \in SUBSET Params, made \in SUBSET FileNames : CompileImpl(P, made)
  \/ ReleaseEp
  \/ Phase
  \/ Fail
  \/ ReleaseNodeComputeInfos

Spec == Init /\ [][Next]_vars
-------------------------------------------------------------------------------
(* Properties.                                                               *)

BuildPhases == {"archive", "external", "provider"}

\* The type of the state, and what each phase may assume of it: the parameters
\* module is made from a provider that exists, and the locals of
\* BuildParameterArchive are there only while it runs.
TypeOK ==
  /\ pc \in {"idle", "generate", "source", "archive", "external", "provider",
             "compile", "session", "parameters", "load", "lookup"}
  /\ driver \in Drivers \cup {"none"} /\ count \in 0 .. MaxNodes
  /\ params \subseteq Params /\ keep \in BOOLEAN /\ infos \subseteq 1 .. count
  /\ files \in [FileNames -> {"absent", "empty", "written"}]
  /\ inner \subseteq Objects /\ locals \subseteq Objects
  /\ owns \subseteq Objects \X Objects
  /\ pc = "parameters" => "provider" \in locals
  /\ inner # {} => pc \in BuildPhases

\* What the parameters of the graph are read from.
Sources == (IF "memory" \in params THEN {"irpaHandle"} ELSE {})
           \cup (IF "external" \in params THEN {"extHandle"} ELSE {})

\* "The session retains the module, which retains the provider, which retains
\* the index": from the loading of the program on, and for as long as the node
\* compute info lives, the session alone keeps what every parameter is read
\* from, the archive file included, whose name is gone by then.
SessionResolvesParameters ==
  infos # {} \/ pc \in {"load", "lookup"} => Sources \subseteq Reached({"session"}, owns)

\* "ORT does not guarantee that initializer tensor data remains valid beyond the
\* Compile() call": nothing that outlives BuildParameterArchive points to it.
NoBorrowedData == "hostHandle" \in Alive => pc \in BuildPhases

\* What had not been written yet when a call failed there.
MlirMissing == {"arguments", "generate"}
IrpaMissing == MlirMissing \cup {"source", "archive"}
VmfbMissing == IrpaMissing \cup {"external", "provider", "compile"}

\* Between calls no temporary file is left, however the last call ended; with
\* save_intermediates ("mark files to be kept for debugging") each file is there
\* that a phase of the call wrote before the one that failed.
FilesCleanedOrKept ==
  pc = "idle" =>
    /\ ~keep => \A f \in FileNames : files[f] = "absent"
    /\ keep /\ failedAt \notin MlirMissing => files["mlir"] = "written"
    /\ keep /\ failedAt \notin IrpaMissing /\ "memory" \in params =>
         files["irpa"] = "written"
    /\ keep /\ failedAt \notin VmfbMissing => files["vmfb"] = "written"

\* Every graph that ORT asked to have compiled has a compute info afterwards, for
\* its nodes have no other kernel: Compile makes one for the first graph only, so
\* it relies on what GetCapability claimed.
EveryGraphHasInfo == infos # {} => infos = 1 .. count

\* The program that a session is to load was compiled for the kind of device that
\* the session runs on, and the assertion "Unsupported backend, should have been
\* caught earlier" is never reached.
FlagsFor ==
  [vulkan |-> {"device=vulkan"}, cuda |-> {"device=cuda", "cuda-target"},
   hip |-> {"device=hip", "hip-target"}]

ProgramFitsDevice ==
  infos # {} \/ pc \in {"session", "parameters", "load", "lookup"} =>
    program = IF driver \in DOMAIN FlagsFor THEN FlagsFor[driver]
              ELSE {"device=local", "local-backend=llvm-cpu"}
===============================================================================
