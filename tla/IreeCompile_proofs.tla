-------------------------- MODULE IreeCompile_proofs --------------------------
(***************************************************************************)
(* Proofs about IreeCompile: its invariants hold for graphs of any size.     *)
(***************************************************************************)
EXTENDS IreeCompile, TLAPS

-------------------------------------------------------------------------------
(* The inductive invariant.                                                  *)

Absent == [f \in FileNames |-> "absent"]

\* Phases in which the archive is done, and in which the session has it.
Built == {"compile", "session", "parameters", "load", "lookup"}
Loading == {"load", "lookup"}
Compiled == {"session", "parameters", "load", "lookup"}

\* The EP and what Compile was asked for.
EpInv ==
  /\ count \in {0, 1}
  /\ driver = "none" => pc = "idle" /\ infos = {} /\ failedAt = "arguments"
  /\ driver # "none" => backend = BackendOf(driver) /\ backend # "none"
  /\ pc # "idle" => count = 1 /\ infos = {} /\ failedAt = "none"
  /\ infos # {} => infos = {1} /\ count = 1

\* Who holds what: only the source index holds ORT's data, and the locals of
\* Compile hold the provider when there are parameters.
HoldInv ==
  /\ inner \subseteq {"source_index", "target_index"}
  /\ locals \subseteq {"target_index", "provider", "session"}
  /\ \A r \in owns : r[2] = "hostHandle" => r[1] = "source_index"
  /\ pc \notin BuildPhases => \A r \in owns : r[1] # "source_index"
  /\ params # {} /\ pc \in Built => "provider" \in locals

\* The chain from the session to what the parameters are read from.
ChainInv ==
  /\ pc \in {"external", "provider"} /\ "memory" \in params =>
       <<"target_index", "irpaHandle">> \in owns
  /\ pc = "provider" /\ "external" \in params =>
       <<"target_index", "extHandle">> \in owns
  /\ pc \in Built \/ infos # {} =>
       /\ params # {} => <<"provider", "target_index">> \in owns
       /\ \A s \in Sources : <<"target_index", s>> \in owns
  /\ (pc \in Loading \/ infos # {}) /\ params # {} =>
       /\ <<"session", "parameters_module">> \in owns
       /\ <<"parameters_module", "provider">> \in owns

\* The files of the phases that are done.
FileInv ==
  /\ driver = "none" => files = Absent
  /\ pc = "idle" /\ ~keep => files = Absent
  /\ pc \notin {"idle", "generate"} => files["mlir"] = "written"
  /\ pc \in Compiled => files["vmfb"] = "written"
  /\ pc \in {"external", "provider"} \cup Built /\ "memory" \in params =>
       files["irpa"] = "written"
  /\ pc = "idle" /\ keep /\ failedAt \notin MlirMissing => files["mlir"] = "written"
  /\ pc = "idle" /\ keep /\ failedAt \notin IrpaMissing /\ "memory" \in params =>
       files["irpa"] = "written"
  /\ pc = "idle" /\ keep /\ failedAt \notin VmfbMissing => files["vmfb"] = "written"

ProgramInv == infos # {} \/ pc \in Compiled => program = GenerateCompileFlags

IInv == TypeOK /\ EpInv /\ HoldInv /\ ChainInv /\ FileInv /\ ProgramInv

-------------------------------------------------------------------------------
(* What is reached.                                                          *)

\* A chain of up to four owners is followed to its end.
LEMMA ChainReached ==
  ASSUME NEW R, NEW s,
         <<"session", "parameters_module">> \in R,
         <<"parameters_module", "provider">> \in R,
         <<"provider", "target_index">> \in R, <<"target_index", s>> \in R
  PROVE  {"session", "parameters_module", "provider", "target_index", s}
           \subseteq Reached({"session"}, R)
<1> DEFINE A == Holders({"session"}, R)
           B == Holders(A, R)
           C == Holders(B, R)
           D == Holders(C, R)
<1>1. {"session", "parameters_module"} \subseteq A  BY DEF Holders
<1>2. A \cup {"provider"} \subseteq B
  <2> HIDE DEF A
  <2> QED BY <1>1 DEF Holders
<1>3. B \cup {"target_index"} \subseteq C
  <2>1. "provider" \in B  BY <1>2
  <2> HIDE DEF B
  <2> QED BY <2>1 DEF Holders
<1>4. C \cup {s} \subseteq D
  <2>1. "target_index" \in C  BY <1>3
  <2> HIDE DEF C
  <2> QED BY <2>1 DEF Holders
<1>5. D = Reached({"session"}, R)  BY DEF Reached
<1> QED
  <2> HIDE DEF A, B, C, D
  <2> QED BY <1>1, <1>2, <1>3, <1>4, <1>5

\* What no root is and no reference leads to is not reached.
LEMMA NotReached ==
  ASSUME NEW S, NEW R, NEW x, x \notin S, \A r \in R : r[2] # x
  PROVE  x \notin Reached(S, R)
<1>1. \A T : x \notin T => x \notin Holders(T, R)  BY DEF Holders
<1>2. x \notin Holders(S, R)  BY <1>1
<1>3. x \notin Holders(Holders(S, R), R)  BY <1>1, <1>2
<1>4. x \notin Holders(Holders(Holders(S, R), R), R)  BY <1>1, <1>3
<1> QED BY <1>1, <1>4 DEF Reached

-------------------------------------------------------------------------------
(* The invariant holds at first and is kept by every step.                   *)

\* At first nothing is held and nothing is on disk.
LEMMA InitIInv == Init => IInv
<1> SUFFICES ASSUME Init PROVE IInv  OBVIOUS
<1> USE DEF Init
<1>1. TypeOK
  <2>1. 0 \in 0 .. MaxNodes  BY MaxNodesAssumption
  <2>2. files \in [FileNames -> {"absent", "empty", "written"}]  BY DEF FileNames
  <2> QED BY <2>1, <2>2 DEF TypeOK
<1>2. EpInv  BY DEF EpInv
<1>3. HoldInv  BY DEF HoldInv, BuildPhases, Built
<1>4. ChainInv  BY DEF ChainInv, Built, Loading, Sources
<1>5. FileInv  BY DEF FileInv, Built, Compiled, Absent, FileNames, MlirMissing,
         IrpaMissing, VmfbMissing
<1>6. ProgramInv  BY DEF ProgramInv, Compiled
<1> QED BY <1>1, <1>2, <1>3, <1>4, <1>5, <1>6 DEF IInv

\* Every step keeps the types.
LEMMA TypeOKStep == IInv /\ [Next]_vars => TypeOK'
<1> SUFFICES ASSUME IInv, [Next]_vars PROVE TypeOK'  OBVIOUS
<1> USE DEF IInv, TypeOK, EpInv, HoldInv, epVars, compileVars
<1>1. ASSUME NEW d \in Drivers, NEW save \in BOOLEAN,
             CreateEp(d, save) PROVE TypeOK'
  BY <1>1 DEF CreateEp
<1>2. ASSUME ReleaseEp PROVE TypeOK'
  <2> USE <1>2 DEF ReleaseEp
  <2>1. count' \in 0 .. MaxNodes  BY MaxNodesAssumption
  <2>2. files' \in [FileNames -> {"absent", "empty", "written"}]  OBVIOUS
  <2> QED BY <2>1, <2>2 DEF BuildPhases
<1>3. ASSUME NEW nodes \in 0 .. MaxNodes, GetCapability(nodes) PROVE TypeOK'
  BY <1>3, MaxNodesAssumption DEF GetCapability
<1>4. ASSUME NEW P \in SUBSET Params, NEW made \in SUBSET FileNames,
             CompileImpl(P, made) PROVE TypeOK'
  BY <1>4 DEF CompileImpl, BuildPhases
<1>5. ASSUME Fail PROVE TypeOK'
  BY <1>5 DEF Fail, Remaining
<1>6. ASSUME WriteMlir PROVE TypeOK'
  BY <1>6 DEF WriteMlir, BuildPhases
<1>7. ASSUME BuildSourceIndex PROVE TypeOK'
  BY <1>7 DEF BuildSourceIndex, Objects, BuildPhases
<1>8. ASSUME BuildArchive PROVE TypeOK'
  BY <1>8 DEF BuildArchive, Objects, BuildPhases
<1>9. ASSUME AddExternal PROVE TypeOK'
  BY <1>9 DEF AddExternal, Objects, BuildPhases
<1>10. ASSUME CreateProvider PROVE TypeOK'
  BY <1>10 DEF CreateProvider, Objects
<1>11. ASSUME CompileToVmfb PROVE TypeOK'
  BY <1>11 DEF CompileToVmfb, BuildPhases
<1>12. ASSUME CreateSession PROVE TypeOK'
  BY <1>12 DEF CreateSession, Objects, BuildPhases
<1>13. ASSUME RegisterParameters PROVE TypeOK'
  BY <1>13 DEF RegisterParameters, Objects, BuildPhases
<1>14. ASSUME LoadBytecode PROVE TypeOK'
  BY <1>14 DEF LoadBytecode, Objects, BuildPhases
<1>15. ASSUME Finish PROVE TypeOK'
  BY <1>15 DEF Finish, Remaining
<1>16. ASSUME ReleaseNodeComputeInfos PROVE TypeOK'
  BY <1>16 DEF ReleaseNodeComputeInfos
<1>17. ASSUME UNCHANGED vars PROVE TypeOK'
  BY <1>17 DEF vars
<1> QED BY <1>1, <1>2, <1>3, <1>4, <1>5, <1>6, <1>7, <1>8, <1>9, <1>10, <1>11,
       <1>12, <1>13, <1>14, <1>15, <1>16, <1>17 DEF Next, Phase

\* No step changes the device, or runs without a graph of one node.
LEMMA EpInvStep == IInv /\ [Next]_vars => EpInv'
<1> SUFFICES ASSUME IInv, [Next]_vars PROVE EpInv'  OBVIOUS
<1> USE DEF IInv, TypeOK, EpInv, epVars, compileVars
<1>1. ASSUME NEW d \in Drivers, NEW save \in BOOLEAN,
             CreateEp(d, save) PROVE EpInv'
  BY <1>1 DEF CreateEp
<1>2. ASSUME ReleaseEp PROVE EpInv'
  BY <1>2 DEF ReleaseEp
<1>3. ASSUME NEW nodes \in 0 .. MaxNodes, GetCapability(nodes) PROVE EpInv'
  BY <1>3 DEF GetCapability
<1>4. ASSUME NEW P \in SUBSET Params, NEW made \in SUBSET FileNames,
             CompileImpl(P, made) PROVE EpInv'
  BY <1>4 DEF CompileImpl
<1>5. ASSUME Fail PROVE EpInv'
  BY <1>5 DEF Fail
<1>6. ASSUME WriteMlir PROVE EpInv'
  BY <1>6 DEF WriteMlir
<1>7. ASSUME BuildSourceIndex PROVE EpInv'
  BY <1>7 DEF BuildSourceIndex
<1>8. ASSUME BuildArchive PROVE EpInv'
  BY <1>8 DEF BuildArchive
<1>9. ASSUME AddExternal PROVE EpInv'
  BY <1>9 DEF AddExternal
<1>10. ASSUME CreateProvider PROVE EpInv'
  BY <1>10 DEF CreateProvider
<1>11. ASSUME CompileToVmfb PROVE EpInv'
  BY <1>11 DEF CompileToVmfb
<1>12. ASSUME CreateSession PROVE EpInv'
  BY <1>12 DEF CreateSession
<1>13. ASSUME RegisterParameters PROVE EpInv'
  BY <1>13 DEF RegisterParameters
<1>14. ASSUME LoadBytecode PROVE EpInv'
  BY <1>14 DEF LoadBytecode
<1>15. ASSUME Finish PROVE EpInv'
  BY <1>15 DEF Finish
<1>16. ASSUME ReleaseNodeComputeInfos PROVE EpInv'
  BY <1>16 DEF ReleaseNodeComputeInfos
<1>17. ASSUME UNCHANGED vars PROVE EpInv'
  BY <1>17 DEF vars
<1> QED BY <1>1, <1>2, <1>3, <1>4, <1>5, <1>6, <1>7, <1>8, <1>9, <1>10, <1>11,
       <1>12, <1>13, <1>14, <1>15, <1>16, <1>17 DEF Next, Phase

\* The source index goes before the archive is used, the provider stays.
LEMMA HoldInvStep == IInv /\ [Next]_vars => HoldInv'
<1> SUFFICES ASSUME IInv, [Next]_vars PROVE HoldInv'  OBVIOUS
<1> USE DEF IInv, TypeOK, EpInv, HoldInv, epVars, compileVars, Built, BuildPhases
<1>1. ASSUME NEW d \in Drivers, NEW save \in BOOLEAN,
             CreateEp(d, save) PROVE HoldInv'
  BY <1>1 DEF CreateEp
<1>2. ASSUME ReleaseEp PROVE HoldInv'
  BY <1>2 DEF ReleaseEp
<1>3. ASSUME NEW nodes \in 0 .. MaxNodes, GetCapability(nodes) PROVE HoldInv'
  BY <1>3 DEF GetCapability
<1>4. ASSUME NEW P \in SUBSET Params, NEW made \in SUBSET FileNames,
             CompileImpl(P, made) PROVE HoldInv'
  BY <1>4 DEF CompileImpl
<1>5. ASSUME Fail PROVE HoldInv'
  BY <1>5 DEF Fail
<1>6. ASSUME WriteMlir PROVE HoldInv'
  BY <1>6 DEF WriteMlir
<1>7. ASSUME BuildSourceIndex PROVE HoldInv'
  BY <1>7 DEF BuildSourceIndex
<1>8. ASSUME BuildArchive PROVE HoldInv'
  BY <1>8 DEF BuildArchive
<1>9. ASSUME AddExternal PROVE HoldInv'
  BY <1>9 DEF AddExternal
<1>10. ASSUME CreateProvider PROVE HoldInv'
  BY <1>10 DEF CreateProvider
<1>11. ASSUME CompileToVmfb PROVE HoldInv'
  BY <1>11 DEF CompileToVmfb
<1>12. ASSUME CreateSession PROVE HoldInv'
  BY <1>12 DEF CreateSession
<1>13. ASSUME RegisterParameters PROVE HoldInv'
  BY <1>13 DEF RegisterParameters
<1>14. ASSUME LoadBytecode PROVE HoldInv'
  BY <1>14 DEF LoadBytecode
<1>15. ASSUME Finish PROVE HoldInv'
  BY <1>15 DEF Finish
<1>16. ASSUME ReleaseNodeComputeInfos PROVE HoldInv'
  BY <1>16 DEF ReleaseNodeComputeInfos
<1>17. ASSUME UNCHANGED vars PROVE HoldInv'
  BY <1>17 DEF vars
<1> QED BY <1>1, <1>2, <1>3, <1>4, <1>5, <1>6, <1>7, <1>8, <1>9, <1>10, <1>11,
       <1>12, <1>13, <1>14, <1>15, <1>16, <1>17 DEF Next, Phase

\* Every link of the chain is made in its phase and kept until the release:
\* Finish drops only what the session does not reach.
LEMMA ChainInvStep == IInv /\ [Next]_vars => ChainInv'
<1> SUFFICES ASSUME IInv, [Next]_vars PROVE ChainInv'  OBVIOUS
<1> USE DEF IInv, TypeOK, EpInv, HoldInv, ChainInv, Sources, epVars,
            compileVars, Built, Loading
<1>1. ASSUME NEW d \in Drivers, NEW save \in BOOLEAN,
             CreateEp(d, save) PROVE ChainInv'
  BY <1>1 DEF CreateEp
<1>2. ASSUME ReleaseEp PROVE ChainInv'
  BY <1>2 DEF ReleaseEp
<1>3. ASSUME NEW nodes \in 0 .. MaxNodes, GetCapability(nodes) PROVE ChainInv'
  BY <1>3 DEF GetCapability
<1>4. ASSUME NEW P \in SUBSET Params, NEW made \in SUBSET FileNames,
             CompileImpl(P, made) PROVE ChainInv'
  BY <1>4 DEF CompileImpl
<1>5. ASSUME Fail PROVE ChainInv'
  BY <1>5 DEF Fail
<1>6. ASSUME WriteMlir PROVE ChainInv'
  BY <1>6 DEF WriteMlir
<1>7. ASSUME BuildSourceIndex PROVE ChainInv'
  BY <1>7 DEF BuildSourceIndex
<1>8. ASSUME BuildArchive PROVE ChainInv'
  BY <1>8 DEF BuildArchive
<1>9. ASSUME AddExternal PROVE ChainInv'
  BY <1>9 DEF AddExternal
<1>10. ASSUME CreateProvider PROVE ChainInv'
  BY <1>10 DEF CreateProvider
<1>11. ASSUME CompileToVmfb PROVE ChainInv'
  BY <1>11 DEF CompileToVmfb
<1>12. ASSUME CreateSession PROVE ChainInv'
  BY <1>12 DEF CreateSession
<1>13. ASSUME RegisterParameters PROVE ChainInv'
  BY <1>13 DEF RegisterParameters
<1>14. ASSUME LoadBytecode PROVE ChainInv'
  BY <1>14 DEF LoadBytecode
<1>15. ASSUME Finish PROVE ChainInv'
  <2> USE <1>15 DEF Finish, Params
  <2> DEFINE R == Reached({"session"}, owns)
  <2>1. owns' = {r \in owns : r[1] \in R}  OBVIOUS
  <2>2. \A s \in Sources :
          {"session", "parameters_module", "provider", "target_index"} \subseteq R
    BY ChainReached
  <2>3. params # {} => Sources # {}  OBVIOUS
  <2> HIDE DEF R
  <2> QED BY <2>1, <2>2, <2>3
<1>16. ASSUME ReleaseNodeComputeInfos PROVE ChainInv'
  BY <1>16 DEF ReleaseNodeComputeInfos
<1>17. ASSUME UNCHANGED vars PROVE ChainInv'
  BY <1>17 DEF vars, Sources
<1> QED BY <1>1, <1>2, <1>3, <1>4, <1>5, <1>6, <1>7, <1>8, <1>9, <1>10, <1>11,
       <1>12, <1>13, <1>14, <1>15, <1>16, <1>17 DEF Next, Phase

\* A phase passed leaves its file written, and the end removes all or none.
LEMMA FileInvStep == IInv /\ [Next]_vars => FileInv'
<1> SUFFICES ASSUME IInv, [Next]_vars PROVE FileInv'  OBVIOUS
<1> USE DEF IInv, TypeOK, EpInv, FileInv, epVars, compileVars, Built,
            Compiled, Absent, FileNames, MlirMissing, IrpaMissing, VmfbMissing
<1>1. ASSUME NEW d \in Drivers, NEW save \in BOOLEAN,
             CreateEp(d, save) PROVE FileInv'
  BY <1>1 DEF CreateEp
<1>2. ASSUME ReleaseEp PROVE FileInv'
  BY <1>2 DEF ReleaseEp
<1>3. ASSUME NEW nodes \in 0 .. MaxNodes, GetCapability(nodes) PROVE FileInv'
  BY <1>3 DEF GetCapability
<1>4. ASSUME NEW P \in SUBSET Params, NEW made \in SUBSET FileNames,
             CompileImpl(P, made) PROVE FileInv'
  BY <1>4 DEF CompileImpl
<1>5. ASSUME Fail PROVE FileInv'
  BY <1>5 DEF Fail, Remaining
<1>6. ASSUME WriteMlir PROVE FileInv'
  BY <1>6 DEF WriteMlir
<1>7. ASSUME BuildSourceIndex PROVE FileInv'
  BY <1>7 DEF BuildSourceIndex
<1>8. ASSUME BuildArchive PROVE FileInv'
  BY <1>8 DEF BuildArchive
<1>9. ASSUME AddExternal PROVE FileInv'
  BY <1>9 DEF AddExternal
<1>10. ASSUME CreateProvider PROVE FileInv'
  BY <1>10 DEF CreateProvider
<1>11. ASSUME CompileToVmfb PROVE FileInv'
  BY <1>11 DEF CompileToVmfb
<1>12. ASSUME CreateSession PROVE FileInv'
  BY <1>12 DEF CreateSession
<1>13. ASSUME RegisterParameters PROVE FileInv'
  BY <1>13 DEF RegisterParameters
<1>14. ASSUME LoadBytecode PROVE FileInv'
  BY <1>14 DEF LoadBytecode
<1>15. ASSUME Finish PROVE FileInv'
  BY <1>15 DEF Finish, Remaining
<1>16. ASSUME ReleaseNodeComputeInfos PROVE FileInv'
  BY <1>16 DEF ReleaseNodeComputeInfos
<1>17. ASSUME UNCHANGED vars PROVE FileInv'
  BY <1>17 DEF vars
<1> QED BY <1>1, <1>2, <1>3, <1>4, <1>5, <1>6, <1>7, <1>8, <1>9, <1>10, <1>11,
       <1>12, <1>13, <1>14, <1>15, <1>16, <1>17 DEF Next, Phase

\* The program is compiled with the flags of the EP's device, which stay.
LEMMA ProgramInvStep == IInv /\ [Next]_vars => ProgramInv'
<1> SUFFICES ASSUME IInv, [Next]_vars PROVE ProgramInv'  OBVIOUS
<1> USE DEF IInv, TypeOK, EpInv, ProgramInv, GenerateCompileFlags, epVars,
            compileVars, Compiled
<1>1. ASSUME NEW d \in Drivers, NEW save \in BOOLEAN,
             CreateEp(d, save) PROVE ProgramInv'
  BY <1>1 DEF CreateEp
<1>2. ASSUME ReleaseEp PROVE ProgramInv'
  BY <1>2 DEF ReleaseEp
<1>3. ASSUME NEW nodes \in 0 .. MaxNodes, GetCapability(nodes) PROVE ProgramInv'
  BY <1>3 DEF GetCapability
<1>4. ASSUME NEW P \in SUBSET Params, NEW made \in SUBSET FileNames,
             CompileImpl(P, made) PROVE ProgramInv'
  BY <1>4 DEF CompileImpl
<1>5. ASSUME Fail PROVE ProgramInv'
  BY <1>5 DEF Fail
<1>6. ASSUME WriteMlir PROVE ProgramInv'
  BY <1>6 DEF WriteMlir
<1>7. ASSUME BuildSourceIndex PROVE ProgramInv'
  BY <1>7 DEF BuildSourceIndex
<1>8. ASSUME BuildArchive PROVE ProgramInv'
  BY <1>8 DEF BuildArchive
<1>9. ASSUME AddExternal PROVE ProgramInv'
  BY <1>9 DEF AddExternal
<1>10. ASSUME CreateProvider PROVE ProgramInv'
  BY <1>10 DEF CreateProvider
<1>11. ASSUME CompileToVmfb PROVE ProgramInv'
  BY <1>11 DEF CompileToVmfb
<1>12. ASSUME CreateSession PROVE ProgramInv'
  BY <1>12 DEF CreateSession
<1>13. ASSUME RegisterParameters PROVE ProgramInv'
  BY <1>13 DEF RegisterParameters
<1>14. ASSUME LoadBytecode PROVE ProgramInv'
  BY <1>14 DEF LoadBytecode
<1>15. ASSUME Finish PROVE ProgramInv'
  BY <1>15 DEF Finish
<1>16. ASSUME ReleaseNodeComputeInfos PROVE ProgramInv'
  BY <1>16 DEF ReleaseNodeComputeInfos
<1>17. ASSUME UNCHANGED vars PROVE ProgramInv'
  BY <1>17 DEF vars
<1> QED BY <1>1, <1>2, <1>3, <1>4, <1>5, <1>6, <1>7, <1>8, <1>9, <1>10, <1>11,
       <1>12, <1>13, <1>14, <1>15, <1>16, <1>17 DEF Next, Phase

-------------------------------------------------------------------------------
(* The theorems.                                                             *)

\* The strengthened invariant holds in every reachable state: what each phase has
\* made, who holds it and which files it has written.
THEOREM Inductive == Spec => []IInv
<1>1. IInv /\ [Next]_vars => IInv'
  BY TypeOKStep, EpInvStep, HoldInvStep, ChainInvStep, FileInvStep, ProgramInvStep
     DEF IInv
<1> QED BY <1>1, InitIInv, PTL DEF Spec

\* Every variable keeps its type, for graphs of any number of nodes, and a phase
\* finds what it assumes.
THEOREM TypeCorrect == Spec => []TypeOK
<1>1. IInv => TypeOK  BY DEF IInv
<1> QED BY <1>1, Inductive, PTL

\* The session alone keeps everything that the program's parameters are read from.
THEOREM SessionResolves == Spec => []SessionResolvesParameters
<1>1. IInv => SessionResolvesParameters
  <2> SUFFICES ASSUME IInv, infos # {} \/ pc \in Loading, NEW s \in Sources
               PROVE  s \in Reached({"session"}, owns)
    BY DEF SessionResolvesParameters, Loading
  <2>1. params # {}  BY DEF Sources
  <2>2. /\ <<"provider", "target_index">> \in owns
        /\ <<"target_index", s>> \in owns
        /\ <<"session", "parameters_module">> \in owns
        /\ <<"parameters_module", "provider">> \in owns
    BY <2>1 DEF IInv, ChainInv, Built, Loading
  <2> QED BY <2>2, ChainReached
<1> QED BY <1>1, Inductive, PTL

\* No live object points to the tensor data of ORT once the archive is built.
THEOREM NothingBorrowed == Spec => []NoBorrowedData
<1>1. IInv => NoBorrowedData
  <2> SUFFICES ASSUME IInv, pc \notin BuildPhases PROVE "hostHandle" \notin Alive
    BY DEF NoBorrowedData
  <2>1. \A r \in owns : r[2] # "hostHandle"  BY DEF IInv, HoldInv
  <2>2. "hostHandle" \notin Roots  BY DEF IInv, HoldInv, Roots
  <2> QED BY <2>1, <2>2, NotReached DEF Alive
<1> QED BY <1>1, Inductive, PTL

\* Between calls the temporary files are gone, or kept as configured.
THEOREM FilesRemovedOrKept == Spec => []FilesCleanedOrKept
<1>1. IInv => FilesCleanedOrKept
  BY DEF IInv, FileInv, FilesCleanedOrKept, Absent, FileNames
<1> QED BY <1>1, Inductive, PTL

\* Each graph that ORT hands to Compile has a compute info when Compile succeeds.
THEOREM GraphsHaveInfos == Spec => []EveryGraphHasInfo
<1>1. IInv => EveryGraphHasInfo
  <2> SUFFICES ASSUME IInv, infos # {} PROVE infos = 1 .. count
    BY DEF EveryGraphHasInfo
  <2>1. infos = {1} /\ count = 1  BY DEF IInv, EpInv
  <2> QED BY <2>1
<1> QED BY <1>1, Inductive, PTL

\* A session's program was compiled for the session's kind of device.
THEOREM ProgramsFit == Spec => []ProgramFitsDevice
<1>1. IInv => ProgramFitsDevice
  <2> SUFFICES ASSUME IInv, infos # {} \/ pc \in Compiled PROVE ProgramFitsDevice
    BY DEF ProgramFitsDevice, Compiled
  <2>1. program = GenerateCompileFlags  BY DEF IInv, ProgramInv
  <2>2. driver # "none"  BY DEF IInv, EpInv, Compiled
  <2>3. driver \in Drivers /\ backend = BackendOf(driver) /\ backend # "none"
    BY <2>2 DEF IInv, TypeOK, EpInv
  <2> QED BY <2>1, <2>3 DEF ProgramFitsDevice, GenerateCompileFlags, BackendOf,
       FlagsFor, Drivers
<1> QED BY <1>1, Inductive, PTL
===============================================================================
