-------------------------------- MODULE MlirGen --------------------------------
(***************************************************************************)
(* GenerateMlir: the SSA names, operands and parameter keys of the module it *)
(* emits for an ONNX graph, and the parameter archive it builds for the      *)
(* large initializers.  Types, attributes and layout are left out.           *)
(*                                                                         *)
(* A name is a sequence of characters (or of longer tokens that the code      *)
(* treats as letters).  Each emitted id carries, as history, the ONNX name it *)
(* stands for.  The order of the operands of one operation is left out.       *)
(***************************************************************************)
EXTENDS Naturals, Sequences, Functions

CONSTANT Graphs   \* the graphs ORT hands to Compile

Letters == {"a", "b", "main", "__raw_", "_unnamed"}
Digits == {"1"}

\* An ONNX graph has a name, inputs, initializers (small, large, or external:
\* large and in a file of the model), nodes with ins and outs, and outputs.  An
\* empty name in a node is an omitted optional operand or result.
Omitted == << >>
Given(names) == Range(names) \ {Omitted}

InitNamesOf(g) == {init.name : init \in Range(g.inits)}
DefinedBefore(g, k) ==
  Range(g.inputs) \cup InitNamesOf(g) \cup UNION {Given(g.nodes[j].outs) : j \in 1 .. (k - 1)}

IsSequence(s) == s \in Seq(Range(s))
DefinedOnce(names) ==
  \A j, k \in DOMAIN names : names[j] = names[k] /\ names[j] # Omitted => j = k

\* ORT checks a graph before it hands it out: names of initializers are distinct,
\* each other value is defined once, and nodes come after what they use.
ValidGraph(g) ==
  /\ IsSequence(g.inputs) /\ IsSequence(g.inits)
  /\ IsSequence(g.nodes) /\ IsSequence(g.outputs) /\ DefinedOnce(g.inputs)
  /\ \A j, k \in DOMAIN g.inits : g.inits[j].name = g.inits[k].name => j = k
  /\ \A k \in DOMAIN g.nodes :
       /\ Given(g.nodes[k].ins) \subseteq DefinedBefore(g, k)
       /\ Given(g.nodes[k].outs) \cap DefinedBefore(g, k) = {}
       /\ DefinedOnce(g.nodes[k].outs)
  /\ Range(g.outputs) \subseteq DefinedBefore(g, Len(g.nodes) + 1)

ASSUME GraphsAssumption == \A g \in Graphs : ValidGraph(g)

VARIABLES
  graph, pc, i,             \* the graph, the loop and its index
  module,                   \* emitted operations: what they define and use
  parameter_initializers_,  \* large initializers: key and index
  source, target,           \* entries of the two parameter indices
  provider,                 \* TRUE once the provider is handed out
  skipped                   \* names of the initializers left out

vars == <<graph, pc, i, module, parameter_initializers_, source, target,
          provider, skipped>>

Ident(c) == IF c \in Letters \cup Digits \cup {"_", "$"} THEN c ELSE "_"

\* SanitizeName of a build without assertions.
SanitizeName(n) ==
  LET r == [k \in DOMAIN n |-> Ident(n[k])] IN
  IF n = << >> THEN <<"_unnamed">>
  ELSE IF r[1] \in Digits THEN <<"_">> \o r ELSE r

\* The ids of a value and of the constant an initializer is cast from.
Ssa(n) == [id |-> SanitizeName(n), kind |-> "value", name |-> n]
Raw(n) == [id |-> <<"__raw_">> \o SanitizeName(n), kind |-> "constant", name |-> n]

Init ==
  /\ graph \in Graphs
  /\ pc = "header" /\ i = 1
  /\ module = << >> /\ parameter_initializers_ = << >>
  /\ source = << >> /\ target = << >> /\ provider = FALSE
  /\ skipped = {}

archiveVars == <<source, target, provider>>

NoKey == << >>
Op(defs, uses, key) == [defs |-> defs, uses |-> uses, key |-> key]
Emit(defs, uses) == module' = Append(module, Op(defs, uses, NoKey))

\* An initializer is a constant and a cast to the type the nodes use.
EmitConstant(n, key) ==
  module' = module \o <<Op({Raw(n)}, {}, key), Op({Ssa(n)}, {Raw(n)}, NoKey)>>

-------------------------------------------------------------------------------
(* MlirGenerator::Generate.                                                  *)

InitNames == InitNamesOf(graph)

\* CollectMetadata and EmitModuleHeader: the arguments are the graph's inputs
\* that are not initializers.
EmitModuleHeader ==
  /\ pc = "header"
  /\ Emit({Ssa(n) : n \in Range(graph.inputs) \ InitNames}, {})
  /\ pc' = "inits" /\ i' = 1
  /\ UNCHANGED <<graph, parameter_initializers_, archiveVars, skipped>>

\* Mutant: an initializer is written although its data could not be read.
EmitInline_IgnoresStatus(ok) ==
  LET n == graph.inits[i].name IN
  /\ pc = "inits" /\ i <= Len(graph.inits) /\ graph.inits[i].size = "small"
  /\ EmitConstant(n, NoKey)
  /\ skipped' = IF ok THEN skipped ELSE skipped \cup {n}
  /\ i' = i + 1
  /\ UNCHANGED <<graph, pc, parameter_initializers_, archiveVars>>

\* Mutant: a value whose id is defined already is not emitted again.
EmitInline_OncePerId(ok) ==
  LET n == graph.inits[i].name
      again == \E k \in DOMAIN module : \E d \in module[k].defs : d.id = SanitizeName(n)
  IN /\ pc = "inits" /\ i <= Len(graph.inits) /\ graph.inits[i].size = "small"
     /\ IF ok /\ ~again THEN EmitConstant(n, NoKey) ELSE UNCHANGED module
     /\ skipped' = IF ok THEN skipped ELSE skipped \cup {n}
     /\ i' = i + 1
     /\ UNCHANGED <<graph, pc, parameter_initializers_, archiveVars>>

\* A small initializer is written inline, unless its data cannot be read: then
\* it is left out without an error.
EmitInline(ok) ==
  LET n == graph.inits[i].name IN
  /\ pc = "inits" /\ i <= Len(graph.inits) /\ graph.inits[i].size = "small"
  /\ IF ok THEN EmitConstant(n, NoKey) /\ UNCHANGED skipped
           ELSE skipped' = skipped \cup {n} /\ UNCHANGED module
  /\ i' = i + 1
  /\ UNCHANGED <<graph, pc, parameter_initializers_, archiveVars>>

\* Mutant: the recorded index counts the large initializers only.
EmitParameter_OwnIndex ==
  LET n == graph.inits[i].name IN
  /\ pc = "inits" /\ i <= Len(graph.inits) /\ graph.inits[i].size # "small"
  /\ EmitConstant(n, SanitizeName(n))
  /\ parameter_initializers_' = Append(parameter_initializers_,
       [key |-> SanitizeName(n), index |-> Len(parameter_initializers_) + 1])
  /\ i' = i + 1
  /\ UNCHANGED <<graph, pc, archiveVars, skipped>>

\* Mutant: the recorded index is that of the next initializer.
EmitParameter_NextIndex ==
  LET n == graph.inits[i].name IN
  /\ pc = "inits" /\ i <= Len(graph.inits) /\ graph.inits[i].size # "small"
  /\ EmitConstant(n, SanitizeName(n))
  /\ parameter_initializers_' =
       Append(parameter_initializers_, [key |-> SanitizeName(n), index |-> i + 1])
  /\ i' = i + 1
  /\ UNCHANGED <<graph, pc, archiveVars, skipped>>

\* A large one becomes a reference to a parameter of its name.
EmitParameter ==
  LET n == graph.inits[i].name IN
  /\ pc = "inits" /\ i <= Len(graph.inits) /\ graph.inits[i].size # "small"
  /\ EmitConstant(n, SanitizeName(n))
  /\ parameter_initializers_' =
       Append(parameter_initializers_, [key |-> SanitizeName(n), index |-> i])
  /\ i' = i + 1
  /\ UNCHANGED <<graph, pc, archiveVars, skipped>>

InitializersDone ==
  /\ pc = "inits" /\ i > Len(graph.inits)
  /\ pc' = "nodes" /\ i' = 1
  /\ UNCHANGED <<graph, module, parameter_initializers_, archiveVars, skipped>>

\* EmitNode leaves omitted operands and results out of its lists.
EmitNode ==
  /\ pc = "nodes" /\ i <= Len(graph.nodes)
  /\ Emit({Ssa(n) : n \in Given(graph.nodes[i].outs)},
          {Ssa(n) : n \in Given(graph.nodes[i].ins)})
  /\ i' = i + 1
  /\ UNCHANGED <<graph, pc, parameter_initializers_, archiveVars, skipped>>

EmitReturn ==
  /\ pc = "nodes" /\ i > Len(graph.nodes)
  /\ Emit({}, {Ssa(n) : n \in Range(graph.outputs)})
  /\ pc' = IF parameter_initializers_ = << >> THEN "done" ELSE "source"
  /\ i' = 1
  /\ UNCHANGED <<graph, parameter_initializers_, archiveVars, skipped>>

-------------------------------------------------------------------------------
(* BuildParameterArchive.                                                    *)

Param == parameter_initializers_[i]
External == graph.inits[Param.index].size = "external"
Entry == [key |-> Param.key, data |-> graph.inits[Param.index].name]

\* First loop: external initializers are skipped.
AddSource ==
  /\ pc = "source" /\ i <= Len(parameter_initializers_)
  /\ source' = IF External THEN source ELSE Append(source, Entry)
  /\ i' = i + 1
  /\ UNCHANGED <<graph, pc, module, parameter_initializers_, target, provider,
                 skipped>>

\* The archive: the entries of the source index, when there are some, now read
\* from the IRPA file.
BuildArchive ==
  /\ pc = "source" /\ i > Len(parameter_initializers_)
  /\ target' = source
  /\ pc' = "external" /\ i' = 1
  /\ UNCHANGED <<graph, module, parameter_initializers_, source, provider, skipped>>

\* Second loop: only external initializers.
AddExternal ==
  /\ pc = "external" /\ i <= Len(parameter_initializers_)
  /\ target' = IF External THEN Append(target, Entry) ELSE target
  /\ i' = i + 1
  /\ UNCHANGED <<graph, pc, module, parameter_initializers_, source, provider,
                 skipped>>

CreateProvider ==
  /\ pc = "external" /\ i > Len(parameter_initializers_)
  /\ provider' = TRUE
  /\ pc' = "done" /\ i' = 1
  /\ UNCHANGED <<graph, module, parameter_initializers_, source, target, skipped>>

\* The file cannot be opened or written, or a step of BuildParameterArchive
\* fails: GenerateMlir returns an error and hands nothing out.
Fail ==
  /\ \/ pc \in {"header", "source", "external"}
     \/ pc = "nodes" /\ i > Len(graph.nodes)
  /\ pc' = "failed"
  /\ UNCHANGED <<graph, i, module, parameter_initializers_, archiveVars, skipped>>

-------------------------------------------------------------------------------

Next ==
  \/ EmitModuleHeader
  \/ \E ok \in BOOLEAN : EmitInline(ok)
  \/ EmitParameter
  \/ InitializersDone
  \/ EmitNode
  \/ EmitReturn
  \/ AddSource
  \/ BuildArchive
  \/ AddExternal
  \/ CreateProvider
  \/ Fail

Spec == Init /\ [][Next]_vars
-------------------------------------------------------------------------------
(* The function Compile looks up, and the one that is emitted.               *)

EmittedFunction == SanitizeName(graph.name)
LookedUpFunction == IF graph.name = << >> THEN <<"main">> ELSE graph.name
-------------------------------------------------------------------------------
(* Properties.                                                               *)

\* The values the module may speak of.
Names == DefinedBefore(graph, Len(graph.nodes) + 1)
Values == {Ssa(n) : n \in Names} \cup {Raw(n) : n \in InitNames}
Keys == {NoKey} \cup {SanitizeName(n) : n \in InitNames}

\* The type of the state: the module speaks of the graph's values only, and a
\* parameter's recorded index, which BuildParameterArchive uses unchecked, is one
\* of initializers_.
TypeOK ==
  LET entries == [key : Keys, data : InitNames] IN
  /\ pc \in {"header", "inits", "nodes", "source", "external", "done", "failed"}
  /\ i \in Nat \ {0} /\ provider \in BOOLEAN
  /\ module \in Seq([defs : SUBSET Values, uses : SUBSET Values, key : Keys])
  /\ parameter_initializers_ \in Seq([key : Keys, index : DOMAIN graph.inits])
  /\ source \in Seq(entries) /\ target \in Seq(entries)
  /\ skipped \subseteq InitNames

\* What iree-compile accepts: every id is defined once and before it is used.
DefsBefore(k) == UNION {module[j].defs : j \in 1 .. (k - 1)}
Meant(u, k) == {p \in DefsBefore(k) : p.id = u.id}
WellFormed ==
  /\ \A j, k \in DOMAIN module : \A p \in module[j].defs, q \in module[k].defs :
       p.id = q.id => j = k /\ p = q
  /\ \A k \in DOMAIN module : \A u \in module[k].uses : Meant(u, k) # {}

\* The names of the graph's values stay apart, also from the ids made up for
\* constants.
Apart == \A p, q \in Values : p.id = q.id => p = q

\* A graph whose names stay apart becomes a module that is accepted, whichever
\* inputs are initializers and whichever operands are omitted, unless it uses an
\* initializer that was left out because it could not be read: then the silence
\* of EmitInitializer does no harm, for the module is rejected.
PlainGraphsAccepted ==
  pc = "done" /\ Apart =>
    (WellFormed <=>
       \A k \in DOMAIN module : \A u \in module[k].uses : u.name \notin skipped)

\* Different ONNX names may be sanitized to one id.  Such a module defines an id
\* twice and is rejected: in one that is accepted every operand is the value
\* the graph says.  The one exception is an initializer that was left out
\* because it could not be read, when another value has its id.
AcceptedMeansFaithful ==
  pc = "done" /\ WellFormed =>
    \A k \in DOMAIN module : \A u \in module[k].uses :
      \/ Meant(u, k) = {u}
      \/ u.name \in skipped /\ \E p \in Values \ {u} : p.id = u.id

\* "The resulting parameter provider is registered with the IREE session so that
\* the compiled module can resolve #flow.parameter.named references at runtime":
\* each reference of an accepted module has one entry in the index handed out,
\* and the entry holds the data of the initializer the reference is for.
ParametersResolve ==
  pc = "done" /\ WellFormed =>
    \A k \in DOMAIN module : module[k].key # NoKey =>
      /\ provider
      /\ \E e \in DOMAIN target :
           /\ target[e].key = module[k].key
           /\ module[k].defs = {Raw(target[e].data)}
           /\ \A f \in DOMAIN target : target[f].key = module[k].key => f = e

\* "Function name format: module.{graph_name} (defaults to main if empty)": the
\* function Compile looks up is the one GenerateMlir emitted.
FunctionFound == pc = "done" => LookedUpFunction = EmittedFunction
===============================================================================
