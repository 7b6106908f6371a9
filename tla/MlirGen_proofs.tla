----------------------------- MODULE MlirGen_proofs -----------------------------
(***************************************************************************)
(* Proofs about MlirGen, for every set of valid graphs.                      *)
(*                                                                         *)
(* The operators on a list m of operations have the list as a parameter, so  *)
(* that what an emitted operation does to them is a lemma without primes.     *)
(***************************************************************************)
EXTENDS MlirGen, SequenceTheorems, TLAPS

-------------------------------------------------------------------------------
(* Graphs.                                                                   *)

\* The lists of a graph are sequences, and initializers differ in their names.
LEMMA GraphLists ==
  ASSUME NEW g \in Graphs
  PROVE  /\ Len(g.inits) \in Nat /\ DOMAIN g.inits = 1 .. Len(g.inits)
         /\ Len(g.nodes) \in Nat /\ DOMAIN g.nodes = 1 .. Len(g.nodes)
         /\ \A j, k \in DOMAIN g.inits : g.inits[j].name = g.inits[k].name => j = k
<1>1. ValidGraph(g)
  BY GraphsAssumption
<1>2. g.inits \in Seq(Range(g.inits)) /\ g.nodes \in Seq(Range(g.nodes))
  BY <1>1 DEF ValidGraph, IsSequence
<1>3. Len(g.inits) \in Nat /\ DOMAIN g.inits = 1 .. Len(g.inits)
  BY <1>2, LenProperties
<1>4. Len(g.nodes) \in Nat /\ DOMAIN g.nodes = 1 .. Len(g.nodes)
  BY <1>2, LenProperties
<1> QED BY <1>1, <1>3, <1>4 DEF ValidGraph

\* What a node uses is defined before it, what it defines is not, and is defined
\* before the next one.
LEMMA NodeNames ==
  ASSUME NEW g \in Graphs, NEW k \in 1 .. Len(g.nodes)
  PROVE  /\ Given(g.nodes[k].ins) \subseteq DefinedBefore(g, k)
         /\ Given(g.nodes[k].outs) \cap DefinedBefore(g, k) = {}
         /\ DefinedBefore(g, k + 1)
              = DefinedBefore(g, k) \cup Given(g.nodes[k].outs)
<1>1. k \in DOMAIN g.nodes /\ k \in Nat
  BY GraphLists
<1>2. /\ Given(g.nodes[k].ins) \subseteq DefinedBefore(g, k)
      /\ Given(g.nodes[k].outs) \cap DefinedBefore(g, k) = {}
  BY <1>1, GraphsAssumption DEF ValidGraph
<1>3. 1 .. ((k + 1) - 1) = (1 .. (k - 1)) \cup {k}
  BY <1>1
<1>4. DefinedBefore(g, k + 1) = DefinedBefore(g, k) \cup Given(g.nodes[k].outs)
  BY <1>3 DEF DefinedBefore
<1> QED BY <1>2, <1>4

\* Before the first node the inputs and the initializers are defined; what is
\* defined before a node stays defined.
LEMMA DefinedGrows ==
  ASSUME NEW g \in Graphs
  PROVE  /\ DefinedBefore(g, 1) = Range(g.inputs) \cup InitNamesOf(g)
         /\ \A k \in 1 .. (Len(g.nodes) + 1) :
              DefinedBefore(g, k) \subseteq DefinedBefore(g, Len(g.nodes) + 1)
<1>1. DefinedBefore(g, 1) = Range(g.inputs) \cup InitNamesOf(g)
  <2>1. 1 .. (1 - 1) = {}
    OBVIOUS
  <2> QED BY <2>1 DEF DefinedBefore
<1>2. ASSUME NEW k \in 1 .. (Len(g.nodes) + 1)
      PROVE  DefinedBefore(g, k) \subseteq DefinedBefore(g, Len(g.nodes) + 1)
  <2>1. Len(g.nodes) \in Nat
    BY GraphLists
  <2>2. 1 .. (k - 1) \subseteq 1 .. ((Len(g.nodes) + 1) - 1)
    BY <2>1
  <2> QED BY <2>2 DEF DefinedBefore
<1> QED BY <1>1, <1>2

\* The graph's outputs are defined by the end.
LEMMA OutputNames ==
  ASSUME NEW g \in Graphs
  PROVE  Range(g.outputs) \subseteq DefinedBefore(g, Len(g.nodes) + 1)
BY GraphsAssumption DEF ValidGraph

-------------------------------------------------------------------------------
(* Lists of operations.                                                      *)

\* DefsBefore of a list, and all that it defines.
DefsIn(m, k) == UNION {m[j].defs : j \in 1 .. (k - 1)}
AllDefs(m) == DefsIn(m, Len(m) + 1)

\* Every name dealt with has its value defined or was skipped.
Knows(m, skip, names) == \A n \in names : Ssa(n) \in AllDefs(m) \/ n \in skip

\* Only names dealt with have been defined.
Fresh(m, names) == \A p \in AllDefs(m) : p.name \in names

\* No two operations define the same value.
Once(m) ==
  \A j, k \in 1 .. Len(m) : \A p \in m[j].defs : p \in m[k].defs => j = k

\* Every operand is defined before, or was skipped.
UsesKnown(m, skip) ==
  \A k \in 1 .. Len(m) : \A u \in m[k].uses : u \in DefsIn(m, k) \/ u.name \in skip

\* Names that were skipped are dealt with and not defined.
LeftOut(m, skip, names) ==
  skip \subseteq names /\ \A p \in AllDefs(m) : p.name \notin skip

\* An operation in the list, and what precedes it, stay as they are.
LEMMA AppendOp ==
  ASSUME NEW S, NEW m \in Seq(S), NEW op \in S
  PROVE  LET r == Append(m, op) IN
         /\ r \in Seq(S) /\ Len(m) \in Nat /\ Len(r) = Len(m) + 1
         /\ \A k \in 1 .. Len(m) : r[k] = m[k]
         /\ r[Len(m) + 1] = op
         /\ \A k \in 1 .. (Len(m) + 1) : DefsIn(r, k) = DefsIn(m, k)
         /\ AllDefs(r) = AllDefs(m) \cup op.defs
<1> DEFINE r == Append(m, op)
<1>1. r \in Seq(S) /\ Len(m) \in Nat /\ Len(r) = Len(m) + 1
  BY AppendProperties, LenProperties
<1>2. \A k \in 1 .. Len(m) : r[k] = m[k]
  BY AppendProperties
<1>3. r[Len(m) + 1] = op
  BY AppendProperties
<1> HIDE DEF r
<1>4. ASSUME NEW k \in 1 .. (Len(m) + 1) PROVE DefsIn(r, k) = DefsIn(m, k)
  <2>1. \A j \in 1 .. (k - 1) : r[j] = m[j]
    BY <1>1, <1>2
  <2> QED BY <2>1 DEF DefsIn
<1>5. AllDefs(r) = AllDefs(m) \cup op.defs
  <2>1. 1 .. ((Len(r) + 1) - 1) = (1 .. ((Len(m) + 1) - 1)) \cup {Len(m) + 1}
    BY <1>1
  <2>2. \A j \in 1 .. ((Len(m) + 1) - 1) : r[j] = m[j]
    BY <1>1, <1>2
  <2> QED BY <1>3, <2>1, <2>2 DEF AllDefs, DefsIn
<1> QED BY <1>1, <1>2, <1>3, <1>4, <1>5 DEF r

\* An operation of the list defines what the list defines.
LEMMA DefsAreIn ==
  ASSUME NEW S, NEW m \in Seq(S)
  PROVE  /\ \A k \in 1 .. Len(m) : m[k].defs \subseteq AllDefs(m)
         /\ \A p \in AllDefs(m) : \E k \in 1 .. Len(m) : p \in m[k].defs
<1>1. Len(m) \in Nat
  BY LenProperties
<1>2. 1 .. ((Len(m) + 1) - 1) = 1 .. Len(m)
  BY <1>1
<1> QED BY <1>2 DEF AllDefs, DefsIn

\* An operation that defines new values only keeps Once.
LEMMA AppendOnce ==
  ASSUME NEW S, NEW m \in Seq(S), NEW op \in S, Once(m),
         op.defs \cap AllDefs(m) = {}
  PROVE  Once(Append(m, op))
<1> DEFINE r == Append(m, op)
<1>1. /\ Len(m) \in Nat /\ Len(r) = Len(m) + 1
      /\ \A k \in 1 .. Len(m) : r[k] = m[k]
      /\ r[Len(m) + 1] = op
  BY AppendOp
<1>2. \A k \in 1 .. Len(m) : m[k].defs \cap op.defs = {}
  BY DefsAreIn
<1> HIDE DEF r
<1>3. ASSUME NEW j \in 1 .. Len(r), NEW k \in 1 .. Len(r),
             NEW p \in r[j].defs, p \in r[k].defs
      PROVE  j = k
  <2>1. CASE j \in 1 .. Len(m) /\ k \in 1 .. Len(m)
    BY <1>1, <1>3, <2>1 DEF Once
  <2>2. CASE j \in 1 .. Len(m) /\ k = Len(m) + 1
    BY <1>1, <1>2, <1>3, <2>2
  <2>3. CASE j = Len(m) + 1 /\ k \in 1 .. Len(m)
    BY <1>1, <1>2, <1>3, <2>3
  <2>4. CASE j = Len(m) + 1 /\ k = Len(m) + 1
    BY <2>4
  <2>5. 1 .. Len(r) = (1 .. Len(m)) \cup {Len(m) + 1}
    BY <1>1
  <2> QED BY <2>1, <2>2, <2>3, <2>4, <2>5
<1>4. Once(r)
  BY <1>3 DEF Once
<1> QED BY <1>4 DEF r

\* An operation whose operands are known keeps UsesKnown.
LEMMA AppendUses ==
  ASSUME NEW S, NEW m \in Seq(S), NEW op \in S, NEW skip, UsesKnown(m, skip),
         \A u \in op.uses : u \in AllDefs(m) \/ u.name \in skip
  PROVE  UsesKnown(Append(m, op), skip)
<1> DEFINE r == Append(m, op)
<1>1. /\ Len(m) \in Nat /\ Len(r) = Len(m) + 1
      /\ \A k \in 1 .. Len(m) : r[k] = m[k]
      /\ r[Len(m) + 1] = op
      /\ \A k \in 1 .. (Len(m) + 1) : DefsIn(r, k) = DefsIn(m, k)
  BY AppendOp
<1> HIDE DEF r
<1>2. ASSUME NEW k \in 1 .. Len(r), NEW u \in r[k].uses
      PROVE  u \in DefsIn(r, k) \/ u.name \in skip
  <2>1. CASE k \in 1 .. Len(m)
    <3>1. r[k] = m[k] /\ DefsIn(r, k) = DefsIn(m, k)
      BY <1>1, <2>1
    <3> QED BY <1>2, <2>1, <3>1 DEF UsesKnown
  <2>2. CASE k = Len(m) + 1
    <3>1. r[k] = op /\ DefsIn(r, k) = AllDefs(m)
      BY <1>1, <2>2 DEF AllDefs
    <3> QED BY <1>2, <3>1
  <2>3. 1 .. Len(r) = (1 .. Len(m)) \cup {Len(m) + 1}
    BY <1>1
  <2> QED BY <2>1, <2>2, <2>3
<1>3. UsesKnown(r, skip)
  BY <1>2 DEF UsesKnown
<1> QED BY <1>3 DEF r

\* Two operations joined to a list are two appended.
LEMMA JoinTwo ==
  ASSUME NEW S, NEW m \in Seq(S), NEW a \in S, NEW b \in S
  PROVE  m \o <<a, b>> = Append(Append(m, a), b)
OBVIOUS

\* The five facts about a list of operations, for the names dealt with.
Sound(m, skip, names) ==
  /\ Knows(m, skip, names) /\ Fresh(m, names) /\ Once(m) /\ UsesKnown(m, skip)
  /\ LeftOut(m, skip, names)

\* An operation that defines the values of new names and uses those of old ones.
LEMMA OperationStep ==
  ASSUME NEW S, NEW m \in Seq(S), NEW op \in S, NEW skip, NEW old, NEW new,
         Sound(m, skip, old), new \cap old = {},
         op.defs = {Ssa(n) : n \in new},
         \A u \in op.uses : \E n \in old : u = Ssa(n)
  PROVE  Sound(Append(m, op), skip, old \cup new)
<1> DEFINE r == Append(m, op)
<1>1. AllDefs(r) = AllDefs(m) \cup op.defs
  BY AppendOp
<1>2. \A n \in new : Ssa(n).name = n
  BY DEF Ssa
<1>3. op.defs \cap AllDefs(m) = {}
  BY <1>2 DEF Sound, Fresh
<1>4. Once(r)
  BY <1>3, AppendOnce DEF Sound
<1>5. ASSUME NEW u \in op.uses PROVE u \in AllDefs(m) \/ u.name \in skip
  <2>1. PICK n \in old : u = Ssa(n)
    OBVIOUS
  <2>2. u.name = n
    BY <2>1 DEF Ssa
  <2> QED BY <2>1, <2>2 DEF Sound, Knows
<1>6. UsesKnown(r, skip)
  BY <1>5, AppendUses DEF Sound
<1> HIDE DEF r
<1>7. Knows(r, skip, old \cup new)
  BY <1>1 DEF Sound, Knows
<1>8. Fresh(r, old \cup new)
  BY <1>1, <1>2 DEF Sound, Fresh
<1>9. LeftOut(r, skip, old \cup new)
  BY <1>1, <1>2 DEF Sound, LeftOut
<1>10. Sound(r, skip, old \cup new)
  BY <1>4, <1>6, <1>7, <1>8, <1>9 DEF Sound
<1> QED BY <1>10 DEF r

\* A list with the two operations of an initializer.
WithConstant(m, n, key) ==
  Append(Append(m, Op({Raw(n)}, {}, key)), Op({Ssa(n)}, {Raw(n)}, NoKey))

\* What that adds to the list.
HasConstant(r, m, n, key) ==
  /\ Len(m) \in Nat /\ Len(r) = Len(m) + 2
  /\ \A k \in 1 .. Len(m) : r[k] = m[k]
  /\ r[Len(m) + 1] = Op({Raw(n)}, {}, key)
  /\ r[Len(m) + 2] = Op({Ssa(n)}, {Raw(n)}, NoKey)
  /\ AllDefs(r) = AllDefs(m) \cup {Raw(n), Ssa(n)}

\* The two operations of an initializer whose name is new.
LEMMA ConstantStep ==
  ASSUME NEW S, NEW m \in Seq(S), NEW skip, NEW old, NEW n, n \notin old, NEW key,
         Sound(m, skip, old),
         Op({Raw(n)}, {}, key) \in S, Op({Ssa(n)}, {Raw(n)}, NoKey) \in S
  PROVE  LET r == WithConstant(m, n, key) IN
         r \in Seq(S) /\ Sound(r, skip, old \cup {n}) /\ HasConstant(r, m, n, key)
<1> DEFINE a == Op({Raw(n)}, {}, key)
           b == Op({Ssa(n)}, {Raw(n)}, NoKey)
           q == Append(m, a)
           r == Append(q, b)
<1>0. /\ a.defs = {Raw(n)} /\ a.uses = {} /\ a.key = key
      /\ b.defs = {Ssa(n)} /\ b.uses = {Raw(n)} /\ b.key = NoKey
      /\ a \in S /\ b \in S
  BY DEF Op
<1>1. Raw(n).name = n /\ Ssa(n).name = n /\ Raw(n) # Ssa(n)
  BY DEF Raw, Ssa
<1> HIDE DEF a, b
<1>2. /\ q \in Seq(S) /\ Len(m) \in Nat /\ Len(q) = Len(m) + 1
      /\ \A k \in 1 .. Len(m) : q[k] = m[k]
      /\ q[Len(m) + 1] = a
      /\ AllDefs(q) = AllDefs(m) \cup {Raw(n)}
  BY <1>0, AppendOp
<1>3. Once(q)
  <2>1. a.defs \cap AllDefs(m) = {}
    BY <1>0, <1>1 DEF Sound, Fresh
  <2> QED BY <1>0, <2>1, AppendOnce DEF Sound
<1>4. UsesKnown(q, skip)
  BY <1>0, AppendUses DEF Sound
<1> HIDE DEF q
<1>5. /\ r \in Seq(S) /\ Len(q) \in Nat /\ Len(r) = Len(q) + 1
      /\ \A k \in 1 .. Len(q) : r[k] = q[k]
      /\ r[Len(q) + 1] = b
      /\ AllDefs(r) = AllDefs(q) \cup {Ssa(n)}
  BY <1>0, <1>2, AppendOp
<1>6. Once(r)
  <2>1. b.defs \cap AllDefs(q) = {}
    BY <1>0, <1>1, <1>2 DEF Sound, Fresh
  <2> QED BY <1>0, <1>2, <1>3, <2>1, AppendOnce
<1>7. UsesKnown(r, skip)
  <2>1. \A u \in b.uses : u \in AllDefs(q) \/ u.name \in skip
    BY <1>0, <1>2
  <2> QED BY <1>0, <1>2, <1>4, <2>1, AppendUses
<1> HIDE DEF r
<1>8. AllDefs(r) = AllDefs(m) \cup {Raw(n), Ssa(n)}
  BY <1>2, <1>5
<1>9. Knows(r, skip, old \cup {n})
  BY <1>8 DEF Sound, Knows
<1>10. Fresh(r, old \cup {n})
  BY <1>1, <1>8 DEF Sound, Fresh
<1>11. Sound(r, skip, old \cup {n})
  <2>1. LeftOut(r, skip, old \cup {n})
    BY <1>1, <1>8 DEF Sound, LeftOut
  <2> QED BY <1>6, <1>7, <1>9, <1>10, <2>1 DEF Sound
<1>12. Len(r) = Len(m) + 2 /\ r[Len(m) + 2] = b
  BY <1>2, <1>5
<1>13. r[Len(m) + 1] = a
  BY <1>2, <1>5
<1>14. \A k \in 1 .. Len(m) : r[k] = m[k]
  BY <1>2, <1>5
<1>15. HasConstant(r, m, n, key)
  BY <1>2, <1>8, <1>12, <1>13, <1>14 DEF a, b, HasConstant
<1> QED BY <1>5, <1>11, <1>15 DEF a, b, q, r, WithConstant

\* An initializer that is left out.
LEMMA SkipStep ==
  ASSUME NEW m, NEW skip, NEW old, NEW n, n \notin old, Sound(m, skip, old)
  PROVE  Sound(m, skip \cup {n}, old \cup {n})
BY DEF Sound, Knows, Fresh, UsesKnown, LeftOut

-------------------------------------------------------------------------------
(* Parameters and entries.                                                   *)

\* The initializer of a parameter.
InitOf(g, p) == g.inits[p.index]

\* Each parameter has the key of its initializer, whose constant is emitted, and
\* no two are of one initializer.
ParamsFit(g, m, params) ==
  /\ \A j \in 1 .. Len(params) :
       /\ params[j].index \in DOMAIN g.inits
       /\ params[j].key = SanitizeName(InitOf(g, params[j]).name)
       /\ Raw(InitOf(g, params[j]).name) \in AllDefs(m)
  /\ \A j, k \in 1 .. Len(params) : params[j].index = params[k].index => j = k

\* Each reference in the module is that of a parameter.
KeysFit(g, m, params) ==
  \A k \in 1 .. Len(m) : m[k].key # NoKey =>
    \E j \in 1 .. Len(params) :
      /\ m[k].key = params[j].key
      /\ m[k].defs = {Raw(InitOf(g, params[j]).name)}

EntryOf(g, p) == [key |-> p.key, data |-> InitOf(g, p).name]
IsExternal(g, p) == InitOf(g, p).size = "external"

\* An index has one entry for each of the parameters in J, and no others.
Exact(s, g, params, J) ==
  /\ Range(s) = {EntryOf(g, params[j]) : j \in J}
  /\ \A e, f \in DOMAIN s : s[e].data = s[f].data => e = f

\* An entry for one more parameter.
LEMMA ExactStep ==
  ASSUME NEW T, NEW s \in Seq(T), NEW g \in Graphs, NEW m, NEW params,
         ParamsFit(g, m, params),
         NEW J \in SUBSET (1 .. Len(params)), NEW j \in 1 .. Len(params), j \notin J,
         Exact(s, g, params, J), EntryOf(g, params[j]) \in T
  PROVE  Exact(Append(s, EntryOf(g, params[j])), g, params, J \cup {j})
<1> DEFINE x == EntryOf(g, params[j])
           r == Append(s, x)
<1>1. /\ r \in Seq(T) /\ Len(s) \in Nat /\ Len(r) = Len(s) + 1
      /\ \A e \in 1 .. Len(s) : r[e] = s[e]
      /\ r[Len(s) + 1] = x
  BY AppendProperties, LenProperties
<1>2. DOMAIN s = 1 .. Len(s) /\ DOMAIN r = (1 .. Len(s)) \cup {Len(s) + 1}
  <2>1. DOMAIN r = 1 .. Len(r)
    BY <1>1, LenProperties
  <2>2. DOMAIN s = 1 .. Len(s)
    BY LenProperties
  <2> QED BY <1>1, <2>1, <2>2
<1>3. ASSUME NEW e \in DOMAIN s PROVE s[e].data # x.data
  <2>1. PICK l \in J : s[e] = EntryOf(g, params[l])
    BY DEF Exact, Range
  <2>2. s[e].data = InitOf(g, params[l]).name /\ x.data = InitOf(g, params[j]).name
    BY <2>1 DEF EntryOf
  <2>3. params[l].index \in DOMAIN g.inits /\ params[j].index \in DOMAIN g.inits
    BY DEF ParamsFit
  <2>4. params[l].index # params[j].index
    BY DEF ParamsFit
  <2> QED BY <2>2, <2>3, <2>4, GraphLists DEF InitOf
<1> HIDE DEF r, x
<1>4. Range(r) = Range(s) \cup {x}
  BY <1>1, <1>2 DEF Range
<1>5. Range(r) = {EntryOf(g, params[l]) : l \in J \cup {j}}
  BY <1>4 DEF Exact, x
<1>6. ASSUME NEW e \in DOMAIN r, NEW f \in DOMAIN r, r[e].data = r[f].data
      PROVE  e = f
  <2>1. CASE e \in DOMAIN s /\ f \in DOMAIN s
    BY <1>1, <1>2, <1>6, <2>1 DEF Exact
  <2>2. CASE e \in DOMAIN s /\ f = Len(s) + 1
    BY <1>1, <1>2, <1>3, <1>6, <2>2
  <2>3. CASE e = Len(s) + 1 /\ f \in DOMAIN s
    BY <1>1, <1>2, <1>3, <1>6, <2>3
  <2>4. CASE e = Len(s) + 1 /\ f = Len(s) + 1
    BY <2>4
  <2> QED BY <1>2, <2>1, <2>2, <2>3, <2>4
<1>7. Exact(r, g, params, J \cup {j})
  BY <1>5, <1>6 DEF Exact
<1> QED BY <1>7 DEF r, x

\* What more operations do to the parameters: nothing, when they hold no reference.
LEMMA ParamsStep ==
  ASSUME NEW S, NEW m \in Seq(S), NEW op \in S, op.key = NoKey,
         NEW g, NEW params, ParamsFit(g, m, params), KeysFit(g, m, params)
  PROVE  /\ ParamsFit(g, Append(m, op), params)
         /\ KeysFit(g, Append(m, op), params)
<1> DEFINE r == Append(m, op)
<1>1. /\ Len(m) \in Nat /\ Len(r) = Len(m) + 1
      /\ \A k \in 1 .. Len(m) : r[k] = m[k]
      /\ r[Len(m) + 1] = op
      /\ AllDefs(r) = AllDefs(m) \cup op.defs
  BY AppendOp
<1> HIDE DEF r
<1>2. ParamsFit(g, r, params)
  BY <1>1 DEF ParamsFit
<1>3. ASSUME NEW k \in 1 .. Len(r), r[k].key # NoKey
      PROVE  \E j \in 1 .. Len(params) :
               /\ r[k].key = params[j].key
               /\ r[k].defs = {Raw(InitOf(g, params[j]).name)}
  <2>1. k \in 1 .. Len(m)
    BY <1>1, <1>3
  <2> QED BY <1>1, <1>3, <2>1 DEF KeysFit
<1>4. KeysFit(g, r, params)
  BY <1>3 DEF KeysFit
<1> QED BY <1>2, <1>4 DEF r

-------------------------------------------------------------------------------
(* The invariant.                                                            *)

\* The names dealt with so far.
Passed ==
  IF pc = "header" THEN {}
  ELSE IF pc = "inits"
  THEN (Range(graph.inputs) \ InitNames) \cup {graph.inits[j].name : j \in 1 .. (i - 1)}
  ELSE IF pc = "nodes" THEN DefinedBefore(graph, i)
  ELSE Names

\* The loops stop at the ends of their lists.
Bounds ==
  /\ pc = "inits" => i <= Len(graph.inits) + 1
  /\ pc = "nodes" => i <= Len(graph.nodes) + 1
  /\ pc \in {"source", "external"} => i <= Len(parameter_initializers_) + 1

\* Parameters are those of initializers already passed.
ParamsInv ==
  /\ ParamsFit(graph, module, parameter_initializers_)
  /\ KeysFit(graph, module, parameter_initializers_)
  /\ pc = "header" => parameter_initializers_ = << >>
  /\ pc = "inits" =>
       \A j \in 1 .. Len(parameter_initializers_) : parameter_initializers_[j].index < i

Params == parameter_initializers_
Skip(p) == IsExternal(graph, p)

\* The parameters the two loops of BuildParameterArchive have added.
Sources(k) == {j \in 1 .. Len(Params) : j < k /\ ~ Skip(Params[j])}
Targets(k) == {j \in 1 .. Len(Params) : j < k \/ ~ Skip(Params[j])}

\* The source index has the entries of the first loop, the target index those and
\* the ones of the second loop, and the one handed out all of them.
ArchiveInv ==
  /\ pc \in {"header", "inits", "nodes"} => source = << >>
  /\ pc = "source" => Exact(source, graph, Params, Sources(i))
  /\ pc = "external" => Exact(target, graph, Params, Targets(i))
  /\ pc = "done" /\ Params # << >> =>
       provider /\ Exact(target, graph, Params, 1 .. Len(Params))

Good ==
  /\ Bounds /\ Sound(module, skipped, Passed) /\ ParamsInv /\ ArchiveInv

\* The inductive invariant.
Inv == graph \in Graphs /\ TypeOK /\ (pc # "failed" => Good)

Ops == [defs : SUBSET Values, uses : SUBSET Values, key : Keys]
EntryType == [key : Keys, data : InitNames]

\* What the actions use of the type.
LEMMA Typed ==
  ASSUME Inv
  PROVE  /\ graph \in Graphs /\ module \in Seq(Ops) /\ i \in Nat /\ i # 0
         /\ Params \in Seq([key : Keys, index : DOMAIN graph.inits])
         /\ source \in Seq(EntryType) /\ target \in Seq(EntryType)
         /\ skipped \subseteq InitNames
         /\ Len(Params) \in Nat /\ DOMAIN Params = 1 .. Len(Params)
         /\ Len(module) \in Nat /\ DOMAIN module = 1 .. Len(module)
<1>1. /\ graph \in Graphs /\ module \in Seq(Ops) /\ i \in Nat /\ i # 0
      /\ Params \in Seq([key : Keys, index : DOMAIN graph.inits])
      /\ source \in Seq(EntryType) /\ target \in Seq(EntryType)
      /\ skipped \subseteq InitNames
  BY DEF Inv, TypeOK, Ops, EntryType, Params
<1>2. Len(Params) \in Nat /\ DOMAIN Params = 1 .. Len(Params)
  BY <1>1, LenProperties
<1>3. Len(module) \in Nat /\ DOMAIN module = 1 .. Len(module)
  BY <1>1, LenProperties
<1> QED BY <1>1, <1>2, <1>3

\* An operation over the graph's names is one of the module's type.
LEMMA OpTyped ==
  ASSUME NEW ds \in SUBSET Names, NEW us \in SUBSET Names
  PROVE  Op({Ssa(n) : n \in ds}, {Ssa(n) : n \in us}, NoKey) \in Ops
BY DEF Op, Ops, Values, Keys

\* So are the two of an initializer.
LEMMA ConstantTyped ==
  ASSUME NEW n \in InitNames, graph \in Graphs
  PROVE  /\ Op({Raw(n)}, {}, NoKey) \in Ops
         /\ Op({Raw(n)}, {}, SanitizeName(n)) \in Ops
         /\ Op({Ssa(n)}, {Raw(n)}, NoKey) \in Ops
<1>1. n \in Names
  BY DEF Names, DefinedBefore, InitNames
<1>2. Ssa(n) \in Values /\ Raw(n) \in Values
  BY <1>1 DEF Values
<1>3. SanitizeName(n) \in Keys /\ NoKey \in Keys
  BY DEF Keys
<1> QED BY <1>2, <1>3 DEF Op, Ops

\* The type follows from that of the variables that changed.
LEMMA TypeStep ==
  ASSUME Inv, graph' = graph,
         pc' \in {"header", "inits", "nodes", "source", "external", "done", "failed"},
         i' \in Nat \ {0}, provider' \in BOOLEAN,
         module' \in Seq(Ops),
         Params' \in Seq([key : Keys, index : DOMAIN graph.inits]),
         source' \in Seq(EntryType), target' \in Seq(EntryType),
         skipped' \subseteq InitNames
  PROVE  graph' \in Graphs /\ TypeOK'
<1>1. graph' \in Graphs
  BY DEF Inv
<1>2. InitNames' = InitNames /\ Names' = Names
  BY DEF InitNames, Names
<1>3. Values' = Values /\ Keys' = Keys
  BY <1>2 DEF Values, Keys
<1>4. TypeOK'
  BY <1>2, <1>3 DEF TypeOK, Ops, EntryType, Params
<1> QED BY <1>1, <1>4

\* It holds initially.
LEMMA InitInv == Init => Inv
<1> SUFFICES ASSUME Init PROVE Inv
  OBVIOUS
<1>1. TypeOK
  <2>1. << >> \in Seq(Ops) /\ << >> \in Seq(EntryType)
    OBVIOUS
  <2>2. << >> \in Seq([key : Keys, index : DOMAIN graph.inits])
    OBVIOUS
  <2>3. module \in Seq(Ops) /\ source \in Seq(EntryType) /\ target \in Seq(EntryType)
    BY <2>1 DEF Init
  <2>4. parameter_initializers_ \in Seq([key : Keys, index : DOMAIN graph.inits])
    BY <2>2 DEF Init
  <2>5. pc = "header" /\ i \in Nat \ {0} /\ skipped \subseteq InitNames
    BY DEF Init
  <2>6. provider \in BOOLEAN
    BY DEF Init
  <2> QED BY <2>3, <2>4, <2>5, <2>6 DEF TypeOK, Ops, EntryType
<1>2. Len(<< >>) = 0 /\ 1 .. Len(<< >>) = {}
  OBVIOUS
<1>3. AllDefs(<< >>) = {}
  <2>1. 1 .. ((Len(<< >>) + 1) - 1) = {}
    BY <1>2
  <2> QED BY <2>1 DEF AllDefs, DefsIn
<1>4. Sound(module, skipped, Passed)
  BY <1>2, <1>3 DEF Init, Sound, Knows, Fresh, Once, UsesKnown, LeftOut, Passed
<1>5. ParamsInv
  BY <1>2 DEF Init, ParamsInv, ParamsFit, KeysFit
<1>6. Bounds /\ ArchiveInv
  BY DEF Init, Bounds, ArchiveInv
<1> QED BY <1>1, <1>4, <1>5, <1>6 DEF Inv, Good, Init

-------------------------------------------------------------------------------
(* The steps of Generate.                                                    *)

\* The arguments are the names dealt with when the initializers begin.
LEMMA EmitModuleHeaderInv == Inv /\ EmitModuleHeader => Inv'
<1> SUFFICES ASSUME Inv, EmitModuleHeader PROVE Inv'
  OBVIOUS
<1> DEFINE new == Range(graph.inputs) \ InitNames
           op == Op({Ssa(n) : n \in new}, {}, NoKey)
<1>1. /\ pc = "header" /\ pc' = "inits" /\ i' = 1
      /\ graph' = graph /\ skipped' = skipped /\ Params' = Params
      /\ source' = source /\ target' = target /\ provider' = provider
  BY DEF EmitModuleHeader, archiveVars, Params
<1>2. module' = Append(module, op)
  BY DEF EmitModuleHeader, Emit
<1>3. op \in Ops
  <2>1. new \in SUBSET Names
    BY DEF Names, DefinedBefore
  <2>2. op = Op({Ssa(n) : n \in new}, {Ssa(n) : n \in {}}, NoKey)
    OBVIOUS
  <2> HIDE DEF new, op
  <2> QED BY <2>1, <2>2, OpTyped
<1>4. op.defs = {Ssa(n) : n \in new} /\ op.uses = {} /\ op.key = NoKey
  BY DEF Op
<1> HIDE DEF op
<1>5. module' \in Seq(Ops)
  BY <1>2, <1>3, Typed, AppendOp
<1>6. graph' \in Graphs /\ TypeOK'
  BY <1>1, <1>5, Typed, TypeStep DEF Inv, TypeOK
<1>7. Sound(module, skipped, {}) /\ ParamsInv /\ ArchiveInv
  BY <1>1 DEF Inv, Good, Passed
<1>8. Sound(module', skipped, {} \cup new)
  BY <1>2, <1>3, <1>4, <1>7, Typed, OperationStep
<1>9. Passed' = {} \cup new
  <2>1. 1 .. (1 - 1) = {}
    OBVIOUS
  <2> QED BY <1>1, <2>1 DEF Passed, InitNames
<1>10. ParamsFit(graph, module', Params) /\ KeysFit(graph, module', Params)
  BY <1>2, <1>3, <1>4, <1>7, Typed, ParamsStep DEF ParamsInv, Params
<1>11. ParamsInv'
  <2>1. Params = << >>
    BY <1>1, <1>7 DEF ParamsInv, Params
  <2> QED BY <1>1, <1>10, <2>1 DEF ParamsInv, Params
<1>12. Bounds' /\ ArchiveInv'
  <2>1. Len(graph.inits) \in Nat
    BY Typed, GraphLists
  <2> QED BY <1>1, <1>7, <2>1 DEF Bounds, ArchiveInv
<1>13. Sound(module', skipped', Passed')
  BY <1>1, <1>8, <1>9
<1> QED BY <1>6, <1>11, <1>12, <1>13 DEF Inv, Good

\* The name of an initializer is new when its turn comes, and then dealt with.
LEMMA InitializerName ==
  ASSUME Inv, pc = "inits", i <= Len(graph.inits), graph' = graph, pc' = pc,
         i' = i + 1
  PROVE  LET n == graph.inits[i].name IN
         /\ i \in DOMAIN graph.inits /\ n \in InitNames
         /\ n \notin Passed /\ Passed' = Passed \cup {n}
         /\ i' \in Nat \ {0} /\ Bounds'
<1> DEFINE n == graph.inits[i].name
<1>1. i \in Nat /\ i # 0 /\ graph \in Graphs
  BY Typed
<1>2. /\ Len(graph.inits) \in Nat /\ DOMAIN graph.inits = 1 .. Len(graph.inits)
      /\ \A j, k \in DOMAIN graph.inits :
           graph.inits[j].name = graph.inits[k].name => j = k
  BY <1>1, GraphLists
<1>3. i \in DOMAIN graph.inits
  BY <1>1, <1>2
<1>4. n \in InitNames
  BY <1>3 DEF InitNames, InitNamesOf, Range
<1>5. n \notin {graph.inits[j].name : j \in 1 .. (i - 1)}
  <2> SUFFICES ASSUME NEW j \in 1 .. (i - 1), n = graph.inits[j].name PROVE FALSE
    OBVIOUS
  <2>1. j \in DOMAIN graph.inits /\ j # i
    BY <1>1, <1>2
  <2> QED BY <1>2, <1>3, <2>1
<1>6. Passed = (Range(graph.inputs) \ InitNames)
                 \cup {graph.inits[j].name : j \in 1 .. (i - 1)}
  BY DEF Passed
<1>7. Passed' = (Range(graph.inputs) \ InitNames)
                  \cup {graph.inits[j].name : j \in 1 .. ((i + 1) - 1)}
  BY DEF Passed, InitNames
<1>8. 1 .. ((i + 1) - 1) = (1 .. (i - 1)) \cup {i}
  BY <1>1
<1>9. n \notin Passed /\ Passed' = Passed \cup {n}
  BY <1>4, <1>5, <1>6, <1>7, <1>8
<1>10. i' \in Nat \ {0}
  BY <1>1
<1>11. Bounds'
  BY <1>1, <1>2 DEF Bounds
<1> QED BY <1>3, <1>4, <1>9, <1>10, <1>11

\* A small initializer adds two operations without a reference, or is left out.
LEMMA EmitInlineInv ==
  ASSUME NEW ok \in BOOLEAN, Inv, EmitInline(ok)
  PROVE  Inv'
<1> DEFINE n == graph.inits[i].name
           a == Op({Raw(n)}, {}, NoKey)
           b == Op({Ssa(n)}, {Raw(n)}, NoKey)
<1>1. /\ pc = "inits" /\ pc' = pc /\ i <= Len(graph.inits) /\ i' = i + 1
      /\ graph' = graph /\ Params' = Params
      /\ source' = source /\ target' = target /\ provider' = provider
  BY DEF EmitInline, archiveVars, Params
<1>2. IF ok THEN module' = module \o <<a, b>> /\ skipped' = skipped
            ELSE module' = module /\ skipped' = skipped \cup {n}
  BY DEF EmitInline, EmitConstant
<1>3. /\ n \in InitNames /\ n \notin Passed /\ Passed' = Passed \cup {n}
      /\ i' \in Nat \ {0} /\ Bounds'
  BY <1>1, InitializerName
<1>4. a \in Ops /\ b \in Ops
  BY <1>3, ConstantTyped, Typed
<1>5. Sound(module, skipped, Passed) /\ ParamsInv /\ ArchiveInv
  BY <1>1 DEF Inv, Good
<1>6. a.key = NoKey /\ b.key = NoKey
  BY DEF Op
<1>7. /\ module' \in Seq(Ops) /\ skipped' \subseteq InitNames
      /\ Sound(module', skipped', Passed \cup {n})
      /\ ParamsFit(graph, module', Params) /\ KeysFit(graph, module', Params)
  <2>1. CASE ok
    <3>1. skipped' = skipped
      BY <1>2, <2>1
    <3>2. module' = Append(Append(module, a), b)
      <4>1. module' = module \o <<a, b>>
        BY <1>2, <2>1
      <4> HIDE DEF a, b
      <4>2. module \o <<a, b>> = Append(Append(module, a), b)
        BY <1>4, Typed, JoinTwo
      <4> QED BY <4>1, <4>2
    <3>3. module' \in Seq(Ops) /\ Sound(module', skipped, Passed \cup {n})
      <4>1. module' = WithConstant(module, n, NoKey)
        BY <3>2 DEF WithConstant
      <4> HIDE DEF n
      <4> QED BY <1>3, <1>4, <1>5, <4>1, Typed, ConstantStep
    <3> HIDE DEF a, b, n
    <3>4. /\ Append(module, a) \in Seq(Ops)
          /\ ParamsFit(graph, Append(module, a), Params)
          /\ KeysFit(graph, Append(module, a), Params)
      BY <1>4, <1>5, <1>6, Typed, ParamsStep, AppendOp DEF ParamsInv, Params
    <3>5. ParamsFit(graph, module', Params) /\ KeysFit(graph, module', Params)
      BY <1>4, <1>6, <3>2, <3>4, ParamsStep
    <3> QED BY <3>1, <3>3, <3>5, Typed
  <2>2. CASE ~ ok
    <3>1. module' = module /\ skipped' = skipped \cup {n}
      BY <1>2, <2>2
    <3> HIDE DEF n
    <3>2. Sound(module', skipped', Passed \cup {n})
      BY <1>3, <1>5, <3>1, SkipStep
    <3> QED BY <1>3, <1>5, <3>1, <3>2, Typed DEF ParamsInv, Params
  <2> QED BY <2>1, <2>2
<1> HIDE DEF n, a, b
<1>8. graph' \in Graphs /\ TypeOK'
  BY <1>1, <1>3, <1>7, Typed, TypeStep DEF Inv, TypeOK
<1>9. ParamsInv'
  <2>1. \A j \in 1 .. Len(Params) : Params[j].index < i
    BY <1>1, <1>5 DEF ParamsInv, Params
  <2>2. \A j \in 1 .. Len(Params) : Params[j].index \in Nat
    <3>1. \A j \in 1 .. Len(Params) : Params[j].index \in DOMAIN graph.inits
      BY <1>5 DEF ParamsInv, ParamsFit, Params
    <3>2. DOMAIN graph.inits = 1 .. Len(graph.inits)
      BY Typed, GraphLists
    <3> QED BY <3>1, <3>2
  <2>3. \A j \in 1 .. Len(Params) : Params[j].index < i + 1
    BY <2>1, <2>2, Typed
  <2> QED BY <1>1, <1>7, <2>3 DEF ParamsInv, Params
<1>10. ArchiveInv'
  BY <1>1, <1>5 DEF ArchiveInv
<1>11. Sound(module', skipped', Passed')
  BY <1>3, <1>7
<1> QED BY <1>3, <1>8, <1>9, <1>10, <1>11 DEF Inv, Good

\* A reference and its parameter, of an initializer that has none yet.
LEMMA NewParameter ==
  ASSUME NEW g, NEW S, NEW m \in Seq(S), NEW r, NEW T, NEW params \in Seq(T),
         ParamsFit(g, m, params), KeysFit(g, m, params),
         NEW p \in T, p.index \in DOMAIN g.inits,
         p.key = SanitizeName(InitOf(g, p).name),
         \A j \in 1 .. Len(params) : params[j].index # p.index,
         Len(r) = Len(m) + 2, \A k \in 1 .. Len(m) : r[k] = m[k],
         r[Len(m) + 1].key = p.key,
         r[Len(m) + 1].defs = {Raw(InitOf(g, p).name)},
         r[Len(m) + 2].key = NoKey,
         AllDefs(m) \cup {Raw(InitOf(g, p).name)} \subseteq AllDefs(r)
  PROVE  ParamsFit(g, r, Append(params, p)) /\ KeysFit(g, r, Append(params, p))
<1> DEFINE q == Append(params, p)
<1>1. /\ Len(params) \in Nat /\ Len(q) = Len(params) + 1
      /\ \A j \in 1 .. Len(params) : q[j] = params[j]
      /\ q[Len(params) + 1] = p
  BY AppendProperties, LenProperties
<1>2. 1 .. Len(q) = (1 .. Len(params)) \cup {Len(params) + 1}
  BY <1>1
<1>3. Len(m) \in Nat
  BY LenProperties
<1> HIDE DEF q
<1>4. ASSUME NEW j \in 1 .. Len(q)
      PROVE  /\ q[j].index \in DOMAIN g.inits
             /\ q[j].key = SanitizeName(InitOf(g, q[j]).name)
             /\ Raw(InitOf(g, q[j]).name) \in AllDefs(r)
  <2>1. CASE j \in 1 .. Len(params)
    <3>1. q[j] = params[j]
      BY <1>1, <2>1
    <3> QED BY <2>1, <3>1 DEF ParamsFit
  <2>2. CASE j = Len(params) + 1
    <3>1. q[j] = p
      BY <1>1, <2>2
    <3> QED BY <3>1
  <2> QED BY <1>2, <2>1, <2>2
<1>5. ASSUME NEW j \in 1 .. Len(q), NEW k \in 1 .. Len(q), q[j].index = q[k].index
      PROVE  j = k
  <2>1. CASE j \in 1 .. Len(params) /\ k \in 1 .. Len(params)
    BY <1>1, <1>5, <2>1 DEF ParamsFit
  <2>2. CASE j \in 1 .. Len(params) /\ k = Len(params) + 1
    BY <1>1, <1>5, <2>2
  <2>3. CASE j = Len(params) + 1 /\ k \in 1 .. Len(params)
    BY <1>1, <1>5, <2>3
  <2>4. CASE j = Len(params) + 1 /\ k = Len(params) + 1
    BY <2>4
  <2> QED BY <1>2, <2>1, <2>2, <2>3, <2>4
<1>6. ASSUME NEW k \in 1 .. Len(r), r[k].key # NoKey
      PROVE  \E j \in 1 .. Len(q) :
               r[k].key = q[j].key /\ r[k].defs = {Raw(InitOf(g, q[j]).name)}
  <2>1. CASE k \in 1 .. Len(m)
    <3>1. PICK j \in 1 .. Len(params) :
            /\ m[k].key = params[j].key
            /\ m[k].defs = {Raw(InitOf(g, params[j]).name)}
      <4>1. m[k].key # NoKey
        BY <1>6, <2>1
      <4> QED BY <2>1, <4>1 DEF KeysFit
    <3>2. j \in 1 .. Len(q) /\ q[j] = params[j] /\ r[k] = m[k]
      BY <1>1, <1>2, <2>1
    <3> QED BY <3>1, <3>2
  <2>2. CASE k = Len(m) + 1
    <3>1. Len(params) + 1 \in 1 .. Len(q) /\ q[Len(params) + 1] = p
      BY <1>1, <1>2
    <3> QED BY <2>2, <3>1
  <2>3. k # Len(m) + 2
    BY <1>6
  <2>4. k \in 1 .. Len(m) \/ k = Len(m) + 1 \/ k = Len(m) + 2
    BY <1>3
  <2> QED BY <2>1, <2>2, <2>3, <2>4
<1>7. ParamsFit(g, r, q)
  BY <1>4, <1>5 DEF ParamsFit
<1>8. KeysFit(g, r, q)
  BY <1>6 DEF KeysFit
<1> QED BY <1>7, <1>8 DEF q

\* A large initializer adds a reference and its parameter.
LEMMA EmitParameterInv ==
  ASSUME Inv, EmitParameter
  PROVE  Inv'
<1> DEFINE n == graph.inits[i].name
           a == Op({Raw(n)}, {}, SanitizeName(n))
           b == Op({Ssa(n)}, {Raw(n)}, NoKey)
           p == [key |-> SanitizeName(n), index |-> i]
<1>1. /\ pc = "inits" /\ pc' = pc /\ i <= Len(graph.inits) /\ i' = i + 1
      /\ graph' = graph /\ skipped' = skipped
      /\ source' = source /\ target' = target /\ provider' = provider
  BY DEF EmitParameter, archiveVars
<1>2. module' = module \o <<a, b>> /\ Params' = Append(Params, p)
  BY DEF EmitParameter, EmitConstant, Params
<1>3. /\ i \in DOMAIN graph.inits /\ n \in InitNames
      /\ n \notin Passed /\ Passed' = Passed \cup {n}
      /\ i' \in Nat \ {0} /\ Bounds'
  BY <1>1, InitializerName
<1>4. a \in Ops /\ b \in Ops
  BY <1>3, ConstantTyped, Typed
<1>5. Sound(module, skipped, Passed) /\ ParamsInv /\ ArchiveInv
  BY <1>1 DEF Inv, Good
<1>6. a.key = p.key /\ a.defs = {Raw(n)} /\ b.key = NoKey
  BY DEF Op
<1>7. p.index = i /\ p.key = SanitizeName(n) /\ InitOf(graph, p).name = n
  BY DEF InitOf
<1>8. p \in [key : Keys, index : DOMAIN graph.inits]
  BY <1>3 DEF Keys
<1>9. /\ module' \in Seq(Ops) /\ Sound(module', skipped, Passed \cup {n})
      /\ Len(module') = Len(module) + 2
      /\ \A k \in 1 .. Len(module) : module'[k] = module[k]
      /\ module'[Len(module) + 1] = a /\ module'[Len(module) + 2] = b
      /\ AllDefs(module') = AllDefs(module) \cup {Raw(n), Ssa(n)}
  <2>1. module' = Append(Append(module, a), b)
    <3> HIDE DEF a, b
    <3>1. module \o <<a, b>> = Append(Append(module, a), b)
      BY <1>4, Typed, JoinTwo
    <3> QED BY <1>2, <3>1
  <2> DEFINE key == SanitizeName(n)
             r == WithConstant(module, n, key)
  <2> HIDE DEF n, key
  <2>2. /\ r \in Seq(Ops) /\ Sound(r, skipped, Passed \cup {n})
        /\ HasConstant(r, module, n, key)
    <3>1. module \in Seq(Ops)
      BY Typed
    <3>2. Op({Raw(n)}, {}, key) \in Ops /\ Op({Ssa(n)}, {Raw(n)}, NoKey) \in Ops
      BY <1>4 DEF key
    <3> QED BY <1>3, <1>5, <3>1, <3>2, ConstantStep
  <2>3. module' = r
    BY <2>1 DEF key, WithConstant
  <2> QED BY <2>2, <2>3 DEF key, HasConstant
<1> HIDE DEF n, a, b, p
<1>10. \A j \in 1 .. Len(Params) : Params[j].index # p.index
  <2>1. \A j \in 1 .. Len(Params) : Params[j].index < i
    BY <1>1, <1>5 DEF ParamsInv, Params
  <2> QED BY <1>7, <2>1, Typed
<1>11. ParamsFit(graph, module', Params') /\ KeysFit(graph, module', Params')
  <2>1. ParamsFit(graph, module, Params) /\ KeysFit(graph, module, Params)
    BY <1>5 DEF ParamsInv, Params
  <2>2. /\ module'[Len(module) + 1].key = p.key
        /\ module'[Len(module) + 1].defs = {Raw(InitOf(graph, p).name)}
        /\ module'[Len(module) + 2].key = NoKey
    BY <1>6, <1>7, <1>9
  <2>3. AllDefs(module) \cup {Raw(InitOf(graph, p).name)} \subseteq AllDefs(module')
    BY <1>7, <1>9
  <2> DEFINE r == module'
             q == Append(Params, p)
  <2>4. ParamsFit(graph, r, q) /\ KeysFit(graph, r, q)
    <3>1. p.index \in DOMAIN graph.inits /\ p.key = SanitizeName(InitOf(graph, p).name)
      BY <1>3, <1>7
    <3>2. /\ Params \in Seq([key : Keys, index : DOMAIN graph.inits])
          /\ module \in Seq(Ops)
      BY Typed
    <3>3. Len(r) = Len(module) + 2 /\ \A k \in 1 .. Len(module) : r[k] = module[k]
      BY <1>9
    <3>4. /\ r[Len(module) + 1].key = p.key
          /\ r[Len(module) + 1].defs = {Raw(InitOf(graph, p).name)}
          /\ r[Len(module) + 2].key = NoKey
      BY <2>2
    <3>5. AllDefs(module) \cup {Raw(InitOf(graph, p).name)} \subseteq AllDefs(r)
      BY <2>3
    <3> HIDE DEF r
    <3> QED BY <1>8, <1>10, <2>1, <3>1, <3>2, <3>3, <3>4, <3>5, NewParameter
  <2> QED BY <1>2, <2>4
<1>12. /\ Params' \in Seq([key : Keys, index : DOMAIN graph.inits])
       /\ Len(Params') = Len(Params) + 1 /\ Params'[Len(Params) + 1] = p
       /\ \A j \in 1 .. Len(Params) : Params'[j] = Params[j]
  BY <1>2, <1>8, Typed, AppendProperties
<1>13. graph' \in Graphs /\ TypeOK'
  BY <1>1, <1>3, <1>9, <1>12, Typed, TypeStep DEF Inv, TypeOK
<1>14. ASSUME NEW j \in 1 .. Len(Params') PROVE Params'[j].index < i + 1
  <2>1. CASE j \in 1 .. Len(Params)
    <3>1. Params'[j].index < i
      BY <1>1, <1>5, <1>12, <2>1 DEF ParamsInv, Params
    <3>2. Params'[j].index \in DOMAIN graph.inits
      BY <1>11 DEF ParamsFit
    <3>3. DOMAIN graph.inits = 1 .. Len(graph.inits)
      BY Typed, GraphLists
    <3> QED BY <3>1, <3>2, <3>3, Typed
  <2>2. CASE j = Len(Params) + 1
    BY <1>7, <1>12, <2>2, Typed
  <2> QED BY <1>12, <2>1, <2>2, Typed
<1>15. ParamsInv'
  BY <1>1, <1>11, <1>14 DEF ParamsInv, Params
<1>16. ArchiveInv'
  BY <1>1, <1>5 DEF ArchiveInv
<1>17. Sound(module', skipped', Passed')
  BY <1>1, <1>3, <1>9
<1> QED BY <1>3, <1>13, <1>15, <1>16, <1>17 DEF Inv, Good

\* After the initializers, the inputs and they are dealt with.
LEMMA InitializersDoneInv == Inv /\ InitializersDone => Inv'
<1> SUFFICES ASSUME Inv, InitializersDone PROVE Inv'
  OBVIOUS
<1>1. /\ pc = "inits" /\ pc' = "nodes" /\ i > Len(graph.inits) /\ i' = 1
      /\ graph' = graph /\ skipped' = skipped /\ Params' = Params /\ module' = module
      /\ source' = source /\ target' = target /\ provider' = provider
  BY DEF InitializersDone, archiveVars, Params
<1>2. Bounds /\ Sound(module, skipped, Passed) /\ ParamsInv /\ ArchiveInv
  BY <1>1 DEF Inv, Good
<1>3. graph' \in Graphs /\ TypeOK'
  BY <1>1, Typed, TypeStep DEF Inv, TypeOK
<1>4. Passed' = Passed
  <2>1. /\ Len(graph.inits) \in Nat /\ DOMAIN graph.inits = 1 .. Len(graph.inits)
        /\ DefinedBefore(graph, 1) = Range(graph.inputs) \cup InitNamesOf(graph)
    BY Typed, GraphLists, DefinedGrows
  <2>2. i - 1 = Len(graph.inits)
    BY <1>1, <1>2, <2>1, Typed DEF Bounds
  <2>3. {graph.inits[j].name : j \in 1 .. (i - 1)} = InitNames
    BY <2>1, <2>2 DEF InitNames, InitNamesOf, Range
  <2>4. Passed = (Range(graph.inputs) \ InitNames) \cup InitNames
    BY <1>1, <2>3 DEF Passed
  <2>5. Passed' = DefinedBefore(graph, 1)
    BY <1>1 DEF Passed
  <2> QED BY <2>1, <2>4, <2>5 DEF InitNames
<1>5. Bounds' /\ ParamsInv' /\ ArchiveInv'
  <2>1. Len(graph.nodes) \in Nat
    BY Typed, GraphLists
  <2>2. Bounds'
    BY <1>1, <2>1 DEF Bounds
  <2>3. ParamsInv'
    BY <1>1, <1>2 DEF ParamsInv, Params
  <2>4. ArchiveInv'
    BY <1>1, <1>2 DEF ArchiveInv
  <2> QED BY <2>2, <2>3, <2>4
<1>6. Sound(module', skipped', Passed')
  BY <1>1, <1>2, <1>4
<1> QED BY <1>3, <1>5, <1>6 DEF Inv, Good

\* A node uses names dealt with and defines new ones.
LEMMA EmitNodeInv == Inv /\ EmitNode => Inv'
<1> SUFFICES ASSUME Inv, EmitNode PROVE Inv'
  OBVIOUS
<1> DEFINE ins == Given(graph.nodes[i].ins)
           outs == Given(graph.nodes[i].outs)
           op == Op({Ssa(n) : n \in outs}, {Ssa(n) : n \in ins}, NoKey)
<1>1. /\ pc = "nodes" /\ pc' = pc /\ i <= Len(graph.nodes) /\ i' = i + 1
      /\ graph' = graph /\ skipped' = skipped /\ Params' = Params
      /\ source' = source /\ target' = target /\ provider' = provider
  BY DEF EmitNode, archiveVars, Params
<1>2. module' = Append(module, op)
  BY DEF EmitNode, Emit
<1>3. i \in 1 .. Len(graph.nodes) /\ Len(graph.nodes) \in Nat /\ graph \in Graphs
  BY <1>1, Typed, GraphLists
<1>4. /\ Passed = DefinedBefore(graph, i) /\ Passed' = DefinedBefore(graph, i + 1)
  BY <1>1 DEF Passed
<1>5. /\ ins \subseteq Passed /\ outs \cap Passed = {}
      /\ Passed' = Passed \cup outs
  BY <1>3, <1>4, NodeNames
<1>6. Passed \subseteq Names /\ Passed' \subseteq Names
  <2>1. i \in 1 .. (Len(graph.nodes) + 1) /\ i + 1 \in 1 .. (Len(graph.nodes) + 1)
    BY <1>3
  <2> QED BY <1>3, <1>4, <2>1, DefinedGrows DEF Names
<1>7. Sound(module, skipped, Passed) /\ ParamsInv /\ ArchiveInv
  BY <1>1 DEF Inv, Good
<1>8. op \in Ops
  <2>1. ins \in SUBSET Names /\ outs \in SUBSET Names
    BY <1>5, <1>6
  <2> HIDE DEF ins, outs
  <2> QED BY <2>1, OpTyped
<1>9. /\ op.defs = {Ssa(n) : n \in outs} /\ op.key = NoKey
      /\ \A u \in op.uses : \E n \in Passed : u = Ssa(n)
  BY <1>5 DEF Op
<1> HIDE DEF ins, outs, op
<1>10. module' \in Seq(Ops)
  BY <1>2, <1>8, Typed, AppendOp
<1>11. Sound(module', skipped, Passed \cup outs)
  BY <1>2, <1>5, <1>7, <1>8, <1>9, Typed, OperationStep
<1>12. ParamsFit(graph, module', Params) /\ KeysFit(graph, module', Params)
  BY <1>2, <1>7, <1>8, <1>9, Typed, ParamsStep DEF ParamsInv, Params
<1>13. graph' \in Graphs /\ TypeOK'
  BY <1>1, <1>3, <1>10, Typed, TypeStep DEF Inv, TypeOK
<1>14. ParamsInv'
  BY <1>1, <1>12 DEF ParamsInv, Params
<1>15. Bounds' /\ ArchiveInv'
  BY <1>1, <1>3, <1>7 DEF Bounds, ArchiveInv
<1>16. Sound(module', skipped', Passed')
  BY <1>1, <1>5, <1>11
<1> QED BY <1>13, <1>14, <1>15, <1>16 DEF Inv, Good

\* The outputs are dealt with, as is every name of the graph.
LEMMA EmitReturnInv == Inv /\ EmitReturn => Inv'
<1> SUFFICES ASSUME Inv, EmitReturn PROVE Inv'
  OBVIOUS
<1> DEFINE outputs == Range(graph.outputs)
           op == Op({}, {Ssa(n) : n \in outputs}, NoKey)
<1>1. /\ pc = "nodes" /\ i > Len(graph.nodes) /\ i' = 1
      /\ pc' = IF Params = << >> THEN "done" ELSE "source"
      /\ graph' = graph /\ skipped' = skipped /\ Params' = Params
      /\ source' = source /\ target' = target /\ provider' = provider
  BY DEF EmitReturn, archiveVars, Params
<1>2. module' = Append(module, op)
  BY DEF EmitReturn, Emit
<1>3. Sound(module, skipped, Passed) /\ ParamsInv /\ ArchiveInv /\ Bounds
  BY <1>1 DEF Inv, Good
<1>4. Passed = Names /\ Passed' = Names
  <2>1. i = Len(graph.nodes) + 1
    BY <1>1, <1>3, Typed, GraphLists DEF Bounds
  <2>2. Passed = Names
    BY <1>1, <2>1 DEF Passed, Names
  <2>3. Passed' = Names
    BY <1>1 DEF Passed, Names
  <2> QED BY <2>2, <2>3
<1>5. outputs \subseteq Names
  BY Typed, OutputNames DEF Names
<1>6. op \in Ops
  <2>1. op = Op({Ssa(n) : n \in {}}, {Ssa(n) : n \in outputs}, NoKey)
    OBVIOUS
  <2> HIDE DEF outputs, op
  <2> QED BY <1>5, <2>1, OpTyped
<1>7. /\ op.defs = {Ssa(n) : n \in {}} /\ op.key = NoKey
      /\ \A u \in op.uses : \E n \in Passed : u = Ssa(n)
  BY <1>4, <1>5 DEF Op
<1> HIDE DEF outputs, op
<1>8. module' \in Seq(Ops)
  BY <1>2, <1>6, Typed, AppendOp
<1>9. Sound(module', skipped, Passed \cup {})
  <2>1. {} \cap Passed = {}
    OBVIOUS
  <2> QED BY <1>2, <1>3, <1>6, <1>7, <2>1, Typed, OperationStep
<1>10. ParamsFit(graph, module', Params) /\ KeysFit(graph, module', Params)
  BY <1>2, <1>3, <1>6, <1>7, Typed, ParamsStep DEF ParamsInv, Params
<1>11. graph' \in Graphs /\ TypeOK'
  BY <1>1, <1>8, Typed, TypeStep DEF Inv, TypeOK
<1>12. ParamsInv'
  BY <1>1, <1>10 DEF ParamsInv, Params
<1>13. Bounds'
  BY <1>1, Typed DEF Bounds, Params
<1>14. ArchiveInv'
  <2>1. pc' = "source" => Exact(source', graph', Params', Sources(i)')
    <3>1. Sources(i)' = {}
      BY <1>1, Typed DEF Sources, Params
    <3>2. source' = << >>
      BY <1>1, <1>3 DEF ArchiveInv
    <3>3. DOMAIN << >> = {}
      OBVIOUS
    <3> QED BY <3>1, <3>2, <3>3 DEF Exact, Range
  <2> QED BY <1>1, <2>1 DEF ArchiveInv
<1>15. Sound(module', skipped', Passed')
  <2>1. Passed' = Passed \cup {}
    BY <1>4
  <2> QED BY <1>1, <1>9, <2>1
<1> QED BY <1>11, <1>12, <1>13, <1>14, <1>15 DEF Inv, Good

-------------------------------------------------------------------------------
(* The steps of BuildParameterArchive.                                       *)

\* What these steps leave alone: the module and what it says of the parameters.
LEMMA ArchiveStep ==
  ASSUME Inv, pc \in {"source", "external"},
         pc' \in {"source", "external", "done"},
         UNCHANGED <<graph, module, parameter_initializers_, skipped>>
  PROVE  /\ Sound(module', skipped', Passed') /\ ParamsInv'
         /\ ParamsFit(graph, module, Params)
<1>1. Sound(module, skipped, Passed) /\ ParamsInv
  BY DEF Inv, Good
<1>2. Passed' = Passed
  BY DEF Passed, Names
<1>3. ParamsInv'
  BY <1>1 DEF ParamsInv
<1>4. ParamsFit(graph, module, Params)
  BY <1>1 DEF ParamsInv, Params
<1> QED BY <1>1, <1>2, <1>3, <1>4

\* The entry of a parameter has the index's type, and is the one the model adds.
LEMMA EntryTyped ==
  ASSUME Inv, pc \in {"source", "external"}, i <= Len(Params)
  PROVE  /\ i \in 1 .. Len(Params) /\ EntryOf(graph, Params[i]) \in EntryType
         /\ Entry = EntryOf(graph, Params[i]) /\ (External <=> Skip(Params[i]))
         /\ i + 1 \in Nat \ {0} /\ i + 1 <= Len(Params) + 1
<1>1. i \in 1 .. Len(Params)
  BY Typed
<1>2. Params[i].index \in DOMAIN graph.inits /\ Params[i].key \in Keys
  <2> DEFINE T == [key : Keys, index : DOMAIN graph.inits]
  <2>1. Params \in Seq(T)
    BY Typed
  <2> HIDE DEF T
  <2>2. Params[i] \in T
    BY <1>1, <2>1, ElementOfSeq
  <2> QED BY <2>2 DEF T
<1>3. InitOf(graph, Params[i]).name \in InitNames
  BY <1>2 DEF InitOf, InitNames, InitNamesOf, Range
<1>4. EntryOf(graph, Params[i]) \in EntryType
  BY <1>2, <1>3 DEF EntryOf, EntryType
<1>5. Entry = EntryOf(graph, Params[i])
  BY DEF Entry, Param, EntryOf, InitOf, Params
<1>6. External <=> Skip(Params[i])
  BY DEF External, Param, Skip, IsExternal, InitOf, Params
<1>7. i + 1 \in Nat \ {0} /\ i + 1 <= Len(Params) + 1
  BY <1>1, Typed
<1> QED BY <1>1, <1>4, <1>5, <1>6, <1>7

\* The first loop adds a parameter that is not external.
LEMMA AddSourceInv == Inv /\ AddSource => Inv'
<1> SUFFICES ASSUME Inv, AddSource PROVE Inv'
  OBVIOUS
<1>1. /\ pc = "source" /\ pc' = pc /\ i <= Len(Params) /\ i' = i + 1
      /\ UNCHANGED <<graph, module, parameter_initializers_, skipped>>
      /\ Params' = Params /\ target' = target /\ provider' = provider
      /\ source' = IF External THEN source ELSE Append(source, Entry)
  BY DEF AddSource, Params
<1>2. /\ Sound(module', skipped', Passed') /\ ParamsInv'
      /\ ParamsFit(graph, module, Params)
  BY <1>1, ArchiveStep
<1>3. /\ i \in 1 .. Len(Params) /\ EntryOf(graph, Params[i]) \in EntryType
      /\ Entry = EntryOf(graph, Params[i]) /\ (External <=> Skip(Params[i]))
      /\ i + 1 \in Nat \ {0} /\ i + 1 <= Len(Params) + 1
  BY <1>1, EntryTyped
<1>4. Exact(source, graph, Params, Sources(i))
  BY <1>1 DEF Inv, Good, ArchiveInv
<1>5. source' \in Seq(EntryType) /\ Exact(source', graph, Params, Sources(i + 1))
  <2>1. CASE External
    <3>1. Sources(i + 1) = Sources(i)
      BY <1>3, <2>1, Typed DEF Sources
    <3> QED BY <1>1, <1>4, <2>1, <3>1, Typed
  <2>2. CASE ~ External
    <3>1. Sources(i + 1) = Sources(i) \cup {i} /\ i \notin Sources(i)
      BY <1>3, <2>2, Typed DEF Sources
    <3>2. Sources(i) \in SUBSET (1 .. Len(Params))
      BY DEF Sources
    <3>3. source' = Append(source, EntryOf(graph, Params[i]))
      BY <1>1, <1>3, <2>2
    <3>4. source' \in Seq(EntryType)
      BY <1>3, <3>3, Typed, AppendProperties
    <3>5. Exact(source', graph, Params, Sources(i) \cup {i})
      BY <1>2, <1>3, <1>4, <3>1, <3>2, <3>3, Typed, ExactStep
    <3> QED BY <3>1, <3>4, <3>5
  <2> QED BY <2>1, <2>2
<1>6. graph' \in Graphs /\ TypeOK'
  BY <1>1, <1>3, <1>5, Typed, TypeStep DEF Inv, TypeOK
<1>7. Bounds'
  BY <1>1, <1>3 DEF Bounds, Params
<1>8. ArchiveInv'
  <2>1. Sources(i)' = Sources(i + 1)
    BY <1>1 DEF Sources, Skip, Params
  <2> QED BY <1>1, <1>5, <2>1 DEF ArchiveInv
<1> QED BY <1>2, <1>6, <1>7, <1>8 DEF Inv, Good

\* The target index begins with the entries of the source index.
LEMMA BuildArchiveInv == Inv /\ BuildArchive => Inv'
<1> SUFFICES ASSUME Inv, BuildArchive PROVE Inv'
  OBVIOUS
<1>1. /\ pc = "source" /\ pc' = "external" /\ i > Len(Params) /\ i' = 1
      /\ UNCHANGED <<graph, module, parameter_initializers_, skipped>>
      /\ Params' = Params /\ target' = source /\ source' = source
      /\ provider' = provider
  BY DEF BuildArchive, Params
<1>2. Sound(module', skipped', Passed') /\ ParamsInv'
  BY <1>1, ArchiveStep
<1>3. graph' \in Graphs /\ TypeOK'
  BY <1>1, Typed, TypeStep DEF Inv, TypeOK
<1>4. Exact(source, graph, Params, Sources(i)) /\ i = Len(Params) + 1
  <2>1. ArchiveInv /\ Bounds
    BY <1>1 DEF Inv, Good
  <2>2. i <= Len(Params) + 1
    BY <1>1, <2>1 DEF Bounds, Params
  <2> QED BY <1>1, <2>1, <2>2, Typed DEF ArchiveInv
<1>5. Targets(i)' = Sources(i)
  <2>1. Targets(i)' = {j \in 1 .. Len(Params) : j < 1 \/ ~ Skip(Params[j])}
    BY <1>1 DEF Targets, Skip, Params
  <2>2. Sources(i) = {j \in 1 .. Len(Params) : ~ Skip(Params[j])}
    BY <1>4, Typed DEF Sources
  <2> QED BY <2>1, <2>2, Typed
<1>6. ArchiveInv' /\ Bounds'
  BY <1>1, <1>4, <1>5, Typed DEF ArchiveInv, Bounds, Params
<1> QED BY <1>2, <1>3, <1>6 DEF Inv, Good

\* The second loop adds a parameter that is external.
LEMMA AddExternalInv == Inv /\ AddExternal => Inv'
<1> SUFFICES ASSUME Inv, AddExternal PROVE Inv'
  OBVIOUS
<1>1. /\ pc = "external" /\ pc' = pc /\ i <= Len(Params) /\ i' = i + 1
      /\ UNCHANGED <<graph, module, parameter_initializers_, skipped>>
      /\ Params' = Params /\ source' = source /\ provider' = provider
      /\ target' = IF External THEN Append(target, Entry) ELSE target
  BY DEF AddExternal, Params
<1>2. /\ Sound(module', skipped', Passed') /\ ParamsInv'
      /\ ParamsFit(graph, module, Params)
  BY <1>1, ArchiveStep
<1>3. /\ i \in 1 .. Len(Params) /\ EntryOf(graph, Params[i]) \in EntryType
      /\ Entry = EntryOf(graph, Params[i]) /\ (External <=> Skip(Params[i]))
      /\ i + 1 \in Nat \ {0} /\ i + 1 <= Len(Params) + 1
  BY <1>1, EntryTyped
<1>4. Exact(target, graph, Params, Targets(i))
  BY <1>1 DEF Inv, Good, ArchiveInv
<1>5. target' \in Seq(EntryType) /\ Exact(target', graph, Params, Targets(i + 1))
  <2>1. CASE ~ External
    <3>1. Targets(i + 1) = Targets(i)
      BY <1>3, <2>1, Typed DEF Targets
    <3> QED BY <1>1, <1>4, <2>1, <3>1, Typed
  <2>2. CASE External
    <3>1. Targets(i + 1) = Targets(i) \cup {i} /\ i \notin Targets(i)
      BY <1>3, <2>2, Typed DEF Targets
    <3>2. Targets(i) \in SUBSET (1 .. Len(Params))
      BY DEF Targets
    <3>3. target' = Append(target, EntryOf(graph, Params[i]))
      BY <1>1, <1>3, <2>2
    <3>4. target' \in Seq(EntryType)
      BY <1>3, <3>3, Typed, AppendProperties
    <3>5. Exact(target', graph, Params, Targets(i) \cup {i})
      BY <1>2, <1>3, <1>4, <3>1, <3>2, <3>3, Typed, ExactStep
    <3> QED BY <3>1, <3>4, <3>5
  <2> QED BY <2>1, <2>2
<1>6. graph' \in Graphs /\ TypeOK'
  BY <1>1, <1>3, <1>5, Typed, TypeStep DEF Inv, TypeOK
<1>7. Bounds'
  BY <1>1, <1>3 DEF Bounds, Params
<1>8. ArchiveInv'
  <2>1. Targets(i)' = Targets(i + 1)
    BY <1>1 DEF Targets, Skip, Params
  <2> QED BY <1>1, <1>5, <2>1 DEF ArchiveInv
<1> QED BY <1>2, <1>6, <1>7, <1>8 DEF Inv, Good

\* The provider is handed out with the entries of all parameters.
LEMMA CreateProviderInv == Inv /\ CreateProvider => Inv'
<1> SUFFICES ASSUME Inv, CreateProvider PROVE Inv'
  OBVIOUS
<1>1. /\ pc = "external" /\ pc' = "done" /\ i > Len(Params) /\ i' = 1
      /\ UNCHANGED <<graph, module, parameter_initializers_, skipped>>
      /\ Params' = Params /\ source' = source /\ target' = target
  BY DEF CreateProvider, Params
<1>2. provider' = TRUE
  BY DEF CreateProvider
<1>3. Sound(module', skipped', Passed') /\ ParamsInv'
  BY <1>1, ArchiveStep
<1>4. graph' \in Graphs /\ TypeOK'
  BY <1>1, <1>2, Typed, TypeStep
<1>5. Exact(target, graph, Params, Targets(i)) /\ i = Len(Params) + 1
  <2>1. ArchiveInv /\ Bounds
    BY <1>1 DEF Inv, Good
  <2>2. i <= Len(Params) + 1
    BY <1>1, <2>1 DEF Bounds, Params
  <2> QED BY <1>1, <2>1, <2>2, Typed DEF ArchiveInv
<1>6. Targets(i) = 1 .. Len(Params)
  BY <1>5, Typed DEF Targets
<1>7. ArchiveInv'
  BY <1>1, <1>2, <1>5, <1>6 DEF ArchiveInv
<1>8. Bounds'
  BY <1>1 DEF Bounds
<1> QED BY <1>3, <1>4, <1>7, <1>8 DEF Inv, Good

\* Nothing is claimed of a failed call but its type.
LEMMA FailInv == Inv /\ Fail => Inv'
<1> SUFFICES ASSUME Inv, Fail PROVE Inv'
  OBVIOUS
<1>1. /\ pc' = "failed" /\ graph' = graph /\ i' = i /\ module' = module
      /\ Params' = Params /\ source' = source /\ target' = target
      /\ provider' = provider /\ skipped' = skipped
  BY DEF Fail, archiveVars, Params
<1>2. graph' \in Graphs /\ TypeOK'
  BY <1>1, Typed, TypeStep DEF Inv, TypeOK
<1> QED BY <1>1, <1>2 DEF Inv

\* The invariant holds in every state.
THEOREM GeneratorInductive == Spec => []Inv
<1>1. ASSUME Inv, [Next]_vars PROVE Inv'
  <2>1. CASE EmitModuleHeader
    BY <1>1, <2>1, EmitModuleHeaderInv
  <2>2. ASSUME NEW ok \in BOOLEAN, EmitInline(ok) PROVE Inv'
    BY <1>1, <2>2, EmitInlineInv
  <2>3. CASE EmitParameter
    BY <1>1, <2>3, EmitParameterInv
  <2>4. CASE InitializersDone
    BY <1>1, <2>4, InitializersDoneInv
  <2>5. CASE EmitNode
    BY <1>1, <2>5, EmitNodeInv
  <2>6. CASE EmitReturn
    BY <1>1, <2>6, EmitReturnInv
  <2>7. CASE AddSource
    BY <1>1, <2>7, AddSourceInv
  <2>8. CASE BuildArchive
    BY <1>1, <2>8, BuildArchiveInv
  <2>9. CASE AddExternal
    BY <1>1, <2>9, AddExternalInv
  <2>10. CASE CreateProvider
    BY <1>1, <2>10, CreateProviderInv
  <2>11. CASE Fail
    BY <1>1, <2>11, FailInv
  <2>12. CASE UNCHANGED vars
    <3>1. TypeOK' /\ (graph \in Graphs)'
      BY <1>1, <2>12 DEF Inv, TypeOK, vars, Values, Keys, Names, InitNames
    <3>2. Good => Good'
      BY <2>12 DEF Good, Bounds, Passed, ParamsInv, ArchiveInv, Params, Sources,
         Targets, Skip, Names, InitNames, vars
    <3> QED BY <1>1, <2>12, <3>1, <3>2 DEF Inv, vars
  <2> QED
    BY <1>1, <2>1, <2>2, <2>3, <2>4, <2>5, <2>6, <2>7, <2>8, <2>9, <2>10, <2>11,
       <2>12 DEF Next
<1> QED BY <1>1, InitInv, PTL DEF Spec


-------------------------------------------------------------------------------
(* The properties.                                                           *)

\* TypeOK holds for every set of valid graphs: the module speaks of the graph's
\* values only, and a recorded index is that of an initializer.
THEOREM GeneratorTypeCorrect == Spec => []TypeOK
<1>1. Inv => TypeOK
  BY DEF Inv
<1> QED BY <1>1, GeneratorInductive, PTL

\* At the end the five facts hold of all the graph's names, in the terms of the
\* properties.
LEMMA DoneFacts ==
  ASSUME Inv, pc = "done"
  PROVE  /\ Once(module) /\ DOMAIN module = 1 .. Len(module) /\ Len(module) \in Nat
         /\ \A k \in DOMAIN module : DefsBefore(k) = DefsIn(module, k)
         /\ \A k \in DOMAIN module : \A u \in module[k].uses :
              u \in DefsBefore(k) \/ u.name \in skipped
         /\ \A k \in DOMAIN module :
              module[k].defs \subseteq Values /\ module[k].uses \subseteq Values
         /\ \A k \in DOMAIN module : \A p \in DefsBefore(k) :
              p.name \notin skipped /\ \E j \in DOMAIN module : p \in module[j].defs
<1>1. /\ Once(module) /\ UsesKnown(module, skipped)
      /\ \A p \in AllDefs(module) : p.name \notin skipped
  BY DEF Inv, Good, Sound, LeftOut
<1>2. module \in Seq(Ops) /\ DOMAIN module = 1 .. Len(module) /\ Len(module) \in Nat
  BY Typed
<1>3. \A k \in DOMAIN module : DefsBefore(k) = DefsIn(module, k)
  BY DEF DefsBefore, DefsIn
<1>4. ASSUME NEW k \in DOMAIN module
      PROVE  module[k].defs \subseteq Values /\ module[k].uses \subseteq Values
  <2>1. module[k] \in Ops
    BY <1>2, ElementOfSeq
  <2> QED BY <2>1 DEF Ops
<1>5. \A k \in DOMAIN module : \A u \in module[k].uses :
        u \in DefsBefore(k) \/ u.name \in skipped
  BY <1>1, <1>2, <1>3 DEF UsesKnown
<1>6. ASSUME NEW k \in DOMAIN module, NEW p \in DefsBefore(k)
      PROVE  p.name \notin skipped /\ \E j \in DOMAIN module : p \in module[j].defs
  <2>1. 1 .. (k - 1) \subseteq DOMAIN module
    BY <1>2
  <2>2. PICK j \in DOMAIN module : p \in module[j].defs
    BY <2>1 DEF DefsBefore
  <2>3. p \in AllDefs(module)
    BY <1>2, <2>2, DefsAreIn
  <2> QED BY <1>1, <2>2, <2>3
<1> QED BY <1>1, <1>2, <1>3, <1>4, <1>5, <1>6

\* PlainGraphsAccepted holds for every valid graph: one whose names stay apart
\* after SanitizeName becomes a module that defines every id once and before its
\* use if, and only if, it uses no initializer that could not be read.
THEOREM PlainGraphsBecomeModules == Spec => []PlainGraphsAccepted
<1>1. ASSUME Inv PROVE PlainGraphsAccepted
  <2> SUFFICES ASSUME pc = "done", Apart
               PROVE  WellFormed <=> \A k \in DOMAIN module : \A u \in module[k].uses :
                                       u.name \notin skipped
    BY DEF PlainGraphsAccepted
  <2>1. /\ Once(module) /\ DOMAIN module = 1 .. Len(module)
        /\ \A k \in DOMAIN module : \A u \in module[k].uses :
             u \in DefsBefore(k) \/ u.name \in skipped
        /\ \A k \in DOMAIN module :
             module[k].defs \subseteq Values /\ module[k].uses \subseteq Values
        /\ \A k \in DOMAIN module : \A p \in DefsBefore(k) :
             p.name \notin skipped /\ \E j \in DOMAIN module : p \in module[j].defs
    BY <1>1, DoneFacts
  <2>2. ASSUME NEW j \in DOMAIN module, NEW k \in DOMAIN module,
               NEW p \in module[j].defs, NEW q \in module[k].defs, p.id = q.id
        PROVE  j = k /\ p = q
    <3>1. p \in Values /\ q \in Values
      BY <2>1
    <3>2. p = q
      BY <2>2, <3>1 DEF Apart
    <3>3. j = k
      BY <2>1, <3>2 DEF Once
    <3> QED BY <3>2, <3>3
  <2>3. ASSUME NEW k \in DOMAIN module, NEW u \in module[k].uses
        PROVE  Meant(u, k) # {} <=> u.name \notin skipped
    <3>1. ASSUME u.name \notin skipped PROVE Meant(u, k) # {}
      <4>1. u \in DefsBefore(k)
        BY <2>1, <3>1
      <4> QED BY <4>1 DEF Meant
    <3>2. ASSUME NEW p \in Meant(u, k) PROVE u.name \notin skipped
      <4>1. p \in DefsBefore(k) /\ p.id = u.id
        BY DEF Meant
      <4>2. p \in Values /\ u \in Values
        BY <2>1, <4>1
      <4>3. p = u
        BY <4>1, <4>2 DEF Apart
      <4> QED BY <2>1, <4>1, <4>3
    <3> QED BY <3>1, <3>2
  <2> QED BY <2>2, <2>3 DEF WellFormed
<1> QED BY <1>1, GeneratorInductive, PTL

\* AcceptedMeansFaithful holds for every valid graph: in a module that
\* iree-compile accepts each operand is the value the graph names, unless that is
\* an initializer that was left out and another of the graph's values has its id.
THEOREM AcceptedModulesAreFaithful == Spec => []AcceptedMeansFaithful
<1>1. ASSUME Inv PROVE AcceptedMeansFaithful
  <2> SUFFICES ASSUME pc = "done", WellFormed,
                      NEW k \in DOMAIN module, NEW u \in module[k].uses
               PROVE  \/ Meant(u, k) = {u}
                      \/ u.name \in skipped /\ \E p \in Values \ {u} : p.id = u.id
    BY DEF AcceptedMeansFaithful
  <2>1. /\ u \in DefsBefore(k) \/ u.name \in skipped
        /\ \A j \in DOMAIN module : module[j].defs \subseteq Values
        /\ \A p \in DefsBefore(k) :
             p.name \notin skipped /\ \E j \in DOMAIN module : p \in module[j].defs
    BY <1>1, DoneFacts
  <2>2. CASE u \in DefsBefore(k)
    <3>1. ASSUME NEW p \in DefsBefore(k), p.id = u.id PROVE p = u
      <4>1. PICK j \in DOMAIN module : p \in module[j].defs
        BY <2>1
      <4>2. PICK l \in DOMAIN module : u \in module[l].defs
        BY <2>1, <2>2
      <4> QED BY <3>1, <4>1, <4>2 DEF WellFormed
    <3> QED BY <2>2, <3>1 DEF Meant
  <2>3. CASE u \notin DefsBefore(k)
    <3>1. PICK p \in Meant(u, k) : TRUE
      BY DEF WellFormed
    <3>2. p \in DefsBefore(k) /\ p.id = u.id
      BY <3>1 DEF Meant
    <3>3. p \in Values /\ p # u
      BY <2>1, <2>3, <3>2
    <3> QED BY <2>1, <2>3, <3>2, <3>3
  <2> QED BY <2>2, <2>3
<1> QED BY <1>1, GeneratorInductive, PTL

\* ParametersResolve holds for every valid graph: each parameter reference of an
\* accepted module has exactly one entry in the index handed to the session, and
\* it holds the data of the initializer the reference is for.
THEOREM ParametersAreFound == Spec => []ParametersResolve
<1>1. ASSUME Inv PROVE ParametersResolve
  <2> SUFFICES ASSUME pc = "done", WellFormed,
                      NEW k \in DOMAIN module, module[k].key # NoKey
               PROVE  /\ provider
                      /\ \E e \in DOMAIN target :
                           /\ target[e].key = module[k].key
                           /\ module[k].defs = {Raw(target[e].data)}
                           /\ \A f \in DOMAIN target :
                                target[f].key = module[k].key => f = e
    BY DEF ParametersResolve
  <2>1. /\ module \in Seq(Ops) /\ DOMAIN module = 1 .. Len(module)
        /\ ParamsFit(graph, module, Params) /\ KeysFit(graph, module, Params)
        /\ ArchiveInv
    BY <1>1, Typed DEF Inv, Good, ParamsInv, Params
  <2>2. PICK j \in 1 .. Len(Params) :
          /\ module[k].key = Params[j].key
          /\ module[k].defs = {Raw(InitOf(graph, Params[j]).name)}
    BY <2>1 DEF KeysFit
  <2>3. provider /\ Exact(target, graph, Params, 1 .. Len(Params))
    <3>1. Params # << >>
      <4>1. 1 .. Len(<< >>) = {}
        OBVIOUS
      <4> QED BY <2>2, <4>1
    <3> QED BY <2>1, <3>1 DEF ArchiveInv
  <2>4. PICK e \in DOMAIN target : target[e] = EntryOf(graph, Params[j])
    BY <2>2, <2>3 DEF Exact, Range
  <2>5. target[e].key = module[k].key /\ module[k].defs = {Raw(target[e].data)}
    BY <2>2, <2>4 DEF EntryOf
  <2>6. ASSUME NEW f \in DOMAIN target, target[f].key = module[k].key PROVE f = e
    <3>1. PICK l \in 1 .. Len(Params) : target[f] = EntryOf(graph, Params[l])
      BY <2>3 DEF Exact, Range
    <3> DEFINE p == InitOf(graph, Params[l]).name
               q == InitOf(graph, Params[j]).name
    <3>2. /\ Params[l].key = SanitizeName(p) /\ Params[j].key = SanitizeName(q)
          /\ Raw(p) \in AllDefs(module) /\ Raw(q) \in AllDefs(module)
      BY <2>1 DEF ParamsFit
    <3>3. target[f].key = Params[l].key /\ target[f].data = p /\ target[e].data = q
      BY <2>4, <3>1 DEF EntryOf
    <3> HIDE DEF p, q
    <3>4. SanitizeName(p) = SanitizeName(q)
      BY <2>2, <2>6, <3>2, <3>3
    <3>5. Raw(p).id = Raw(q).id /\ Raw(p).name = p /\ Raw(q).name = q
      BY <3>4 DEF Raw
    <3>6. PICK a \in DOMAIN module : Raw(p) \in module[a].defs
      BY <2>1, <3>2, DefsAreIn
    <3>7. PICK b \in DOMAIN module : Raw(q) \in module[b].defs
      BY <2>1, <3>2, DefsAreIn
    <3>8. Raw(p) = Raw(q)
      BY <3>5, <3>6, <3>7 DEF WellFormed
    <3>9. p = q
      BY <3>5, <3>8
    <3> QED BY <2>3, <3>3, <3>9 DEF Exact
  <2> QED BY <2>3, <2>5, <2>6
<1> QED BY <1>1, GeneratorInductive, PTL
===============================================================================
