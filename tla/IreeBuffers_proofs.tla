-------------------------- MODULE IreeBuffers_proofs --------------------------
(***************************************************************************)
(* Theorems about IreeBuffers: references to buffers are counted exactly,   *)
(* a device tensor's raw pointer is its own, and Compute and CopyTensors    *)
(* implement TensorStore.                                                   *)
(***************************************************************************)
EXTENDS IreeBuffers, SequenceTheorems, FiniteSetTheorems, TLAPS

-------------------------------------------------------------------------------
(* The parts of the inductive invariant.                                      *)

\* Buffers that an allocator's map keeps.
Owned == UNION {allocations_[d] : d \in Devices}

\* Where a call is, its index and the length of its lists agree.
CallShape(th) ==
  LET c == call[th] IN
  \/ pc[th] = "idle" /\ c = NoCall
  \/ /\ pc[th] = "inputs" /\ c.op = "Compute" /\ c.dev \in alive
     /\ c.i <= Len(c.src) + 1 /\ Len(c.views) = c.i - 1 /\ c.outs = << >>
     /\ Len(c.vals) = Len(c.dst)
  \/ /\ pc[th] = "outputs" /\ c.op = "Compute" /\ c.dev \in alive
     /\ c.i <= Len(c.dst) + 1 /\ Len(c.views) = Len(c.src)
     /\ Len(c.outs) = Len(c.dst) /\ Len(c.vals) = Len(c.dst)
  \/ /\ pc[th] = "copy" /\ c.op = "CopyTensors"
     /\ c.i <= Len(c.dst) + 1 /\ Len(c.src) = Len(c.dst)
     /\ c.views = << >> /\ c.outs = << >>
CallShapes == \A th \in Threads : CallShape(th)

\* The host's part: no call writes a tensor of another call, and the tensors that a
\* call reads stay.
Apart ==
  /\ \A th \in Threads : IsInjective(call[th].dst)
  /\ \A th, u \in Threads : th # u =>
       Range(call[th].dst) \cap (Range(call[u].src) \cup Range(call[u].dst)) = {}
Present ==
  \A th \in Threads :
    /\ \A t \in Range(call[th].src) : pc[th] \in {"inputs", "copy"} => Exists(t)
    /\ \A t \in Range(call[th].dst) : pc[th] = "copy" => Exists(t)

\* Host tensors have no buffer, destroyed allocators no entries.
NoHandles ==
  /\ \A t \in Tensors : ~OnDevice(t) => tensor[t].buf = "null"
  /\ \A d \in Devices \ alive : allocations_[d] = {}

\* While a call collects its inputs they are as they were at the call; view k is of
\* the k-th input's own buffer, or of a copy that no allocator knows.
InputsKept(th) ==
  LET c == call[th] IN
  pc[th] = "inputs" =>
    /\ c.vals = [j \in DOMAIN c.dst |-> Result(j, [k \in DOMAIN c.src |-> Content(c.src[k])])]
    /\ \A k \in DOMAIN c.views :
         IF OnDevice(c.src[k])
         THEN c.views[k] = tensor[c.src[k]].buf
         ELSE c.views[k] \notin Owned /\ data[c.views[k]] = tensor[c.src[k]].val

\* The outputs still to be copied are the results, in buffers no allocator knows.
OutputsKept(th) ==
  LET c == call[th] IN
  pc[th] = "outputs" =>
    \A j \in c.i .. Len(c.outs) :
      c.outs[j] \notin Owned /\ data[c.outs[j]] = c.vals[j]

Kept == \A th \in Threads : InputsKept(th) /\ OutputsKept(th)

\* The inductive invariant.
IInv == /\ TypeOK /\ CallShapes /\ Apart /\ Present /\ NoHandles
        /\ BufferRefsExact /\ HandlesOwned /\ Kept

-------------------------------------------------------------------------------
(* Calls and their lists.                                                    *)

\* A bounded argument list is a sequence.
LEMMA UpToSeq ==
  ASSUME NEW S, NEW n \in Nat, NEW s \in UpTo(S, n)
  PROVE  s \in Seq(S) /\ Len(s) \in 0 .. n
<1>1. PICK k \in 0 .. n : s \in [1 .. k -> S]
  BY DEF UpTo
<1>. QED
  BY <1>1

\* And conversely.
LEMMA SeqUpTo ==
  ASSUME NEW S, NEW n \in Nat, NEW s \in Seq(S), Len(s) <= n
  PROVE  s \in UpTo(S, n)
<1>1. Len(s) \in 0 .. n /\ s \in [1 .. Len(s) -> S]
  OBVIOUS
<1>. QED
  BY <1>1 DEF UpTo

\* The type of a call, field by field.
LEMMA CallFields ==
  ASSUME NEW c \in Call
  PROVE  /\ c.src \in Seq(Tensors) /\ Len(c.src) \in 0 .. MaxInputs
         /\ c.dst \in Seq(Tensors) /\ Len(c.dst) \in 0 .. MaxOutputs
         /\ c.views \in Seq(Buffers) /\ Len(c.views) \in 0 .. MaxInputs
         /\ c.outs \in Seq(Buffers) /\ Len(c.outs) \in 0 .. MaxOutputs
         /\ c.vals \in Seq(Values) /\ c.i \in Nat \ {0}
         /\ c.dev \in Devices \cup {"none"}
<1>1. /\ c.src \in UpTo(Tensors, MaxInputs) /\ c.dst \in UpTo(Tensors, MaxOutputs)
      /\ c.views \in UpTo(Buffers, MaxInputs) /\ c.outs \in UpTo(Buffers, MaxOutputs)
      /\ c.vals \in Seq(Values) /\ c.i \in Nat \ {0}
      /\ c.dev \in Devices \cup {"none"}
  BY DEF Call
<1>. QED
  BY <1>1, UpToSeq, BoundsAssumption

\* No call yet is a call.
LEMMA NoCallType ==
  /\ NoCall \in Call
  /\ NoCall.src = << >> /\ NoCall.dst = << >> /\ NoCall.views = << >>
  /\ NoCall.outs = << >> /\ NoCall.i = 1
<1>1. << >> \in Seq(Tensors) /\ << >> \in Seq(Buffers) 
      /\ Len(<< >>) <= MaxInputs /\ Len(<< >>) <= MaxOutputs
  BY BoundsAssumption
<1>2. /\ << >> \in UpTo(Tensors, MaxInputs) /\ << >> \in UpTo(Tensors, MaxOutputs)
      /\ << >> \in UpTo(Buffers, MaxInputs) /\ << >> \in UpTo(Buffers, MaxOutputs)
  BY <1>1, SeqUpTo, BoundsAssumption
<1>. QED
  BY <1>2 DEF NoCall, Call

\* Tensors and their values.
LEMMA TensorFields ==
  ASSUME TypeOK, NEW t \in Tensors
  PROVE  /\ tensor[t] \in OrtValue /\ tensor[t].val \in Values
         /\ OnDevice(t) => Exists(t)
         /\ OnDevice(t) /\ HandlesOwned => tensor[t].buf \in Buffers
         /\ HandlesOwned => Content(t) \in Values
<1>1. tensor[t] \in OrtValue
  BY DEF TypeOK
<1>2. tensor[t].val \in Values
  BY <1>1 DEF OrtValue
<1>3. OnDevice(t) => Exists(t)
  BY NamesAssumption DEF OnDevice, Exists
<1>4. OnDevice(t) /\ HandlesOwned => tensor[t].buf \in Buffers
  BY DEF OnDevice, HandlesOwned, TypeOK
<1>. QED
  BY <1>1, <1>2, <1>3, <1>4 DEF Content, TypeOK

-------------------------------------------------------------------------------
(* What a step changes.                                                      *)

\* Thread th is called.
Begins(th) ==
  \E src \in UpTo(Tensors, MaxInputs), dst \in UpTo(Tensors, MaxOutputs) :
    (\E d \in Devices : Compute(th, d, src, dst)) \/ CopyTensors(th, src, dst)
\* Thread th returns.
Ends(th) == FinishCompute(th) \/ FailCompute(th) \/ ReturnCopy(th)
\* Thread th is at a copy to its i-th destination.
Writing(th, t) ==
  /\ pc[th] \in {"outputs", "copy"} /\ call[th].i <= Len(call[th].dst)
  /\ t = call[th].dst[call[th].i]

\* The steps of the host alone leave the calls as they are.
HostAlone ==
  \/ \E t \in Tensors, v \in Values : CreateHostTensor(t, v)
  \/ \E t \in Tensors : DropHostTensor(t) \/ FreeImpl(t)
  \/ \E d \in Devices, t \in Tensors : AllocImpl(d, t)
  \/ \E d \in Devices : DestroyAllocator(d)

\* A step is the host's alone, or begins or continues one thread's call.
LEMMA NextCases ==
  ASSUME [Next]_vars
  PROVE  HostAlone \/ (\E th \in Threads : Begins(th) \/ Step(th)) \/ UNCHANGED vars
BY DEF Next, Host, HostAlone, Begins

\* The host's own steps leave every call where it is.
LEMMA HostAloneCalls ==
  ASSUME HostAlone
  PROVE  UNCHANGED <<pc, call>>
BY DEF HostAlone, CreateHostTensor, DropHostTensor, FreeImpl, AllocImpl,
   DestroyAllocator

\* A call's step is its own.
LEMMA OtherCalls ==
  ASSUME TypeOK, NEW u \in Threads, Begins(u) \/ Step(u), NEW th \in Threads \ {u}
  PROVE  call'[th] = call[th] /\ pc'[th] = pc[th]
<1>1. call \in [Threads -> Call] /\ pc \in [Threads -> {"idle", "inputs", "outputs", "copy"}]
  BY DEF TypeOK
<1>2. CASE Begins(u)
  <2>1. \E c, p : call' = [call EXCEPT ![u] = c] /\ pc' = [pc EXCEPT ![u] = p]
    BY <1>2 DEF Begins, Compute, CopyTensors
  <2>. QED
    BY <1>1, <2>1
<1>3. CASE Step(u)
  <2>1. \/ UNCHANGED pc
        \/ \E p : pc' = [pc EXCEPT ![u] = p]
    BY <1>3 DEF Step, WrapInput, CopyInput, Invoke, GetOutput, Output, FinishCompute,
       FailCompute, CopyOne, ReturnCopy, Return
  <2>2. \/ UNCHANGED call
        \/ \E c : call' = [call EXCEPT ![u] = c]
    BY <1>3 DEF Step, WrapInput, CopyInput, Invoke, GetOutput, Output, FinishCompute,
       FailCompute, CopyOne, ReturnCopy, Return, Next_i
  <2>. QED
    BY <1>1, <2>1, <2>2
<1>. QED
  BY <1>2, <1>3

\* What changes a call.
LEMMA CallChange ==
  ASSUME TypeOK, [Next]_vars, NEW th \in Threads
  PROVE  \/ call'[th] = call[th] /\ pc'[th] = pc[th]
         \/ Begins(th)
         \/ WrapInput(th) \/ CopyInput(th) \/ Invoke(th)
         \/ Output(th) \/ CopyOne(th) \/ Ends(th)
<1>1. CASE HostAlone
  BY <1>1, HostAloneCalls
<1>2. ASSUME NEW u \in Threads, Begins(u) \/ Step(u), u # th
      PROVE  call'[th] = call[th] /\ pc'[th] = pc[th]
  BY <1>2, OtherCalls
<1>3. CASE Begins(th) \/ Step(th)
  BY <1>3 DEF Step, Ends, GetOutput
<1>. QED
  BY <1>1, <1>2, <1>3, NextCases DEF vars

\* What changes a tensor: the host, when no call uses it, and a write to it.
LEMMA TensorChange ==
  ASSUME TypeOK, CallShapes, [Next]_vars, NEW t \in Tensors, tensor'[t] # tensor[t]
  PROVE  \/ ~InUse(t)
         \/ \E th \in Threads : Writing(th, t)
<1>1. tensor \in [Tensors -> OrtValue]
  BY DEF TypeOK
<1>2. CASE HostAlone
  <2>1. CASE \E d \in Devices : DestroyAllocator(d)
    <3>1. \A th \in Threads : call[th] = NoCall
      BY <2>1 DEF DestroyAllocator, CallShapes, CallShape
    <3>2. \A th \in Threads : call[th].src = << >> /\ call[th].dst = << >>
      BY <3>1, NoCallType
    <3>. QED
      BY <3>2 DEF InUse, Uses, Range
  <2>. QED
    BY <1>1, <1>2, <2>1 DEF HostAlone, CreateHostTensor, DropHostTensor, FreeImpl,
       AllocImpl
<1>3. ASSUME NEW th \in Threads, Begins(th)
      PROVE  tensor' = tensor
  BY <1>3 DEF Begins, Compute, CopyTensors
<1>4. ASSUME NEW th \in Threads, Step(th)
      PROVE  Writing(th, t)
  <2>1. CASE GetOutput(th)
    <3>1. \E v : tensor' = [tensor EXCEPT ![call[th].dst[call[th].i]] = v]
      BY <2>1 DEF GetOutput
    <3>. QED
      BY <1>1, <2>1, <3>1 DEF GetOutput, Writing
  <2>2. CASE Output(th) \/ CopyOne(th)
    <3>1. /\ pc[th] \in {"outputs", "copy"} /\ call[th].i <= Len(call[th].dst)
          /\ \E v : Store(call[th].dst[call[th].i], v)
      <4>1. CASE Output(th)
        BY <4>1 DEF Output
      <4>2. CASE CopyOne(th)
        <5>1. Len(call[th].src) = Len(call[th].dst)
          BY <4>2 DEF CopyOne, CallShapes, CallShape
        <5>. QED
          BY <4>2, <5>1 DEF CopyOne
      <4>. QED
        BY <2>2, <4>1, <4>2
    <3>. QED
      BY <1>1, <3>1 DEF Store, Writing
  <2>. QED
    BY <1>4, <2>1, <2>2 DEF Step, WrapInput, CopyInput, Invoke, FinishCompute,
       FailCompute, ReturnCopy
<1>. QED
  BY <1>2, <1>3, <1>4, NextCases DEF vars

\* What changes the contents of a buffer: a new holder, and a write to its tensor.
LEMMA DataChange ==
  ASSUME TypeOK, CallShapes, [Next]_vars, NEW b \in Buffers, data'[b] # data[b]
  PROVE  \/ refs[b] = 0
         \/ \E th \in Threads, t \in Tensors :
              Writing(th, t) /\ OnDevice(t) /\ tensor[t].buf = b
<1>1. data \in [Buffers -> Values]
  BY DEF TypeOK
<1>2. CASE HostAlone
  BY <1>2 DEF HostAlone, CreateHostTensor, DropHostTensor, FreeImpl, AllocImpl,
     DestroyAllocator
<1>3. ASSUME NEW th \in Threads, Begins(th)
      PROVE  data' = data
  BY <1>3 DEF Begins, Compute, CopyTensors
<1>4. ASSUME NEW th \in Threads, Step(th)
      PROVE  \/ refs[b] = 0
             \/ \E t \in Tensors : Writing(th, t) /\ OnDevice(t) /\ tensor[t].buf = b
  <2>1. CASE CopyInput(th)
    <3>1. \E f \in Free : \E v : data' = [data EXCEPT ![f] = v]
      BY <2>1 DEF CopyInput
    <3>. QED
      BY <1>1, <3>1 DEF Free
  <2>2. CASE Invoke(th)
    <3>1. \E outs \in [1 .. Len(call[th].dst) -> Free] : b \in Range(outs)
      BY <1>1, <2>2 DEF Invoke
    <3>. QED
      BY <3>1 DEF Range, Free
  <2>3. CASE Output(th) \/ CopyOne(th)
    <3> DEFINE t == call[th].dst[call[th].i]
    <3>1. Writing(th, t) /\ \E v : Store(t, v)
      <4>1. CASE Output(th)
        BY <4>1 DEF Output, Writing
      <4>2. CASE CopyOne(th)
        <5>1. Len(call[th].src) = Len(call[th].dst)
          BY <4>2 DEF CopyOne, CallShapes, CallShape
        <5>. QED
          BY <4>2, <5>1 DEF CopyOne, Writing
      <4>. QED
        BY <2>3, <4>1, <4>2
    <3>2. t \in Tensors
      <4>1. call[th] \in Call
        BY DEF TypeOK
      <4>. QED
        BY <3>1, <4>1, CallFields DEF Writing
    <3>3. OnDevice(t) /\ tensor[t].buf = b
      BY <1>1, <3>1 DEF Store
    <3>. QED
      BY <3>1, <3>2, <3>3
  <2>. QED
    BY <1>4, <2>1, <2>2, <2>3 DEF Step, WrapInput, GetOutput, FinishCompute,
       FailCompute, ReturnCopy
<1>. QED
  BY <1>2, <1>3, <1>4, NextCases DEF vars

\* A buffer that becomes an allocator's was free.
LEMMA OwnedChange ==
  ASSUME TypeOK, [Next]_vars, NEW b \in Buffers, b \in Owned', b \notin Owned
  PROVE  refs[b] = 0
<1>1. allocations_ \in [Devices -> SUBSET Buffers]
  BY DEF TypeOK
<1>2. CASE HostAlone
  <2>1. CASE \E d \in Devices, t \in Tensors : AllocImpl(d, t)
    <3>1. \E d \in Devices, f \in Free : allocations_' = [allocations_ EXCEPT ![d] = @ \cup {f}]
      BY <2>1 DEF AllocImpl
    <3>. QED
      BY <1>1, <3>1 DEF Owned, Free
  <2>2. CASE \E d \in Devices : DestroyAllocator(d)
    BY <1>1, <2>2 DEF DestroyAllocator, Owned
  <2>3. CASE \E t \in Tensors : FreeImpl(t)
    BY <1>1, <2>3 DEF FreeImpl, Owned, OnDevice
  <2>. QED
    BY <1>2, <2>1, <2>2, <2>3 DEF HostAlone, CreateHostTensor, DropHostTensor, Owned
<1>3. ASSUME NEW th \in Threads, Begins(th) \/ Step(th)
      PROVE  refs[b] = 0
  <2>1. CASE GetOutput(th)
    <3>1. \/ UNCHANGED allocations_
          \/ \E d : \E f \in Free : allocations_' = [allocations_ EXCEPT ![d] = @ \cup {f}]
      BY <2>1 DEF GetOutput
    <3>. QED
      BY <1>1, <3>1 DEF Owned, Free
  <2>. QED
    BY <1>3, <2>1 DEF Begins, Compute, CopyTensors, Step, WrapInput, CopyInput, Invoke,
       Output, FinishCompute, FailCompute, CopyOne, ReturnCopy, Owned
<1>. QED
  BY <1>2, <1>3, NextCases DEF vars, Owned

-------------------------------------------------------------------------------
(* Counting the holders of a buffer.                                         *)

\* The lists of a call are within the bounds.
LEMMA HeldBounds ==
  ASSUME NEW c \in Call, NEW b
  PROVE  /\ HeldViews(c, b) \subseteq 1 .. MaxInputs
         /\ HeldOuts(c, b) \subseteq 1 .. MaxOutputs
         /\ IsFiniteSet(HeldViews(c, b)) /\ IsFiniteSet(HeldOuts(c, b))
<1>1. /\ HeldViews(c, b) \subseteq 1 .. MaxInputs
      /\ HeldOuts(c, b) \subseteq 1 .. MaxOutputs
  BY CallFields, BoundsAssumption DEF HeldViews, HeldOuts
<1>2. IsFiniteSet(1 .. MaxInputs) /\ IsFiniteSet(1 .. MaxOutputs)
  BY BoundsAssumption, FS_Interval
<1>. QED
  BY <1>1, <1>2, FS_Subset

\* The numbers of holders are numbers.
LEMMA CountsFinite ==
  ASSUME NEW b
  PROVE  /\ IsFiniteSet(Entries(b)) /\ Cardinality(Entries(b)) \in Nat
         /\ IsFiniteSet(InputViews(b)) /\ Cardinality(InputViews(b)) \in Nat
         /\ IsFiniteSet(OutputViews(b)) /\ Cardinality(OutputViews(b)) \in Nat
<1>1. IsFiniteSet(1 .. MaxInputs) /\ IsFiniteSet(1 .. MaxOutputs)
  BY BoundsAssumption, FS_Interval
<1>2. IsFiniteSet(Threads \X (1 .. MaxInputs)) /\ IsFiniteSet(Threads \X (1 .. MaxOutputs))
  BY <1>1, FiniteAssumption, FS_Product
<1>3. /\ Entries(b) \subseteq Devices
      /\ InputViews(b) \subseteq Threads \X (1 .. MaxInputs)
      /\ OutputViews(b) \subseteq Threads \X (1 .. MaxOutputs)
  BY DEF Entries, InputViews, OutputViews
<1>4. IsFiniteSet(Entries(b)) /\ IsFiniteSet(InputViews(b)) /\ IsFiniteSet(OutputViews(b))
  BY <1>2, <1>3, FiniteAssumption, FS_Subset
<1>. QED
  BY <1>4, FS_CardinalityType

\* A buffer that something holds is not free.
LEMMA HeldIsCounted ==
  ASSUME TypeOK, BufferRefsExact, NEW b \in Buffers
  PROVE  /\ b \in Owned => refs[b] > 0
         /\ \A th \in Threads : HeldViews(call[th], b) # {} => refs[b] > 0
         /\ \A th \in Threads : HeldOuts(call[th], b) # {} => refs[b] > 0
<1>1. refs[b] = Cardinality(Entries(b)) + Cardinality(InputViews(b))
                + Cardinality(OutputViews(b))
  BY DEF BufferRefsExact
<1>2. /\ Entries(b) # {} => Cardinality(Entries(b)) # 0
      /\ InputViews(b) # {} => Cardinality(InputViews(b)) # 0
      /\ OutputViews(b) # {} => Cardinality(OutputViews(b)) # 0
  BY CountsFinite, FS_EmptySet
<1>3. b \in Owned => Entries(b) # {}
  BY DEF Owned, Entries
<1>4. ASSUME NEW th \in Threads, NEW k \in HeldViews(call[th], b)
      PROVE  <<th, k>> \in InputViews(b)
  BY HeldBounds DEF InputViews, TypeOK
<1>5. ASSUME NEW th \in Threads, NEW k \in HeldOuts(call[th], b)
      PROVE  <<th, k>> \in OutputViews(b)
  BY HeldBounds DEF OutputViews, TypeOK
<1>6. /\ Entries(b) # {} => refs[b] > 0
      /\ InputViews(b) # {} => refs[b] > 0
      /\ OutputViews(b) # {} => refs[b] > 0
  BY <1>1, <1>2, CountsFinite
<1>. QED
  BY <1>3, <1>4, <1>5, <1>6

\* The slots of one thread among those of all.
LEMMA CountSlots ==
  ASSUME NEW R, IsFiniteSet(R), NEW th, NEW H, IsFiniteSet(H),
         R \cap ({th} \X H) = {}
  PROVE  /\ Cardinality(R \cup ({th} \X H)) = Cardinality(R) + Cardinality(H)
         /\ Cardinality(R) \in Nat /\ Cardinality(H) \in Nat
<1>1. /\ IsFiniteSet({th} \X H)
      /\ Cardinality({th} \X H) = Cardinality({th}) * Cardinality(H)
  BY FS_Product, FS_Singleton
<1>2. Cardinality({th}) = 1 /\ Cardinality(H) \in Nat /\ Cardinality(R) \in Nat
  BY FS_Singleton, FS_CardinalityType
<1>4. Cardinality(R \cap ({th} \X H)) = 0
  BY FS_EmptySet
<1>5. Cardinality(R \cup ({th} \X H))
        = Cardinality(R) + Cardinality({th} \X H) - Cardinality(R \cap ({th} \X H))
  BY <1>1, FS_Union
<1>. QED
  BY <1>1, <1>2, <1>4, <1>5

\* The slots of the calls f that hold buffer b, and those of other threads than th.
ViewSlots(f, b) == {v \in Threads \X (1 .. MaxInputs) : v[2] \in HeldViews(f[v[1]], b)}
OutSlots(f, b) == {v \in Threads \X (1 .. MaxOutputs) : v[2] \in HeldOuts(f[v[1]], b)}
Others(S, th) == {v \in S : v[1] # th}

\* A thread's slots can be counted apart.
LEMMA CountApart ==
  ASSUME NEW f \in [Threads -> Call], NEW th \in Threads, NEW b
  PROVE  /\ Cardinality(ViewSlots(f, b))
              = Cardinality(Others(ViewSlots(f, b), th)) + Cardinality(HeldViews(f[th], b))
         /\ Cardinality(OutSlots(f, b))
              = Cardinality(Others(OutSlots(f, b), th)) + Cardinality(HeldOuts(f[th], b))
         /\ Cardinality(Others(ViewSlots(f, b), th)) \in Nat
         /\ Cardinality(Others(OutSlots(f, b), th)) \in Nat
         /\ Cardinality(HeldViews(f[th], b)) \in Nat
         /\ Cardinality(HeldOuts(f[th], b)) \in Nat
<1> DEFINE V == Others(ViewSlots(f, b), th)
           O == Others(OutSlots(f, b), th)
<1>1. /\ HeldViews(f[th], b) \subseteq 1 .. MaxInputs
      /\ HeldOuts(f[th], b) \subseteq 1 .. MaxOutputs
      /\ IsFiniteSet(HeldViews(f[th], b)) /\ IsFiniteSet(HeldOuts(f[th], b))
  BY HeldBounds
<1>2. /\ IsFiniteSet(Threads \X (1 .. MaxInputs))
      /\ IsFiniteSet(Threads \X (1 .. MaxOutputs))
  <2>1. IsFiniteSet(1 .. MaxInputs) /\ IsFiniteSet(1 .. MaxOutputs)
    BY BoundsAssumption, FS_Interval
  <2>. QED
    BY <2>1, FiniteAssumption, FS_Product
<1>3. V \subseteq Threads \X (1 .. MaxInputs) /\ O \subseteq Threads \X (1 .. MaxOutputs)
  BY DEF Others, ViewSlots, OutSlots
<1>4. IsFiniteSet(V) /\ IsFiniteSet(O)
  BY <1>2, <1>3, FS_Subset
<1>5. /\ ViewSlots(f, b) = V \cup ({th} \X HeldViews(f[th], b))
      /\ OutSlots(f, b) = O \cup ({th} \X HeldOuts(f[th], b))
  BY <1>1 DEF Others, ViewSlots, OutSlots
<1>6. /\ V \cap ({th} \X HeldViews(f[th], b)) = {}
      /\ O \cap ({th} \X HeldOuts(f[th], b)) = {}
  BY DEF Others
<1> HIDE DEF V, O
<1>7. /\ Cardinality(V \cup ({th} \X HeldViews(f[th], b)))
           = Cardinality(V) + Cardinality(HeldViews(f[th], b))
      /\ Cardinality(V) \in Nat /\ Cardinality(HeldViews(f[th], b)) \in Nat
  BY <1>1, <1>4, <1>6, CountSlots
<1>8. /\ Cardinality(O \cup ({th} \X HeldOuts(f[th], b)))
           = Cardinality(O) + Cardinality(HeldOuts(f[th], b))
      /\ Cardinality(O) \in Nat /\ Cardinality(HeldOuts(f[th], b)) \in Nat
  BY <1>1, <1>4, <1>6, CountSlots
<1>. QED
  BY <1>5, <1>7, <1>8 DEF V, O

\* A thread's step changes the numbers of views by what it changes in its lists.
LEMMA CountViews ==
  ASSUME TypeOK, call' \in [Threads -> Call], NEW th \in Threads, NEW b,
         \A u \in Threads \ {th} : call'[u] = call[u]
  PROVE  /\ Cardinality(InputViews(b)') + Cardinality(HeldViews(call[th], b))
              = Cardinality(InputViews(b)) + Cardinality(HeldViews(call'[th], b))
         /\ Cardinality(OutputViews(b)') + Cardinality(HeldOuts(call[th], b))
              = Cardinality(OutputViews(b)) + Cardinality(HeldOuts(call'[th], b))
         /\ Cardinality(InputViews(b)') \in Nat /\ Cardinality(OutputViews(b)') \in Nat
         /\ Cardinality(HeldViews(call[th], b)) \in Nat
         /\ Cardinality(HeldOuts(call[th], b)) \in Nat
         /\ Cardinality(HeldViews(call[th], b)) <= Cardinality(InputViews(b))
         /\ Cardinality(HeldOuts(call[th], b)) <= Cardinality(OutputViews(b))
<1>1. call \in [Threads -> Call]
  BY DEF TypeOK
<1>2. /\ InputViews(b) = ViewSlots(call, b) /\ InputViews(b)' = ViewSlots(call', b)
      /\ OutputViews(b) = OutSlots(call, b) /\ OutputViews(b)' = OutSlots(call', b)
  BY DEF InputViews, OutputViews, ViewSlots, OutSlots
<1>3. /\ Others(ViewSlots(call', b), th) = Others(ViewSlots(call, b), th)
      /\ Others(OutSlots(call', b), th) = Others(OutSlots(call, b), th)
  BY DEF Others, ViewSlots, OutSlots
<1>4. /\ Cardinality(ViewSlots(call, b))
           = Cardinality(Others(ViewSlots(call, b), th)) + Cardinality(HeldViews(call[th], b))
      /\ Cardinality(OutSlots(call, b))
           = Cardinality(Others(OutSlots(call, b), th)) + Cardinality(HeldOuts(call[th], b))
      /\ Cardinality(Others(ViewSlots(call, b), th)) \in Nat
      /\ Cardinality(Others(OutSlots(call, b), th)) \in Nat
      /\ Cardinality(HeldViews(call[th], b)) \in Nat
      /\ Cardinality(HeldOuts(call[th], b)) \in Nat
  BY <1>1, CountApart
<1>5. /\ Cardinality(ViewSlots(call', b))
           = Cardinality(Others(ViewSlots(call', b), th)) + Cardinality(HeldViews(call'[th], b))
      /\ Cardinality(OutSlots(call', b))
           = Cardinality(Others(OutSlots(call', b), th)) + Cardinality(HeldOuts(call'[th], b))
      /\ Cardinality(HeldViews(call'[th], b)) \in Nat
      /\ Cardinality(HeldOuts(call'[th], b)) \in Nat
  BY CountApart
<1>. QED
  BY <1>2, <1>3, <1>4, <1>5

-------------------------------------------------------------------------------
(* The type.                                                                 *)

\* What the program returns is a value.
LEMMA ResultType ==
  ASSUME NEW j \in 1 .. MaxOutputs, NEW n \in 0 .. MaxInputs, NEW f \in [1 .. n -> Values]
  PROVE  Result(j, f) \in Values
BY ResultAssumption DEF UpTo

\* Of the tensors of a call.
LEMMA ResultsType ==
  ASSUME TypeOK, HandlesOwned,
         NEW src \in UpTo(Tensors, MaxInputs), NEW dst \in UpTo(Tensors, MaxOutputs)
  PROVE  [j \in DOMAIN dst |-> Result(j, [k \in DOMAIN src |-> Content(src[k])])]
           \in Seq(Values)
<1>1. /\ src \in Seq(Tensors) /\ Len(src) \in 0 .. MaxInputs
      /\ dst \in Seq(Tensors) /\ Len(dst) \in 0 .. MaxOutputs
  BY UpToSeq, BoundsAssumption
<1>2. \A k \in 1 .. Len(src) : Content(src[k]) \in Values
  BY <1>1, TensorFields
<1>3. [k \in 1 .. Len(src) |-> Content(src[k])] \in [1 .. Len(src) -> Values]
  BY <1>2
<1>4. \A j \in 1 .. MaxOutputs :
        Result(j, [k \in 1 .. Len(src) |-> Content(src[k])]) \in Values
  BY <1>1, <1>3, ResultType
<1>5. DOMAIN src = 1 .. Len(src) /\ DOMAIN dst = 1 .. Len(dst)
  BY <1>1
<1>6. \A j \in 1 .. Len(dst) :
        Result(j, [k \in DOMAIN src |-> Content(src[k])]) \in Values
  BY <1>1, <1>4, <1>5, BoundsAssumption
<1>7. [j \in 1 .. Len(dst) |-> Result(j, [k \in DOMAIN src |-> Content(src[k])])]
        \in [1 .. Len(dst) -> Values]
  BY <1>6
<1>8. [1 .. Len(dst) -> Values] \subseteq Seq(Values)
  BY <1>1
<1>. QED
  BY <1>5, <1>7, <1>8

\* A transfer of a value.
LEMMA StoreType ==
  ASSUME TypeOK, HandlesOwned, NEW t \in Tensors, NEW v \in Values, Store(t, v)
  PROVE  data' \in [Buffers -> Values] /\ tensor' \in [Tensors -> OrtValue]
<1>1. data \in [Buffers -> Values] /\ tensor \in [Tensors -> OrtValue]
  BY DEF TypeOK
<1>2. CASE OnDevice(t) /\ data' = [data EXCEPT ![tensor[t].buf] = v] /\ UNCHANGED tensor
  BY <1>1, <1>2
<1>3. CASE tensor' = [tensor EXCEPT ![t].val = v] /\ UNCHANGED data
  BY <1>1, <1>3 DEF OrtValue
<1>. QED
  BY <1>2, <1>3 DEF Store

\* What Output and CopyOne store.
LEMMA OutputStores ==
  ASSUME IInv, NEW th \in Threads, Output(th) \/ CopyOne(th)
  PROVE  \E t \in Tensors, v \in Values : Writing(th, t) /\ Store(t, v)
<1> DEFINE c == call[th]
           t == c.dst[c.i]
<1>1. c \in Call /\ CallShape(th)
  BY DEF IInv, TypeOK, CallShapes
<1>2. CASE Output(th)
  <2>1. /\ pc[th] = "outputs" /\ c.i <= Len(c.dst) /\ Len(c.outs) = Len(c.dst)
        /\ Store(t, data[c.outs[c.i]])
    BY <1>1, <1>2 DEF Output, CallShape
  <2>2. c.outs[c.i] \in Buffers /\ t \in Tensors
    BY <1>1, <2>1, CallFields
  <2>3. data[c.outs[c.i]] \in Values
    BY <2>2 DEF IInv, TypeOK
  <2>. QED
    BY <2>1, <2>2, <2>3 DEF Writing
<1>3. CASE CopyOne(th)
  <2>1. /\ pc[th] = "copy" /\ c.i <= Len(c.dst) /\ Len(c.src) = Len(c.dst)
        /\ Store(t, Content(c.src[c.i]))
    BY <1>1, <1>3 DEF CopyOne, CallShape
  <2>2. c.src[c.i] \in Tensors /\ t \in Tensors
    BY <1>1, <2>1, CallFields
  <2>3. Content(c.src[c.i]) \in Values
    BY <2>2, TensorFields DEF IInv
  <2>. QED
    BY <2>1, <2>2, <2>3 DEF Writing
<1>. QED
  BY <1>2, <1>3

\* Buffers hold values.
LEMMA DataType ==
  ASSUME IInv, [Next]_vars
  PROVE  data' \in [Buffers -> Values]
<1>1. data \in [Buffers -> Values] /\ tensor \in [Tensors -> OrtValue]
  BY DEF IInv, TypeOK
<1>2. CASE HostAlone
  BY <1>1, <1>2 DEF HostAlone, CreateHostTensor, DropHostTensor, FreeImpl, AllocImpl,
     DestroyAllocator
<1>3. ASSUME NEW th \in Threads, Output(th) \/ CopyOne(th)
      PROVE  data' \in [Buffers -> Values]
  BY <1>3, OutputStores, StoreType DEF IInv
<1>4. ASSUME NEW th \in Threads, CopyInput(th)
      PROVE  data' \in [Buffers -> Values]
  <2>1. call[th] \in Call
    BY DEF IInv, TypeOK
  <2>2. /\ call[th].i <= Len(call[th].src)
        /\ \E b \in Free : data' = [data EXCEPT ![b] = tensor[call[th].src[call[th].i]].val]
    BY <1>4 DEF CopyInput
  <2>3. call[th].src[call[th].i] \in Tensors
    BY <2>1, <2>2, CallFields
  <2>. QED
    BY <1>1, <2>2, <2>3, TensorFields DEF IInv
<1>5. ASSUME NEW th \in Threads, Invoke(th)
      PROVE  data' \in [Buffers -> Values]
  <2> DEFINE c == call[th]
             n == Len(c.dst)
             ins == [k \in DOMAIN c.views |-> data[c.views[k]]]
  <2>1. c \in Call
    BY DEF IInv, TypeOK
  <2>2. PICK outs \in [1 .. n -> Free] :
          data' = [b \in Buffers |->
             IF b \in Range(outs) THEN Result(CHOOSE j \in 1 .. n : outs[j] = b, ins)
                                  ELSE data[b]]
    BY <1>5 DEF Invoke
  <2>3. \A j \in 1 .. n : Result(j, ins) \in Values
    <3>1. n \in 0 .. MaxOutputs /\ Len(c.views) \in 0 .. MaxInputs
      BY <2>1, CallFields
    <3>2. ins \in [1 .. Len(c.views) -> Values]
      BY <1>1, <2>1, CallFields
    <3>3. \A j \in 1 .. MaxOutputs : Result(j, ins) \in Values
      BY <3>1, <3>2, ResultType
    <3>. QED
      BY <3>1, <3>3, BoundsAssumption
  <2>4. ASSUME NEW b \in Buffers, b \in Range(outs)
        PROVE  Result(CHOOSE j \in 1 .. n : outs[j] = b, ins) \in Values
    <3>1. \E j \in 1 .. n : outs[j] = b
      BY <2>4 DEF Range
    <3>2. (CHOOSE j \in 1 .. n : outs[j] = b) \in 1 .. n
      BY <3>1
    <3>. QED
      BY <2>3, <3>2
  <2>. QED
    BY <1>1, <2>2, <2>4
<1>6. ASSUME NEW th \in Threads, Begins(th) \/ Step(th),
             ~(Output(th) \/ CopyOne(th) \/ CopyInput(th) \/ Invoke(th))
      PROVE  data' = data
  BY <1>6 DEF Begins, Compute, CopyTensors, Step, WrapInput, GetOutput, FinishCompute,
     FailCompute, ReturnCopy
<1>. QED
  BY <1>1, <1>2, <1>3, <1>4, <1>5, <1>6, NextCases DEF vars

\* Tensors stay OrtValues.
LEMMA TensorType ==
  ASSUME IInv, [Next]_vars
  PROVE  tensor' \in [Tensors -> OrtValue]
<1>1. tensor \in [Tensors -> OrtValue] /\ NoTensor \in OrtValue /\ 0 \in Values
  BY ValuesAssumption DEF IInv, TypeOK, NoTensor, OrtValue, Values
<1>2. CASE HostAlone
  BY <1>1, <1>2 DEF HostAlone, CreateHostTensor, DropHostTensor, FreeImpl, AllocImpl,
     DestroyAllocator, Free, OrtValue
<1>3. ASSUME NEW th \in Threads, Output(th) \/ CopyOne(th)
      PROVE  tensor' \in [Tensors -> OrtValue]
  BY <1>3, OutputStores, StoreType DEF IInv
<1>4. ASSUME NEW th \in Threads, GetOutput(th)
      PROVE  tensor' \in [Tensors -> OrtValue]
  <2>1. call[th] \in Call /\ CallShape(th)
    BY DEF IInv, TypeOK, CallShapes
  <2>2. alive \subseteq Devices /\ call[th].dev \in Devices
    BY <1>4, <2>1 DEF IInv, TypeOK, GetOutput, CallShape
  <2>3. \E b \in Buffers \cup {"null"}, d \in {"cpu", call[th].dev} :
          tensor' = [tensor EXCEPT ![call[th].dst[call[th].i]]
                                     = [on |-> d, buf |-> b, val |-> 0]]
    BY <1>4 DEF GetOutput, Free
  <2>4. \A b \in Buffers \cup {"null"}, d \in {"cpu", call[th].dev} :
          [on |-> d, buf |-> b, val |-> 0] \in OrtValue
    BY <1>1, <2>2 DEF OrtValue
  <2>. QED
    BY <1>1, <2>3, <2>4
<1>5. ASSUME NEW th \in Threads, Begins(th) \/ Step(th),
             ~(Output(th) \/ CopyOne(th) \/ GetOutput(th))
      PROVE  tensor' = tensor
  BY <1>5 DEF Begins, Compute, CopyTensors, Step, WrapInput, CopyInput, Invoke,
     FinishCompute, FailCompute, ReturnCopy
<1>. QED
  BY <1>1, <1>2, <1>3, <1>4, <1>5, NextCases DEF vars

\* The maps hold buffers, and no allocator comes back.
LEMMA AllocationsType ==
  ASSUME IInv, [Next]_vars
  PROVE  allocations_' \in [Devices -> SUBSET Buffers] /\ alive' \subseteq Devices
<1>1. allocations_ \in [Devices -> SUBSET Buffers] /\ alive \subseteq Devices
  BY DEF IInv, TypeOK
<1>2. CASE HostAlone
  BY <1>1, <1>2 DEF HostAlone, CreateHostTensor, DropHostTensor, FreeImpl, AllocImpl,
     DestroyAllocator, Free
<1>3. ASSUME NEW th \in Threads, GetOutput(th)
      PROVE  allocations_' \in [Devices -> SUBSET Buffers] /\ alive' = alive
  <2>1. /\ alive' = alive
        /\ \/ UNCHANGED allocations_
           \/ \E b \in Free : allocations_' = [allocations_ EXCEPT ![call[th].dev] = @ \cup {b}]
    BY <1>3 DEF GetOutput
  <2>. QED
    BY <1>1, <2>1 DEF Free
<1>4. ASSUME NEW th \in Threads, Begins(th) \/ Step(th), ~GetOutput(th)
      PROVE  UNCHANGED <<allocations_, alive>>
  BY <1>4 DEF Begins, Compute, CopyTensors, Step, WrapInput, CopyInput, Invoke, Output,
     CopyOne, FinishCompute, FailCompute, ReturnCopy
<1>. QED
  BY <1>1, <1>2, <1>3, <1>4, NextCases DEF vars

-------------------------------------------------------------------------------
(* What a step makes of its thread's call.                                   *)

\* Two calls differ at most in index and lists.
SameArguments(c, d) ==
  d.op = c.op /\ d.dev = c.dev /\ d.src = c.src /\ d.dst = c.dst /\ d.vals = c.vals

\* A call with another index and other lists.
WithLists(c, i, views, outs) == [c EXCEPT !.views = views, !.outs = outs, !.i = i]

\* A call with other lists within their bounds is a call.
LEMMA CallIntro ==
  ASSUME NEW c \in Call, NEW d, NEW i \in Nat \ {0},
         NEW views \in UpTo(Buffers, MaxInputs), NEW outs \in UpTo(Buffers, MaxOutputs),
         d = WithLists(c, i, views, outs)
  PROVE  /\ d \in Call /\ SameArguments(c, d)
         /\ d.views = views /\ d.outs = outs /\ d.i = i
<1>1. c = [op |-> c.op, dev |-> c.dev, src |-> c.src, dst |-> c.dst, i |-> c.i,
           views |-> c.views, outs |-> c.outs, vals |-> c.vals]
  BY DEF Call
<1>2. d = [op |-> c.op, dev |-> c.dev, src |-> c.src, dst |-> c.dst, i |-> i,
           views |-> views, outs |-> outs, vals |-> c.vals]
  BY <1>1 DEF WithLists
<1>3. /\ c.op \in {"none", "Compute", "CopyTensors"} /\ c.dev \in Devices \cup {"none"}
      /\ c.src \in UpTo(Tensors, MaxInputs) /\ c.dst \in UpTo(Tensors, MaxOutputs)
      /\ c.vals \in Seq(Values)
  BY DEF Call
<1>4. d \in Call
  BY <1>2, <1>3 DEF Call
<1>. QED
  BY <1>2, <1>4 DEF SameArguments

\* WrapInput and CopyInput add a view.
AddView(th, b) ==
  /\ pc[th] = "inputs" /\ call[th].i <= Len(call[th].src)
  /\ UNCHANGED <<pc, alive>>
  /\ call' = [call EXCEPT ![th] =
                [call[th] EXCEPT !.views = Append(@, b), !.i = @ + 1]]

\* A collected view is one more of the call.
LEMMA Collects ==
  ASSUME IInv, NEW th \in Threads, NEW b \in Buffers, AddView(th, b)
  PROVE  /\ call'[th] \in Call /\ SameArguments(call[th], call'[th])
         /\ call'[th].views = Append(call[th].views, b)
         /\ call'[th].i = call[th].i + 1 /\ call'[th].outs = call[th].outs
         /\ CallShape(th)'
<1> DEFINE c == call[th]
<1>1. c \in Call /\ CallShape(th) /\ call \in [Threads -> Call]
  BY DEF IInv, TypeOK, CallShapes
<1>2. /\ c.op = "Compute" /\ c.dev \in alive /\ Len(c.views) = c.i - 1
      /\ c.outs = << >> /\ Len(c.vals) = Len(c.dst)
      /\ c.i <= Len(c.src) /\ UNCHANGED <<pc, alive>> /\ pc[th] = "inputs"
  BY <1>1 DEF CallShape, AddView
<1>3. /\ c.views \in Seq(Buffers) /\ c.i \in Nat \ {0} /\ Len(c.src) \in 0 .. MaxInputs
  BY <1>1, CallFields
<1>4. Append(c.views, b) \in UpTo(Buffers, MaxInputs)
  <2>1. Append(c.views, b) \in Seq(Buffers) /\ Len(Append(c.views, b)) = Len(c.views) + 1
    BY <1>3, AppendProperties
  <2>2. Len(Append(c.views, b)) <= MaxInputs
    BY <1>2, <1>3, <2>1, BoundsAssumption
  <2>. QED
    BY <2>1, <2>2, SeqUpTo, BoundsAssumption
<1>5. call'[th] = [c EXCEPT !.views = Append(@, b), !.i = @ + 1]
  BY <1>1 DEF AddView
<1>6. call'[th] = WithLists(c, c.i + 1, Append(c.views, b), c.outs)
  BY <1>1, <1>5 DEF Call, WithLists
<1>7. /\ call'[th] \in Call /\ SameArguments(c, call'[th])
      /\ call'[th].views = Append(c.views, b)
      /\ call'[th].i = c.i + 1 /\ call'[th].outs = c.outs
  <2>1. c.outs \in UpTo(Buffers, MaxOutputs) /\ c.i + 1 \in Nat \ {0}
    BY <1>1, <1>3 DEF Call
  <2> DEFINE w == Append(c.views, b)
  <2>2. w \in UpTo(Buffers, MaxInputs) /\ call'[th] = WithLists(c, c.i + 1, w, c.outs)
    BY <1>4, <1>6
  <2>3. /\ call'[th] \in Call /\ SameArguments(c, call'[th])
        /\ call'[th].views = w
        /\ call'[th].i = c.i + 1 /\ call'[th].outs = c.outs
    <3> HIDE DEF w
    <3>. QED
      BY <1>1, <2>1, <2>2, CallIntro
  <2>. QED
    BY <2>3
<1>. QED
  <2>1. Len(Append(c.views, b)) = c.i /\ c.i + 1 <= Len(c.src) + 1
    BY <1>2, <1>3, AppendProperties
  <2>2. /\ call'[th].op = "Compute" /\ call'[th].dev \in alive'
        /\ call'[th].i <= Len(call'[th].src) + 1
        /\ Len(call'[th].views) = call'[th].i - 1 /\ call'[th].outs = << >>
        /\ Len(call'[th].vals) = Len(call'[th].dst) /\ pc'[th] = "inputs"
    BY <1>2, <1>3, <1>7, <2>1 DEF SameArguments
  <2>3. CallShape(th)'
    BY <2>2 DEF CallShape
  <2>. QED
    BY <1>7, <2>3

\* Invoke has the outputs.
LEMMA Invokes ==
  ASSUME IInv, NEW th \in Threads, Invoke(th)
  PROVE  /\ call'[th] \in Call /\ SameArguments(call[th], call'[th])
         /\ call'[th].views = call[th].views
         /\ call'[th].i = 1 /\ pc'[th] = "outputs"
         /\ call'[th].outs \in [1 .. Len(call[th].dst) -> Free]
         /\ IsInjective(call'[th].outs)
         /\ refs' = [b \in Buffers |-> IF b \in Range(call'[th].outs) THEN 1 ELSE refs[b]]
         /\ \A j \in 1 .. Len(call[th].dst) :
              data'[call'[th].outs[j]]
                = Result(j, [k \in DOMAIN call[th].views |-> data[call[th].views[k]]])
         /\ CallShape(th)'
<1> DEFINE c == call[th]
           n == Len(c.dst)
<1>1. /\ c \in Call /\ CallShape(th) /\ call \in [Threads -> Call]
      /\ pc \in [Threads -> {"idle", "inputs", "outputs", "copy"}]
  BY DEF IInv, TypeOK, CallShapes
<1>2. PICK outs \in [1 .. n -> Free] :
        /\ IsInjective(outs)
        /\ refs' = [b \in Buffers |-> IF b \in Range(outs) THEN 1 ELSE refs[b]]
        /\ data' = [b \in Buffers |->
             IF b \in Range(outs)
             THEN Result(CHOOSE j \in 1 .. n : outs[j] = b,
                         [k \in DOMAIN c.views |-> data[c.views[k]]])
             ELSE data[b]]
        /\ call' = [call EXCEPT ![th] = [c EXCEPT !.outs = outs, !.i = 1]]
  BY DEF Invoke
<1>3. pc[th] = "inputs" /\ c.i > Len(c.src) /\ pc'[th] = "outputs" /\ alive' = alive
  BY <1>1 DEF Invoke
<1>4. /\ c.op = "Compute" /\ c.dev \in alive /\ Len(c.views) = c.i - 1
      /\ Len(c.vals) = Len(c.dst) /\ c.i <= Len(c.src) + 1
  BY <1>1, <1>3 DEF CallShape
<1>5. n \in 0 .. MaxOutputs /\ Len(c.src) \in Nat /\ c.i \in Nat
  BY <1>1, CallFields
<1>6. outs \in Seq(Buffers) /\ Len(outs) = n
  BY <1>2, <1>5 DEF Free
<1>7. outs \in UpTo(Buffers, MaxOutputs)
  BY <1>5, <1>6, SeqUpTo, BoundsAssumption
<1>8. call'[th] = [c EXCEPT !.outs = outs, !.i = 1]
  BY <1>1, <1>2
<1>9. call'[th] = WithLists(c, 1, c.views, outs)
  BY <1>1, <1>8 DEF Call, WithLists
<1>10. /\ call'[th] \in Call /\ SameArguments(c, call'[th])
       /\ call'[th].views = c.views /\ call'[th].i = 1 /\ call'[th].outs = outs
  <2>1. c.views \in UpTo(Buffers, MaxInputs) /\ 1 \in Nat \ {0}
    BY <1>1 DEF Call
  <2>. QED
    BY <1>1, <1>7, <1>9, <2>1, CallIntro
<1>11. CallShape(th)'
  <2>1. /\ call'[th].op = "Compute" /\ call'[th].dev \in alive'
        /\ call'[th].i = 1 /\ Len(call'[th].dst) = n /\ Len(call'[th].src) = Len(c.src)
        /\ Len(call'[th].vals) = n
    BY <1>3, <1>4, <1>10 DEF SameArguments
  <2>2. Len(call'[th].views) = Len(c.src) /\ Len(call'[th].outs) = n
    BY <1>3, <1>4, <1>5, <1>6, <1>10
  <2>3. /\ call'[th].i <= Len(call'[th].dst) + 1
        /\ Len(call'[th].views) = Len(call'[th].src)
        /\ Len(call'[th].outs) = Len(call'[th].dst)
        /\ Len(call'[th].vals) = Len(call'[th].dst)
    BY <1>5, <2>1, <2>2
  <2>. QED
    BY <1>3, <2>1, <2>3 DEF CallShape
<1>12. call'[th].outs = outs
  BY <1>10
<1>13. refs' = [b \in Buffers |-> IF b \in Range(call'[th].outs) THEN 1 ELSE refs[b]]
  BY <1>2, <1>12
<1>14. ASSUME NEW j \in 1 .. n
       PROVE  data'[outs[j]] = Result(j, [k \in DOMAIN c.views |-> data[c.views[k]]])
  <2>1. outs[j] \in Buffers /\ outs[j] \in Range(outs)
    BY <1>2 DEF Free, Range
  <2>2. (CHOOSE k \in 1 .. n : outs[k] = outs[j]) = j
    BY <1>2 DEF IsInjective
  <2>. QED
    BY <1>2, <2>1, <2>2
<1>15. outs \in [1 .. n -> Free] /\ IsInjective(outs)
  BY <1>2
<1>. QED
  BY <1>3, <1>10, <1>11, <1>12, <1>13, <1>14, <1>15

\* Output and CopyOne go on to the next.
LEMMA Advances ==
  ASSUME IInv, NEW th \in Threads, Output(th) \/ CopyOne(th)
  PROVE  /\ call'[th] \in Call /\ SameArguments(call[th], call'[th])
         /\ call'[th].views = call[th].views /\ call'[th].outs = call[th].outs
         /\ call'[th].i = call[th].i + 1 /\ pc'[th] = pc[th]
         /\ CallShape(th)'
<1> DEFINE c == call[th]
<1>1. c \in Call /\ CallShape(th) /\ call \in [Threads -> Call]
  BY DEF IInv, TypeOK, CallShapes
<1>2. /\ call' = Next_i(th) /\ UNCHANGED <<pc, alive>>
      /\ \/ pc[th] = "outputs" /\ c.i <= Len(c.dst)
         \/ pc[th] = "copy" /\ c.i <= Len(c.src)
  BY DEF Output, CopyOne
<1>3. call'[th] = [c EXCEPT !.i = @ + 1]
  BY <1>1, <1>2 DEF Next_i
<1>4. call'[th] = WithLists(c, c.i + 1, c.views, c.outs)
  BY <1>1, <1>3 DEF Call, WithLists
<1>5. /\ call'[th] \in Call /\ SameArguments(c, call'[th])
      /\ call'[th].views = c.views /\ call'[th].outs = c.outs /\ call'[th].i = c.i + 1
  <2>1. /\ c.views \in UpTo(Buffers, MaxInputs) /\ c.outs \in UpTo(Buffers, MaxOutputs)
        /\ c.i + 1 \in Nat \ {0}
    BY <1>1 DEF Call
  <2>. QED
    BY <1>1, <1>4, <2>1, CallIntro
<1>6. c.i \in Nat /\ Len(c.dst) \in Nat
  BY <1>1, CallFields
<1>7. CallShape(th)'
  BY <1>1, <1>2, <1>5, <1>6 DEF SameArguments, CallShape
<1>. QED
  BY <1>2, <1>5, <1>7

\* A call that ends is none.
LEMMA Returns ==
  ASSUME IInv, NEW th \in Threads, Ends(th)
  PROVE  call'[th] = NoCall /\ pc'[th] = "idle" /\ CallShape(th)'
<1>1. call \in [Threads -> Call] /\ DOMAIN pc = Threads
  BY DEF IInv, TypeOK
<1>2. Return(th)
  BY DEF Ends, FinishCompute, FailCompute, ReturnCopy
<1>. QED
  BY <1>1, <1>2 DEF Return, CallShape

\* A call that begins holds no view yet.
LEMMA Begun ==
  ASSUME IInv, NEW th \in Threads, Begins(th)
  PROVE  /\ call'[th] \in Call /\ call'[th].views = << >> /\ call'[th].outs = << >>
         /\ call[th] = NoCall /\ pc[th] = "idle" /\ pc'[th] \in {"inputs", "copy"}
         /\ call'[th].i = 1
         /\ CallShape(th)'
<1>1. call \in [Threads -> Call] /\ DOMAIN pc = Threads
  BY DEF IInv, TypeOK
<1>2. PICK src \in UpTo(Tensors, MaxInputs), dst \in UpTo(Tensors, MaxOutputs) :
        (\E d \in Devices : Compute(th, d, src, dst)) \/ CopyTensors(th, src, dst)
  BY DEF Begins
<1>3. pc[th] = "idle" /\ call[th] = NoCall
  BY <1>2 DEF Compute, CopyTensors, MayCall, IInv, CallShapes, CallShape
<1>4. Len(src) \in Nat /\ Len(dst) \in Nat /\ src \in Seq(Tensors) /\ dst \in Seq(Tensors)
  BY UpToSeq, BoundsAssumption
<1>5. ASSUME NEW d \in Devices, Compute(th, d, src, dst)
      PROVE  /\ call'[th] \in Call /\ call'[th].views = << >> /\ call'[th].outs = << >>
             /\ call'[th].i = 1 /\ pc'[th] = "inputs"
             /\ CallShape(th)'
  <2> DEFINE vals == [j \in DOMAIN dst |-> Result(j, [k \in DOMAIN src |-> Content(src[k])])]
  <2>1. call'[th] = [NoCall EXCEPT !.op = "Compute", !.dev = d, !.src = src,
                                   !.dst = dst, !.vals = vals]
    BY <1>1, <1>5 DEF Compute
  <2>2. vals \in Seq(Values) /\ Len(vals) = Len(dst)
    BY <1>4, ResultsType DEF IInv
  <2> HIDE DEF vals
  <2>3. call'[th] \in Call
    BY <2>1, <2>2, NoCallType DEF Call
  <2>4. /\ call'[th].op = "Compute" /\ call'[th].dev = d /\ call'[th].src = src
        /\ call'[th].dst = dst /\ call'[th].vals = vals /\ call'[th].i = 1
        /\ call'[th].views = << >> /\ call'[th].outs = << >>
    BY <2>1 DEF NoCall
  <2>5. pc'[th] = "inputs" /\ d \in alive'
    BY <1>1, <1>5 DEF Compute
  <2>. QED
    BY <1>4, <2>2, <2>3, <2>4, <2>5 DEF CallShape
<1>6. ASSUME CopyTensors(th, src, dst)
      PROVE  /\ call'[th] \in Call /\ call'[th].views = << >> /\ call'[th].outs = << >>
             /\ call'[th].i = 1 /\ pc'[th] = "copy"
             /\ CallShape(th)'
  <2>1. call'[th] = [NoCall EXCEPT !.op = "CopyTensors", !.src = src, !.dst = dst]
    BY <1>1, <1>6 DEF CopyTensors
  <2>2. call'[th] \in Call
    BY <2>1, NoCallType DEF Call
  <2>3. /\ call'[th].op = "CopyTensors" /\ call'[th].src = src
        /\ call'[th].dst = dst /\ call'[th].i = 1
        /\ call'[th].views = << >> /\ call'[th].outs = << >>
    BY <2>1 DEF NoCall
  <2>4. pc'[th] = "copy" /\ Len(src) = Len(dst)
    BY <1>1, <1>6 DEF CopyTensors
  <2>. QED
    BY <1>4, <2>2, <2>3, <2>4 DEF CallShape
<1>. QED
  BY <1>2, <1>3, <1>5, <1>6

-------------------------------------------------------------------------------
(* The shape of calls, and what the host promises.                           *)

\* WrapInput and CopyInput are such steps.
LEMMA AddsView ==
  ASSUME IInv, NEW th \in Threads, WrapInput(th) \/ CopyInput(th)
  PROVE  \E b \in Buffers :
           /\ AddView(th, b)
           /\ \/ /\ WrapInput(th) /\ OnDevice(call[th].src[call[th].i])
                 /\ b = tensor[call[th].src[call[th].i]].buf
                 /\ refs' = [refs EXCEPT ![b] = @ + 1] /\ UNCHANGED data
              \/ /\ CopyInput(th) /\ ~OnDevice(call[th].src[call[th].i])
                 /\ refs[b] = 0 /\ refs' = [refs EXCEPT ![b] = 1]
                 /\ data' = [data EXCEPT ![b] = tensor[call[th].src[call[th].i]].val]
<1> DEFINE s == call[th].src[call[th].i]
<1>1. call[th] \in Call
  BY DEF IInv, TypeOK
<1>2. CASE WrapInput(th)
  <2>1. call[th].i <= Len(call[th].src) /\ OnDevice(s)
    BY <1>2 DEF WrapInput
  <2>2. s \in Tensors
    BY <1>1, <2>1, CallFields
  <2>3. tensor[s].buf \in Buffers
    BY <2>1, <2>2, TensorFields DEF IInv
  <2>. QED
    BY <1>2, <2>1, <2>3 DEF WrapInput, AddView
<1>3. CASE CopyInput(th)
  <2>1. PICK b \in Free :
          /\ refs' = [refs EXCEPT ![b] = 1]
          /\ data' = [data EXCEPT ![b] = tensor[s].val]
          /\ call' = [call EXCEPT ![th] =
                        [call[th] EXCEPT !.views = Append(@, b), !.i = @ + 1]]
    BY <1>3 DEF CopyInput
  <2>2. b \in Buffers /\ refs[b] = 0
    BY DEF Free
  <2>3. AddView(th, b)
    BY <1>3, <2>1 DEF CopyInput, AddView
  <2>. QED
    BY <1>3, <2>1, <2>2, <2>3 DEF CopyInput
<1>. QED
  BY <1>2, <1>3

\* Every call stays a call.
LEMMA CallStep ==
  ASSUME IInv, [Next]_vars, NEW th \in Threads
  PROVE  call'[th] \in Call /\ CallShape(th)'
<1>1. call[th] \in Call /\ CallShape(th) /\ TypeOK
  BY DEF IInv, TypeOK, CallShapes
<1>2. CASE call'[th] = call[th] /\ pc'[th] = pc[th]
  <2>1. alive' = alive \/ pc[th] = "idle"
    <3>1. CASE HostAlone
      BY <3>1 DEF HostAlone, CreateHostTensor, DropHostTensor, FreeImpl, AllocImpl,
         DestroyAllocator
    <3>2. ASSUME NEW u \in Threads, Begins(u) \/ Step(u)
          PROVE  alive' = alive
      BY <3>2 DEF Begins, Compute, CopyTensors, Step, WrapInput, CopyInput, Invoke,
         GetOutput, Output, CopyOne, FinishCompute, FailCompute, ReturnCopy
    <3>. QED
      BY <3>1, <3>2, NextCases DEF vars
  <2>. QED
    BY <1>1, <1>2, <2>1 DEF CallShape
<1>3. CASE WrapInput(th) \/ CopyInput(th)
  BY <1>3, AddsView, Collects
<1>. QED
  BY <1>1, <1>2, <1>3, CallChange, Invokes, Advances, Returns, Begun, NoCallType

\* All calls have their type and their shape after a step.
LEMMA CallsType ==
  ASSUME IInv, [Next]_vars
  PROVE  /\ call' \in [Threads -> Call]
         /\ pc' \in [Threads -> {"idle", "inputs", "outputs", "copy"}]
         /\ CallShapes'
<1>1. /\ call \in [Threads -> Call]
      /\ pc \in [Threads -> {"idle", "inputs", "outputs", "copy"}]
  BY DEF IInv, TypeOK
<1>2. ASSUME HostAlone \/ UNCHANGED vars
      PROVE  UNCHANGED <<call, pc>>
  BY <1>2, HostAloneCalls DEF vars
<1>3. ASSUME NEW u \in Threads, Begins(u) \/ Step(u)
      PROVE  /\ DOMAIN call' = Threads /\ call' = [t \in Threads |-> call'[t]]
             /\ pc' \in [Threads -> {"idle", "inputs", "outputs", "copy"}]
  <2>1. \E p \in {"idle", "inputs", "outputs", "copy"} :
          pc' = pc \/ pc' = [pc EXCEPT ![u] = p]
    BY <1>3 DEF Begins, Compute, CopyTensors, Step, WrapInput, CopyInput, Invoke,
       GetOutput, Output, CopyOne, FinishCompute, FailCompute, ReturnCopy, Return
  <2>2. call' = call \/ \E c : call' = [call EXCEPT ![u] = c]
    BY <1>3 DEF Begins, Compute, CopyTensors, Step, WrapInput, CopyInput, Invoke,
       GetOutput, Output, CopyOne, FinishCompute, FailCompute, ReturnCopy, Return, Next_i
  <2>. QED
    BY <1>1, <2>1, <2>2
<1>4. \A th \in Threads : call'[th] \in Call /\ CallShape(th)'
  BY CallStep
<1>. QED
  BY <1>1, <1>2, <1>3, <1>4, NextCases DEF CallShapes

\* The arguments of a call stay, until it ends.
LEMMA Arguments ==
  ASSUME IInv, [Next]_vars, NEW th \in Threads
  PROVE  \/ SameArguments(call[th], call'[th])
         \/ call'[th] = NoCall
         \/ Begins(th)
<1>1. CASE call'[th] = call[th]
  BY <1>1 DEF SameArguments
<1>2. CASE WrapInput(th) \/ CopyInput(th)
  BY <1>2, AddsView, Collects
<1>. QED
  BY <1>1, <1>2, CallChange, Invokes, Advances, Returns DEF IInv

\* What a call begins with.
LEMMA BeginsApart ==
  ASSUME IInv, NEW th \in Threads, Begins(th)
  PROVE  /\ IsInjective(call'[th].dst)
         /\ \A u \in Threads :
              /\ Range(call'[th].dst) \cap (Range(call[u].src) \cup Range(call[u].dst)) = {}
              /\ Range(call'[th].src) \cap Range(call[u].dst) = {}
         /\ \A t \in Range(call'[th].src) : Exists(t)
         /\ pc'[th] = "copy" => \A t \in Range(call'[th].dst) : Exists(t)
         /\ UNCHANGED <<refs, data, allocations_, alive, tensor>>
<1>1. call \in [Threads -> Call] /\ DOMAIN pc = Threads
  BY DEF IInv, TypeOK
<1>2. PICK src \in UpTo(Tensors, MaxInputs), dst \in UpTo(Tensors, MaxOutputs) :
        (\E d \in Devices : Compute(th, d, src, dst)) \/ CopyTensors(th, src, dst)
  BY DEF Begins
<1>3. MayCall(th, src, dst) /\ UNCHANGED <<refs, data, allocations_, alive, tensor>>
  BY <1>2 DEF Compute, CopyTensors
<1>4. /\ call'[th].src = src /\ call'[th].dst = dst
      /\ pc'[th] = "copy" => \A t \in Range(dst) : Exists(t)
  <2>1. CASE \E d \in Devices : Compute(th, d, src, dst)
    BY <1>1, <2>1 DEF Compute, NoCall
  <2>2. CASE CopyTensors(th, src, dst)
    BY <1>1, <2>2 DEF CopyTensors, NoCall
  <2>. QED
    BY <1>2, <2>1, <2>2
<1>. QED
  BY <1>3, <1>4 DEF MayCall

\* No call comes to write another's tensors.
LEMMA ApartStep ==
  ASSUME IInv, [Next]_vars
  PROVE  Apart'
<1>1. \A th \in Threads :
        SameArguments(call[th], call'[th]) \/ call'[th] = NoCall \/ Begins(th)
  BY Arguments
<1>2. Apart
  BY DEF IInv
<1>3. Range(NoCall.dst) = {} /\ Range(NoCall.src) = {} /\ IsInjective(NoCall.dst)
  BY NoCallType DEF Range, IsInjective
<1>4. ASSUME NEW th \in Threads
      PROVE  IsInjective(call'[th].dst)
  BY <1>1, <1>2, <1>3, BeginsApart DEF Apart, SameArguments
<1>5. ASSUME NEW th \in Threads, NEW u \in Threads, th # u
      PROVE  Range(call'[th].dst) \cap (Range(call'[u].src) \cup Range(call'[u].dst)) = {}
  <2>1. CASE Begins(th)
    <3>1. call'[u] = call[u]
      BY <1>5, <2>1, OtherCalls DEF IInv
    <3>. QED
      BY <2>1, <3>1, BeginsApart
  <2>2. CASE Begins(u)
    <3>1. call'[th] = call[th]
      BY <1>5, <2>2, OtherCalls DEF IInv
    <3>. QED
      BY <2>2, <3>1, BeginsApart
  <2>3. CASE ~Begins(th) /\ ~Begins(u)
    <3>1. /\ call'[th].dst = call[th].dst \/ Range(call'[th].dst) = {}
          /\ \/ call'[u].dst = call[u].dst /\ call'[u].src = call[u].src
             \/ Range(call'[u].src) \cup Range(call'[u].dst) = {}
      BY <1>1, <1>3, <2>3 DEF SameArguments
    <3>. QED
      BY <1>2, <1>5, <3>1 DEF Apart
  <2>. QED
    BY <2>1, <2>2, <2>3
<1>. QED
  BY <1>4, <1>5 DEF Apart

-------------------------------------------------------------------------------
(* Tensors and the buffers they point to.                                    *)

\* An existing tensor that a call uses stays where it is.
LEMMA PlaceStays ==
  ASSUME IInv, [Next]_vars, NEW t \in Tensors, InUse(t), Exists(t)
  PROVE  tensor'[t].on = tensor[t].on /\ tensor'[t].buf = tensor[t].buf
<1>1. tensor \in [Tensors -> OrtValue]
  BY DEF IInv, TypeOK
<1>2. CASE tensor'[t] = tensor[t]
  BY <1>2
<1>3. CASE HostAlone
  <2>1. CASE \E d \in Devices : DestroyAllocator(d)
    BY <1>2, <2>1, TensorChange DEF IInv, DestroyAllocator, Writing
  <2>. QED
    BY <1>1, <1>3, <2>1 DEF HostAlone, CreateHostTensor, DropHostTensor, FreeImpl,
       AllocImpl
<1>4. ASSUME NEW th \in Threads, GetOutput(th)
      PROVE  tensor'[t] = tensor[t]
  <2>1. \E v : tensor' = [tensor EXCEPT ![call[th].dst[call[th].i]] = v]
    BY <1>4 DEF GetOutput
  <2>. QED
    BY <1>1, <1>4, <2>1 DEF GetOutput
<1>5. ASSUME NEW th \in Threads, Output(th) \/ CopyOne(th)
      PROVE  tensor'[t].on = tensor[t].on /\ tensor'[t].buf = tensor[t].buf
  <2>1. \E u, v : Store(u, v)
    BY <1>5 DEF Output, CopyOne
  <2>. QED
    BY <1>1, <2>1 DEF Store, OrtValue
<1>6. ASSUME NEW th \in Threads, Begins(th) \/ Step(th),
             ~(Output(th) \/ CopyOne(th) \/ GetOutput(th))
      PROVE  tensor' = tensor
  BY <1>6 DEF Begins, Compute, CopyTensors, Step, WrapInput, CopyInput, Invoke,
     FinishCompute, FailCompute, ReturnCopy
<1>. QED
  BY <1>2, <1>3, <1>4, <1>5, <1>6, NextCases DEF vars

\* A call that is in a phase before its outputs, and did not just begin, was in it.
LEMMA PhaseStays ==
  ASSUME IInv, [Next]_vars, NEW th \in Threads, pc'[th] \in {"inputs", "copy"},
         ~Begins(th)
  PROVE  pc'[th] = pc[th] /\ SameArguments(call[th], call'[th])
<1>1. CASE call'[th] = call[th] /\ pc'[th] = pc[th]
  BY <1>1 DEF SameArguments
<1>2. CASE WrapInput(th) \/ CopyInput(th)
  BY <1>2, AddsView, Collects DEF AddView
<1>. QED
  BY <1>1, <1>2, CallChange, Invokes, Advances, Returns DEF IInv

\* Tensors that calls read or copy into do not go away.
LEMMA PresentStep ==
  ASSUME IInv, [Next]_vars
  PROVE  Present'
<1>1. ASSUME NEW th \in Threads, Begins(th)
      PROVE  /\ \A t \in Range(call'[th].src) : Exists(t)'
             /\ pc'[th] = "copy" => \A t \in Range(call'[th].dst) : Exists(t)'
  BY <1>1, BeginsApart DEF Exists
<1>2. ASSUME NEW th \in Threads, ~Begins(th), pc'[th] \in {"inputs", "copy"}
      PROVE  /\ \A t \in Range(call'[th].src) : Exists(t)'
             /\ pc'[th] = "copy" => \A t \in Range(call'[th].dst) : Exists(t)'
  <2>1. /\ pc'[th] = pc[th]
        /\ call'[th].src = call[th].src /\ call'[th].dst = call[th].dst
    BY <1>2, PhaseStays DEF SameArguments
  <2>2. /\ \A t \in Range(call[th].src) : Exists(t)
        /\ pc[th] = "copy" => \A t \in Range(call[th].dst) : Exists(t)
    BY <1>2, <2>1 DEF IInv, Present
  <2>3. Range(call[th].src) \cup Range(call[th].dst) \subseteq Tensors
    <3>1. call[th] \in Call
      BY DEF IInv, TypeOK
    <3>. QED
      BY <3>1, CallFields DEF Range
  <2>4. ASSUME NEW t \in Range(call[th].src) \cup Range(call[th].dst), Exists(t)
        PROVE  Exists(t)'
    <3>1. InUse(t)
      BY DEF InUse, Uses
    <3>. QED
      BY <2>3, <2>4, <3>1, PlaceStays DEF Exists
  <2>. QED
    BY <2>1, <2>2, <2>4
<1>. QED
  BY <1>1, <1>2 DEF Present

\* A tensor on a device is the only one with its buffer, others have none.
HandlesRight == HandlesOwned /\ \A t \in Tensors : ~OnDevice(t) => tensor[t].buf = "null"

\* Alloc: a free buffer is nobody's.
LEMMA AllocHandles ==
  ASSUME IInv, NEW t \in Tensors, NEW d \in Devices, NEW b \in Free,
         tensor' = [tensor EXCEPT ![t] = [on |-> d, buf |-> b, val |-> 0]],
         allocations_' = [allocations_ EXCEPT ![d] = @ \cup {b}]
  PROVE  HandlesRight'
<1>1. /\ tensor \in [Tensors -> OrtValue]
      /\ allocations_ \in [Devices -> SUBSET Buffers]
      /\ HandlesRight
  BY DEF IInv, TypeOK, HandlesRight, NoHandles
<1>2. b \in Buffers /\ b \notin Owned
  BY HeldIsCounted DEF Free, IInv
<1>3. \A u \in Tensors : tensor[u].buf # b
  BY <1>1, <1>2, NamesAssumption DEF HandlesRight, HandlesOwned, OnDevice, Owned
<1>4. /\ tensor'[t].on = d /\ tensor'[t].buf = b
      /\ \A u \in Tensors \ {t} : tensor'[u] = tensor[u]
  BY <1>1
<1>5. \A e \in Devices : allocations_[e] \subseteq allocations_'[e]
  BY <1>1
<1>6. b \in allocations_'[d]
  BY <1>1
<1> HIDE DEF HandlesRight
<1>7. ASSUME NEW u \in Tensors, OnDevice(u)'
      PROVE  /\ tensor'[u].buf \in allocations_'[tensor'[u].on]
             /\ \A w \in Tensors : w # u => tensor'[w].buf # tensor'[u].buf
  <2>1. CASE u = t
    BY <1>3, <1>4, <1>6, <2>1
  <2>2. CASE u # t
    <3>1. OnDevice(u)
      BY <1>4, <1>7, <2>2 DEF OnDevice
    <3>. QED
      BY <1>1, <1>3, <1>4, <1>5, <2>2, <3>1 DEF HandlesRight, HandlesOwned, OnDevice
  <2>. QED
    BY <2>1, <2>2
<1>8. ASSUME NEW u \in Tensors, ~OnDevice(u)'
      PROVE  tensor'[u].buf = "null"
  BY <1>1, <1>4, <1>8 DEF OnDevice, HandlesRight
<1>. QED
  BY <1>7, <1>8 DEF HandlesRight, HandlesOwned

\* Tensors that stay where they are, or that are the host's, or gone.
LEMMA KeepHandles ==
  ASSUME IInv,
         \A t \in Tensors :
           \/ tensor'[t].on \notin Devices /\ tensor'[t].buf = "null"
           \/ /\ tensor'[t].on = tensor[t].on /\ tensor'[t].buf = tensor[t].buf
              /\ OnDevice(t) => tensor[t].buf \in allocations_'[tensor[t].on]
  PROVE  HandlesRight'
<1>1. HandlesRight /\ \A t \in Tensors : OnDevice(t) => tensor[t].buf # "null"
  BY NamesAssumption, TensorFields DEF IInv, HandlesRight, NoHandles
<1>. QED
  BY <1>1 DEF HandlesRight, HandlesOwned, OnDevice

\* Every step keeps the handles right.
LEMMA HandlesStep ==
  ASSUME IInv, [Next]_vars
  PROVE  HandlesRight'
<1>1. /\ tensor \in [Tensors -> OrtValue]
      /\ allocations_ \in [Devices -> SUBSET Buffers]
      /\ HandlesRight
  BY DEF IInv, TypeOK, HandlesRight, NoHandles
<1>2. \A t \in Tensors : OnDevice(t) => tensor[t].buf \in allocations_[tensor[t].on]
  BY <1>1 DEF HandlesRight, HandlesOwned
<1> DEFINE Same(t) == tensor'[t].on = tensor[t].on /\ tensor'[t].buf = tensor[t].buf
           None(t) == tensor'[t].on \notin Devices /\ tensor'[t].buf = "null"
<1>3. ASSUME NEW t \in Tensors, NEW v \in Values, CreateHostTensor(t, v)
      PROVE  HandlesRight'
  <2>1. allocations_' = allocations_ /\ \A u \in Tensors : Same(u) \/ None(u)
    BY <1>1, <1>3, NamesAssumption DEF CreateHostTensor
  <2>. QED
    BY <1>2, <2>1, KeepHandles
<1>4. ASSUME NEW t \in Tensors, DropHostTensor(t)
      PROVE  HandlesRight'
  <2>1. allocations_' = allocations_ /\ \A u \in Tensors : Same(u) \/ None(u)
    BY <1>1, <1>4, NamesAssumption DEF DropHostTensor, NoTensor
  <2>. QED
    BY <1>2, <2>1, KeepHandles
<1>5. ASSUME NEW t \in Tensors, FreeImpl(t)
      PROVE  HandlesRight'
  <2>1. /\ None(t) /\ \A u \in Tensors \ {t} : Same(u)
        /\ OnDevice(t)
        /\ allocations_' = [allocations_ EXCEPT ![tensor[t].on] = @ \ {tensor[t].buf}]
    BY <1>1, <1>5, NamesAssumption DEF FreeImpl, NoTensor
  <2>2. \A u \in Tensors \ {t} : tensor[u].buf # tensor[t].buf
    BY <1>1, <2>1 DEF HandlesRight, HandlesOwned
  <2>3. \A u \in Tensors \ {t} :
          OnDevice(u) => tensor[u].buf \in allocations_'[tensor[u].on]
    BY <1>1, <1>2, <2>1, <2>2 DEF OnDevice
  <2>. QED
    BY <2>1, <2>3, KeepHandles
<1>6. ASSUME NEW d \in Devices, DestroyAllocator(d)
      PROVE  HandlesRight'
  <2>1. /\ \A t \in Tensors : tensor[t].on = d => None(t)
        /\ \A t \in Tensors : tensor[t].on # d => Same(t)
        /\ allocations_' = [allocations_ EXCEPT ![d] = {}]
    BY <1>1, <1>6, NamesAssumption DEF DestroyAllocator, NoTensor
  <2>2. \A t \in Tensors : OnDevice(t) /\ tensor[t].on # d =>
          tensor[t].buf \in allocations_'[tensor[t].on]
    BY <1>1, <1>2, <2>1 DEF OnDevice
  <2>. QED
    BY <2>1, <2>2, KeepHandles
<1>7. ASSUME NEW d \in Devices, NEW t \in Tensors, AllocImpl(d, t)
      PROVE  HandlesRight'
  <2>1. \E b \in Free :
          /\ allocations_' = [allocations_ EXCEPT ![d] = @ \cup {b}]
          /\ tensor' = [tensor EXCEPT ![t] = [on |-> d, buf |-> b, val |-> 0]]
    BY <1>7 DEF AllocImpl
  <2>. QED
    BY <2>1, AllocHandles
<1>8. ASSUME NEW th \in Threads, GetOutput(th)
      PROVE  HandlesRight'
  <2> DEFINE t == call[th].dst[call[th].i]
             d == call[th].dev
  <2>1. call[th] \in Call /\ CallShape(th) /\ alive \subseteq Devices
    BY DEF IInv, TypeOK, CallShapes
  <2>2. d \in Devices /\ call[th].i <= Len(call[th].dst)
    BY <1>8, <2>1 DEF GetOutput, CallShape
  <2>3. t \in Tensors
    BY <2>1, <2>2, CallFields
  <2>4. CASE /\ tensor' = [tensor EXCEPT ![t] = [on |-> "cpu", buf |-> "null", val |-> 0]]
             /\ UNCHANGED allocations_
    <3>1. \A u \in Tensors : Same(u) \/ None(u)
      BY <1>1, <2>4, NamesAssumption
    <3>. QED
      BY <1>2, <2>4, <3>1, KeepHandles
  <2>5. CASE \E b \in Free :
               /\ allocations_' = [allocations_ EXCEPT ![d] = @ \cup {b}]
               /\ tensor' = [tensor EXCEPT ![t] = [on |-> d, buf |-> b, val |-> 0]]
    <3>1. d \in Devices
      BY <2>2
    <3> HIDE DEF t, d
    <3>. QED
      BY <2>3, <2>5, <3>1, AllocHandles
  <2>. QED
    BY <1>8, <2>4, <2>5 DEF GetOutput
<1>9. ASSUME NEW th \in Threads, Output(th) \/ CopyOne(th)
      PROVE  HandlesRight'
  <2>1. allocations_' = allocations_ /\ \E t, v : Store(t, v)
    BY <1>9 DEF Output, CopyOne
  <2>2. \A u \in Tensors : Same(u)
    BY <1>1, <2>1 DEF Store, OrtValue
  <2>. QED
    BY <1>2, <2>1, <2>2, KeepHandles
<1>10. ASSUME NEW th \in Threads, Begins(th) \/ Step(th),
              ~(Output(th) \/ CopyOne(th) \/ GetOutput(th))
       PROVE  UNCHANGED <<tensor, allocations_>>
  BY <1>10 DEF Begins, Compute, CopyTensors, Step, WrapInput, CopyInput, Invoke,
     FinishCompute, FailCompute, ReturnCopy
<1>11. CASE UNCHANGED <<tensor, allocations_>>
  BY <1>2, <1>11, KeepHandles
<1>. QED
  BY <1>3, <1>4, <1>5, <1>6, <1>7, <1>8, <1>9, <1>10, <1>11, NextCases
  DEF HostAlone, vars

\* A destroyed allocator stays empty.
LEMMA DeadStep ==
  ASSUME IInv, [Next]_vars
  PROVE  \A d \in Devices \ alive' : allocations_'[d] = {}
<1>1. /\ allocations_ \in [Devices -> SUBSET Buffers]
      /\ \A d \in Devices \ alive : allocations_[d] = {}
  BY DEF IInv, TypeOK, NoHandles
<1>2. CASE HostAlone
  BY <1>1, <1>2 DEF HostAlone, CreateHostTensor, DropHostTensor, FreeImpl, AllocImpl,
     DestroyAllocator
<1>3. ASSUME NEW th \in Threads, GetOutput(th)
      PROVE  \A d \in Devices \ alive' : allocations_'[d] = {}
  <2>1. call[th].dev \in alive
    BY <1>3 DEF GetOutput, IInv, CallShapes, CallShape
  <2>2. /\ alive' = alive
        /\ \/ UNCHANGED allocations_
           \/ \E b : allocations_' = [allocations_ EXCEPT ![call[th].dev] = @ \cup {b}]
    BY <1>3 DEF GetOutput
  <2>. QED
    BY <1>1, <2>1, <2>2
<1>4. ASSUME NEW th \in Threads, Begins(th) \/ Step(th), ~GetOutput(th)
      PROVE  UNCHANGED <<allocations_, alive>>
  BY <1>4 DEF Begins, Compute, CopyTensors, Step, WrapInput, CopyInput, Invoke, Output,
     CopyOne, FinishCompute, FailCompute, ReturnCopy
<1>. QED
  BY <1>1, <1>2, <1>3, <1>4, NextCases DEF vars

-------------------------------------------------------------------------------
(* What calls read and write.                                                *)

\* Nobody writes a tensor that a call still has to read.
LEMMA NotWritten ==
  ASSUME IInv, NEW th \in Threads, NEW u \in Threads, pc[th] = "inputs",
         NEW t \in Range(call[th].src), Writing(u, t)
  PROVE  FALSE
<1>1. u # th
  BY DEF Writing
<1>2. call[u].i \in DOMAIN call[u].dst
  <2>1. call[u] \in Call
    BY DEF IInv, TypeOK
  <2>. QED
    BY <2>1, CallFields DEF Writing
<1>3. t \in Range(call[u].dst)
  BY <1>2 DEF Writing, Range
<1>. QED
  BY <1>1, <1>3 DEF IInv, Apart

\* The inputs stay what they are.
LEMMA SourceStays ==
  ASSUME IInv, [Next]_vars, NEW th \in Threads, pc[th] = "inputs",
         NEW t \in Range(call[th].src)
  PROVE  /\ tensor'[t] = tensor[t]
         /\ OnDevice(t) => data'[tensor[t].buf] = data[tensor[t].buf]
<1>1. t \in Tensors /\ InUse(t)
  <2>1. call[th] \in Call
    BY DEF IInv, TypeOK
  <2>. QED
    BY <2>1, CallFields DEF Range, InUse, Uses
<1>2. tensor'[t] = tensor[t]
  BY <1>1, TensorChange, NotWritten DEF IInv
<1>3. ASSUME OnDevice(t)
      PROVE  data'[tensor[t].buf] = data[tensor[t].buf]
  <2> DEFINE b == tensor[t].buf
  <2>1. b \in Buffers /\ b \in Owned
    BY <1>1, <1>3, TensorFields DEF IInv, HandlesOwned, Owned, OnDevice
  <2>2. refs[b] # 0
    BY <2>1, HeldIsCounted DEF IInv
  <2>3. ASSUME NEW u \in Threads, NEW s \in Tensors,
               Writing(u, s), OnDevice(s), tensor[s].buf = b
        PROVE  FALSE
    <3>1. s = t
      BY <1>1, <1>3, <2>3 DEF IInv, HandlesOwned
    <3>. QED
      BY <2>3, <3>1, NotWritten
  <2>. QED
    BY <2>1, <2>2, <2>3, DataChange DEF IInv
<1>. QED
  BY <1>2, <1>3

\* A buffer of a view that no allocator knows keeps its contents, and stays unknown.
LEMMA PrivateStays ==
  ASSUME IInv, [Next]_vars, NEW b \in Buffers, refs[b] # 0, b \notin Owned
  PROVE  data'[b] = data[b] /\ b \notin Owned'
<1>1. \A t \in Tensors : OnDevice(t) => tensor[t].buf # b
  BY DEF IInv, HandlesOwned, Owned, OnDevice
<1>. QED
  BY <1>1, DataChange, OwnedChange DEF IInv

\* Call th's inputs are those that its call was made with.
LEMMA InputsStep ==
  ASSUME IInv, [Next]_vars, NEW th \in Threads
  PROVE  InputsKept(th)'
<1> DEFINE c == call[th]
           d == call'[th]
           V(t) == IF tensor'[t].on \in Devices THEN data'[tensor'[t].buf]
                                                ELSE tensor'[t].val
<1>1. c \in Call /\ call \in [Threads -> Call] /\ DOMAIN pc = Threads
  BY DEF IInv, TypeOK
<1>2. SUFFICES ASSUME pc'[th] = "inputs"
               PROVE  /\ d.vals = [j \in DOMAIN d.dst |->
                                     Result(j, [k \in DOMAIN d.src |-> V(d.src[k])])]
                      /\ \A k \in DOMAIN d.views :
                           IF tensor'[d.src[k]].on \in Devices
                           THEN d.views[k] = tensor'[d.src[k]].buf
                           ELSE /\ d.views[k] \notin Owned'
                                /\ data'[d.views[k]] = tensor'[d.src[k]].val
  BY DEF InputsKept, Content, OnDevice
<1>3. CASE Begins(th)
  <2>1. PICK src \in UpTo(Tensors, MaxInputs), dst \in UpTo(Tensors, MaxOutputs) :
          (\E e \in Devices : Compute(th, e, src, dst)) \/ CopyTensors(th, src, dst)
    BY <1>3 DEF Begins
  <2>2. ~CopyTensors(th, src, dst)
    BY <1>1, <1>2 DEF CopyTensors
  <2>3. /\ d.src = src /\ d.dst = dst
        /\ d.vals = [j \in DOMAIN dst |-> Result(j, [k \in DOMAIN src |-> Content(src[k])])]
        /\ UNCHANGED <<data, tensor>>
    BY <1>1, <2>1, <2>2 DEF Compute, NoCall
  <2>4. \A t : V(t) = Content(t)
    BY <2>3 DEF Content, OnDevice
  <2>5. d.vals = [j \in DOMAIN d.dst |->
                    Result(j, [k \in DOMAIN d.src |-> V(d.src[k])])]
    BY <2>3, <2>4
  <2>6. DOMAIN d.views = {}
    BY <1>3, Begun
  <2>. QED
    BY <2>5, <2>6
<1>4. CASE ~Begins(th)
  <2>1. /\ pc[th] = "inputs" /\ d.src = c.src /\ d.dst = c.dst /\ d.vals = c.vals
    BY <1>2, <1>4, PhaseStays DEF SameArguments
  <2>2. /\ c.vals = [j \in DOMAIN c.dst |->
                       Result(j, [k \in DOMAIN c.src |-> Content(c.src[k])])]
        /\ \A k \in DOMAIN c.views :
             IF OnDevice(c.src[k])
             THEN c.views[k] = tensor[c.src[k]].buf
             ELSE c.views[k] \notin Owned /\ data[c.views[k]] = tensor[c.src[k]].val
    BY <2>1 DEF IInv, Kept, InputsKept
  <2>3. \A k \in DOMAIN c.src :
          /\ tensor'[c.src[k]] = tensor[c.src[k]]
          /\ V(c.src[k]) = Content(c.src[k])
          /\ tensor'[c.src[k]].on \in Devices <=> OnDevice(c.src[k])
    BY <2>1, SourceStays DEF Range, Content, OnDevice
  <2>4. d.vals = [j \in DOMAIN d.dst |->
                    Result(j, [k \in DOMAIN d.src |-> V(d.src[k])])]
    <3>1. [k \in DOMAIN c.src |-> V(c.src[k])]
            = [k \in DOMAIN c.src |-> Content(c.src[k])]
      BY <2>3
    <3>. QED
      BY <2>1, <2>2, <3>1
  <2>5. /\ Len(c.views) <= Len(c.src) /\ Len(c.views) \in Nat /\ Len(c.src) \in Nat
        /\ Len(c.views) = c.i - 1 /\ c.i \in Nat
    BY <1>1, <2>1, CallFields DEF IInv, CallShapes, CallShape
  <2>6. ASSUME NEW k \in DOMAIN c.views
        PROVE  IF tensor'[d.src[k]].on \in Devices
               THEN c.views[k] = tensor'[d.src[k]].buf
               ELSE c.views[k] \notin Owned' /\ data'[c.views[k]] = tensor'[d.src[k]].val
    <3>1. k \in DOMAIN c.src /\ c.views[k] \in Buffers /\ k \in HeldViews(c, c.views[k])
      BY <1>1, <2>5, CallFields DEF HeldViews
    <3>2. refs[c.views[k]] # 0
      BY <3>1, HeldIsCounted DEF IInv
    <3>. QED
      BY <2>1, <2>2, <2>3, <3>1, <3>2, PrivateStays
  <2>7. CASE d.views = c.views
    BY <2>4, <2>6, <2>7
  <2>8. CASE WrapInput(th) \/ CopyInput(th)
    <3>1. PICK b \in Buffers :
            /\ AddView(th, b)
            /\ \/ /\ WrapInput(th) /\ OnDevice(c.src[c.i])
                  /\ b = tensor[c.src[c.i]].buf
               \/ /\ CopyInput(th) /\ ~OnDevice(c.src[c.i])
                  /\ refs[b] = 0
                  /\ data' = [data EXCEPT ![b] = tensor[c.src[c.i]].val]
      BY <2>8, AddsView
    <3>2. d.views = Append(c.views, b)
      BY <3>1, Collects
    <3>3. c.views \in Seq(Buffers) /\ c.i \in DOMAIN c.src
      BY <1>1, <3>1, CallFields DEF AddView
    <3>4. /\ DOMAIN d.views = DOMAIN c.views \cup {c.i}
          /\ \A k \in DOMAIN c.views : d.views[k] = c.views[k]
          /\ d.views[c.i] = b
      <4>1. /\ Len(d.views) = Len(c.views) + 1 /\ d.views \in Seq(Buffers)
            /\ \A k \in 1 .. Len(c.views) : d.views[k] = c.views[k]
            /\ d.views[Len(c.views) + 1] = b
        BY <3>2, <3>3, AppendProperties
      <4>2. DOMAIN d.views = 1 .. Len(c.views) + 1 /\ DOMAIN c.views = 1 .. Len(c.views)
        BY <3>3, <4>1
      <4>3. c.i = Len(c.views) + 1
        BY <2>5
      <4>4. 1 .. Len(c.views) + 1 = (1 .. Len(c.views)) \cup {Len(c.views) + 1}
        BY <2>5
      <4>. QED
        BY <4>1, <4>2, <4>3, <4>4
    <3>5. IF tensor'[d.src[c.i]].on \in Devices
          THEN d.views[c.i] = tensor'[d.src[c.i]].buf
          ELSE d.views[c.i] \notin Owned' /\ data'[d.views[c.i]] = tensor'[d.src[c.i]].val
      <4>1. CASE OnDevice(c.src[c.i])
        BY <2>1, <2>3, <3>1, <3>3, <3>4, <4>1
      <4>2. CASE ~OnDevice(c.src[c.i])
        <5>1. /\ refs[b] = 0 /\ UNCHANGED allocations_
              /\ data' = [data EXCEPT ![b] = tensor[c.src[c.i]].val]
          BY <3>1, <4>2 DEF CopyInput
        <5>2. b \notin Owned'
          BY <5>1, HeldIsCounted DEF IInv, Owned
        <5>3. data'[b] = tensor[c.src[c.i]].val
          BY <5>1 DEF IInv, TypeOK
        <5>. QED
          BY <2>1, <2>3, <3>3, <3>4, <4>2, <5>2, <5>3
      <4>. QED
        BY <4>1, <4>2
    <3>. QED
      BY <2>4, <2>6, <3>4, <3>5
  <2>9. d.views = c.views \/ WrapInput(th) \/ CopyInput(th)
    BY <1>2, <1>4, CallChange, Invokes, Advances, Returns DEF IInv
  <2>. QED
    BY <2>7, <2>8, <2>9
<1>. QED
  BY <1>3, <1>4

\* Call th's outputs are the results of its inputs.
LEMMA OutputsStep ==
  ASSUME IInv, [Next]_vars, NEW th \in Threads
  PROVE  OutputsKept(th)'
<1> DEFINE c == call[th]
           d == call'[th]
<1>1. c \in Call /\ d \in Call /\ InputsKept(th) /\ OutputsKept(th) /\ CallShape(th)
      /\ CallShape(th)'
  BY CallStep DEF IInv, TypeOK, Kept, CallShapes
<1>2. SUFFICES ASSUME pc'[th] = "outputs", NEW j \in d.i .. Len(d.outs)
               PROVE  d.outs[j] \notin Owned' /\ data'[d.outs[j]] = d.vals[j]
  BY DEF OutputsKept
<1>3. ASSUME pc[th] = "outputs", d.outs = c.outs, d.vals = c.vals, c.i <= d.i
      PROVE  d.outs[j] \notin Owned' /\ data'[d.outs[j]] = d.vals[j]
  <2>1. j \in c.i .. Len(c.outs) /\ c.outs[j] \in Buffers
    BY <1>1, <1>2, <1>3, CallFields
  <2>2. j \in HeldOuts(c, c.outs[j])
    BY <2>1 DEF HeldOuts
  <2>3. refs[c.outs[j]] # 0
    <3>1. refs[c.outs[j]] > 0
      BY <2>1, <2>2, HeldIsCounted DEF IInv
    <3>. QED
      BY <3>1
  <2>4. c.outs[j] \notin Owned /\ data[c.outs[j]] = c.vals[j]
    BY <1>1, <1>3, <2>1 DEF OutputsKept
  <2>. QED
    BY <1>3, <2>1, <2>3, <2>4, PrivateStays
<1>4. CASE Invoke(th)
  <2> DEFINE ins == [k \in DOMAIN c.views |-> data[c.views[k]]]
  <2>1. /\ SameArguments(c, d) /\ d.i = 1 /\ d.outs \in [1 .. Len(c.dst) -> Free]
        /\ \A k \in 1 .. Len(c.dst) : data'[d.outs[k]] = Result(k, ins)
    BY <1>4, Invokes
  <2>2. /\ pc[th] = "inputs" /\ c.i > Len(c.src) /\ UNCHANGED allocations_
    BY <1>4 DEF Invoke
  <2>3. Len(c.dst) \in Nat /\ c.src \in Seq(Tensors) /\ c.views \in Seq(Buffers)
        /\ c.dst \in Seq(Tensors)
    BY <1>1, CallFields
  <2>4. j \in 1 .. Len(c.dst) /\ d.outs[j] \in Free
    BY <1>2, <2>1, <2>3
  <2>5. d.outs[j] \notin Owned'
    <3>1. d.outs[j] \in Buffers /\ refs[d.outs[j]] = 0
      BY <2>4 DEF Free
    <3>2. d.outs[j] \notin Owned
      BY <3>1, HeldIsCounted DEF IInv
    <3>. QED
      BY <2>2, <3>2 DEF Owned
  <2>6. DOMAIN c.views = DOMAIN c.src
    <3>1. Len(c.views) = c.i - 1 /\ c.i <= Len(c.src) + 1
      BY <1>1, <2>2 DEF CallShape
    <3>2. c.i \in Nat /\ Len(c.src) \in Nat
      BY <1>1, CallFields
    <3>. QED
      BY <2>2, <2>3, <3>1, <3>2
  <2>7. \A k \in DOMAIN c.src : data[c.views[k]] = Content(c.src[k])
    BY <1>1, <2>2, <2>6 DEF InputsKept, Content
  <2>8. ins = [k \in DOMAIN c.src |-> Content(c.src[k])]
    BY <2>6, <2>7
  <2>9. c.vals[j] = Result(j, [k \in DOMAIN c.src |-> Content(c.src[k])])
    BY <1>1, <2>2, <2>3, <2>4 DEF InputsKept
  <2>10. data'[d.outs[j]] = Result(j, ins)
    BY <2>1, <2>4
  <2>. QED
    BY <2>1, <2>5, <2>8, <2>9, <2>10 DEF SameArguments
<1>5. CASE Output(th) \/ CopyOne(th)
  <2>1. /\ SameArguments(c, d) /\ d.outs = c.outs /\ d.i = c.i + 1 /\ pc'[th] = pc[th]
    BY <1>5, Advances
  <2>. QED
    BY <1>1, <1>2, <1>3, <2>1, CallFields DEF SameArguments
<1>6. CASE d = c /\ pc'[th] = pc[th]
  BY <1>1, <1>2, <1>3, <1>6, CallFields
<1>7. CASE WrapInput(th) \/ CopyInput(th)
  BY <1>2, <1>7, AddsView, Collects DEF AddView
<1>. QED
  BY <1>2, <1>4, <1>5, <1>6, <1>7, CallChange, Returns, Begun DEF IInv

\* Every step keeps all calls' inputs and outputs.
LEMMA KeptStep ==
  ASSUME IInv, [Next]_vars
  PROVE  Kept'
BY InputsStep, OutputsStep DEF Kept

-------------------------------------------------------------------------------
(* References.                                                               *)

\* A step that changes no call's holders of b changes no slots of b.
LEMMA CountSame ==
  ASSUME TypeOK, call' \in [Threads -> Call], NEW b,
         \A th \in Threads : /\ HeldViews(call'[th], b) = HeldViews(call[th], b)
                             /\ HeldOuts(call'[th], b) = HeldOuts(call[th], b)
  PROVE  InputViews(b)' = InputViews(b) /\ OutputViews(b)' = OutputViews(b)
BY DEF InputViews, OutputViews

\* The count of buffer b is right.
RefsRight(b) ==
  refs[b] = Cardinality(Entries(b)) + Cardinality(InputViews(b))
            + Cardinality(OutputViews(b))

\* Allocators change: Alloc, Free and their destruction.
LEMMA AllocRefs ==
  ASSUME IInv, NEW b \in Buffers, NEW d \in Devices, refs[b] = 0, refs'[b] = 1,
         UNCHANGED call, b \in allocations_'[d],
         \A e \in Devices \ {d} : b \in allocations_'[e] => b \in allocations_[e]
  PROVE  RefsRight(b)'
<1>1. RefsRight(b)
  BY DEF IInv, BufferRefsExact, RefsRight
<1>2. b \notin Owned
  BY HeldIsCounted DEF IInv
<1>3. Entries(b)' = {d}
  BY <1>2 DEF Entries, Owned
<1>4. Cardinality(Entries(b)') = 1
  BY <1>3, FS_Singleton
<1>5. InputViews(b)' = InputViews(b) /\ OutputViews(b)' = OutputViews(b)
  BY DEF InputViews, OutputViews
<1>6. Cardinality(InputViews(b)) = 0 /\ Cardinality(OutputViews(b)) = 0
  BY <1>1, CountsFinite DEF RefsRight
<1>. QED
  BY <1>4, <1>5, <1>6 DEF RefsRight

\* Free, or the destruction of allocator d, gives up one reference.
LEMMA FreeRefs ==
  ASSUME IInv, NEW b \in Buffers, NEW d \in Devices, b \in allocations_[d],
         refs'[b] = refs[b] - 1, UNCHANGED call, b \notin allocations_'[d],
         \A e \in Devices \ {d} : b \in allocations_'[e] <=> b \in allocations_[e]
  PROVE  RefsRight(b)' /\ refs'[b] \in Nat
<1>1. RefsRight(b)
  BY DEF IInv, BufferRefsExact, RefsRight
<1>2. Entries(b)' = Entries(b) \ {d} /\ d \in Entries(b)
  BY DEF Entries
<1>3. Cardinality(Entries(b)') = Cardinality(Entries(b)) - 1
  BY <1>2, CountsFinite, FS_RemoveElement
<1>4. InputViews(b)' = InputViews(b) /\ OutputViews(b)' = OutputViews(b)
  BY DEF InputViews, OutputViews
<1>5. IsFiniteSet(Entries(b)')
  BY <1>2, CountsFinite, FS_RemoveElement
<1>6. Cardinality(Entries(b)') \in Nat
  BY <1>5, FS_CardinalityType
<1>. QED
  BY <1>1, <1>3, <1>4, <1>6, CountsFinite DEF RefsRight

\* Nothing changes for b.
LEMMA SameRefs ==
  ASSUME IInv, call' \in [Threads -> Call], NEW b \in Buffers, refs'[b] = refs[b],
         \A d \in Devices : b \in allocations_'[d] <=> b \in allocations_[d],
         \A th \in Threads : /\ HeldViews(call'[th], b) = HeldViews(call[th], b)
                             /\ HeldOuts(call'[th], b) = HeldOuts(call[th], b)
  PROVE  RefsRight(b)' /\ refs'[b] \in Nat
<1>1. RefsRight(b) /\ refs[b] \in Nat
  BY DEF IInv, BufferRefsExact, RefsRight, TypeOK
<1>2. Entries(b)' = Entries(b)
  BY DEF Entries
<1>3. InputViews(b)' = InputViews(b) /\ OutputViews(b)' = OutputViews(b)
  BY CountSame DEF IInv
<1>. QED
  BY <1>1, <1>2, <1>3 DEF RefsRight

\* A step of a call changes its own lists, and the count by as much.
LEMMA CallRefs ==
  ASSUME IInv, call' \in [Threads -> Call], NEW b \in Buffers, NEW th \in Threads,
         \A u \in Threads \ {th} : call'[u] = call[u], UNCHANGED allocations_,
         refs'[b] = refs[b]
           + (Cardinality(HeldViews(call'[th], b)) - Cardinality(HeldViews(call[th], b)))
           + (Cardinality(HeldOuts(call'[th], b)) - Cardinality(HeldOuts(call[th], b)))
  PROVE  RefsRight(b)' /\ refs'[b] \in Nat
<1>1. RefsRight(b) /\ TypeOK
  BY DEF IInv, BufferRefsExact, RefsRight
<1>2. Entries(b)' = Entries(b)
  BY DEF Entries
<1>3. /\ Cardinality(InputViews(b)') + Cardinality(HeldViews(call[th], b))
           = Cardinality(InputViews(b)) + Cardinality(HeldViews(call'[th], b))
      /\ Cardinality(OutputViews(b)') + Cardinality(HeldOuts(call[th], b))
           = Cardinality(OutputViews(b)) + Cardinality(HeldOuts(call'[th], b))
      /\ Cardinality(InputViews(b)') \in Nat /\ Cardinality(OutputViews(b)') \in Nat
      /\ Cardinality(HeldViews(call[th], b)) \in Nat
      /\ Cardinality(HeldOuts(call[th], b)) \in Nat
  BY <1>1, CountViews
<1>4. /\ Cardinality(HeldViews(call'[th], b)) \in Nat
      /\ Cardinality(HeldOuts(call'[th], b)) \in Nat
  BY HeldBounds, FS_CardinalityType
<1>5. /\ Cardinality(Entries(b)) \in Nat /\ Cardinality(InputViews(b)) \in Nat
      /\ Cardinality(OutputViews(b)) \in Nat
  BY CountsFinite
<1>6. refs'[b] = Cardinality(Entries(b)) + Cardinality(InputViews(b)')
                 + Cardinality(OutputViews(b)')
  BY <1>1, <1>3, <1>4, <1>5 DEF RefsRight
<1>. QED
  BY <1>2, <1>3, <1>5, <1>6 DEF RefsRight

\* Empty lists hold nothing.
LEMMA HoldsNothing ==
  ASSUME NEW c \in Call, NEW b
  PROVE  /\ c.views = << >> => HeldViews(c, b) = {}
         /\ c.outs = << >> => HeldOuts(c, b) = {}
<1>1. c.i \in Nat \ {0}
  BY CallFields
<1>. QED
  BY <1>1 DEF HeldViews, HeldOuts

\* A step that changes no list's holders of b, nor b's reference count.
LEMMA IdleRefs ==
  ASSUME IInv, [Next]_vars, NEW b \in Buffers, UNCHANGED <<call, refs, allocations_>>
  PROVE  RefsRight(b)' /\ refs'[b] \in Nat
<1>1. call' \in [Threads -> Call]
  BY CallsType
<1>. QED
  BY <1>1, SameRefs

\* Alloc, Free and the destruction of allocators count what they change.
LEMMA HostRefs ==
  ASSUME IInv, HostAlone, [Next]_vars, NEW b \in Buffers
  PROVE  RefsRight(b)' /\ refs'[b] \in Nat
<1>1. /\ refs \in [Buffers -> Nat] /\ allocations_ \in [Devices -> SUBSET Buffers]
      /\ call' \in [Threads -> Call]
  BY CallsType DEF IInv, TypeOK
<1>2. call' = call
  BY HostAloneCalls
<1>3. ASSUME NEW d \in Devices, NEW t \in Tensors, AllocImpl(d, t)
      PROVE  RefsRight(b)' /\ refs'[b] \in Nat
  <2>1. PICK f \in Free :
          /\ refs' = [refs EXCEPT ![f] = 1]
          /\ allocations_' = [allocations_ EXCEPT ![d] = @ \cup {f}]
    BY <1>3 DEF AllocImpl
  <2>2. CASE b = f
    <3>1. /\ refs[b] = 0 /\ refs'[b] = 1 /\ b \in allocations_'[d]
          /\ \A e \in Devices \ {d} : b \in allocations_'[e] => b \in allocations_[e]
      BY <1>1, <2>1, <2>2 DEF Free
    <3>. QED
      BY <1>2, <3>1, AllocRefs
  <2>3. CASE b # f
    <3>1. /\ refs'[b] = refs[b]
          /\ \A e \in Devices : b \in allocations_'[e] <=> b \in allocations_[e]
      BY <1>1, <2>1, <2>3
    <3>. QED
      BY <1>1, <1>2, <3>1, SameRefs
  <2>. QED
    BY <2>2, <2>3
<1>4. ASSUME NEW t \in Tensors, FreeImpl(t)
      PROVE  RefsRight(b)' /\ refs'[b] \in Nat
  <2> DEFINE d == tensor[t].on
             h == tensor[t].buf
  <2>1. /\ d \in Devices
        /\ refs' = IF h \in allocations_[d] THEN [refs EXCEPT ![h] = @ - 1] ELSE refs
        /\ allocations_' = [allocations_ EXCEPT ![d] = @ \ {h}]
    BY <1>4 DEF FreeImpl, OnDevice
  <2> HIDE DEF d, h
  <2>2. CASE b = h /\ h \in allocations_[d]
    <3>1. /\ b \in allocations_[d] /\ refs'[b] = refs[b] - 1 /\ b \notin allocations_'[d]
          /\ \A e \in Devices \ {d} : b \in allocations_'[e] <=> b \in allocations_[e]
      BY <1>1, <2>1, <2>2
    <3>. QED
      BY <1>2, <2>1, <3>1, FreeRefs
  <2>3. CASE ~(b = h /\ h \in allocations_[d])
    <3>1. /\ refs'[b] = refs[b]
          /\ \A e \in Devices : b \in allocations_'[e] <=> b \in allocations_[e]
      BY <1>1, <2>1, <2>3
    <3>. QED
      BY <1>1, <1>2, <3>1, SameRefs
  <2>. QED
    BY <2>2, <2>3
<1>5. ASSUME NEW d \in Devices, DestroyAllocator(d)
      PROVE  RefsRight(b)' /\ refs'[b] \in Nat
  <2>1. /\ refs'[b] = IF b \in allocations_[d] THEN refs[b] - 1 ELSE refs[b]
        /\ allocations_' = [allocations_ EXCEPT ![d] = {}]
    BY <1>5 DEF DestroyAllocator
  <2>2. CASE b \in allocations_[d]
    <3>1. /\ refs'[b] = refs[b] - 1 /\ b \notin allocations_'[d]
          /\ \A e \in Devices \ {d} : b \in allocations_'[e] <=> b \in allocations_[e]
      BY <1>1, <2>1, <2>2
    <3>. QED
      BY <1>2, <2>2, <3>1, FreeRefs
  <2>3. CASE b \notin allocations_[d]
    <3>1. /\ refs'[b] = refs[b]
          /\ \A e \in Devices : b \in allocations_'[e] <=> b \in allocations_[e]
      BY <1>1, <2>1, <2>3
    <3>. QED
      BY <1>1, <1>2, <3>1, SameRefs
  <2>. QED
    BY <2>2, <2>3
<1>6. ASSUME NEW t \in Tensors,
             (\E v \in Values : CreateHostTensor(t, v)) \/ DropHostTensor(t)
      PROVE  RefsRight(b)' /\ refs'[b] \in Nat
  BY <1>6, IdleRefs DEF CreateHostTensor, DropHostTensor
<1>. QED
  BY <1>3, <1>4, <1>5, <1>6 DEF HostAlone

\* One more element of a list.
LEMMA AppendOne ==
  ASSUME NEW S, NEW s \in Seq(S), NEW e \in S
  PROVE  /\ DOMAIN Append(s, e) = DOMAIN s \cup {Len(s) + 1}
         /\ Len(s) + 1 \notin DOMAIN s
         /\ \A k \in DOMAIN s : Append(s, e)[k] = s[k]
         /\ Append(s, e)[Len(s) + 1] = e
<1>1. /\ Len(s) \in Nat /\ DOMAIN s = 1 .. Len(s)
      /\ Append(s, e) \in Seq(S) /\ Len(Append(s, e)) = Len(s) + 1
      /\ \A k \in 1 .. Len(s) : Append(s, e)[k] = s[k]
      /\ Append(s, e)[Len(s) + 1] = e
  BY AppendProperties
<1>2. DOMAIN Append(s, e) = 1 .. (Len(s) + 1)
  BY <1>1
<1>3. 1 .. (Len(s) + 1) = (1 .. Len(s)) \cup {Len(s) + 1}
  BY <1>1
<1>4. Len(s) + 1 \notin 1 .. Len(s)
  BY <1>1
<1>. QED
  BY <1>1, <1>2, <1>3, <1>4

\* A new view is one more holder of its buffer.
LEMMA ViewRefs ==
  ASSUME IInv, [Next]_vars, NEW th \in Threads, WrapInput(th) \/ CopyInput(th),
         NEW b \in Buffers
  PROVE  RefsRight(b)' /\ refs'[b] \in Nat
<1> DEFINE c == call[th]
           d == call'[th]
<1>1. /\ refs \in [Buffers -> Nat] /\ call' \in [Threads -> Call]
      /\ c \in Call /\ d \in Call /\ TypeOK
  BY CallsType DEF IInv, TypeOK
<1>2. PICK f \in Buffers :
        /\ AddView(th, f)
        /\ \/ refs' = [refs EXCEPT ![f] = @ + 1]
           \/ refs[f] = 0 /\ refs' = [refs EXCEPT ![f] = 1]
  BY AddsView
<1>3. d.views = Append(c.views, f) /\ d.outs = c.outs /\ c.outs = << >>
  BY <1>2, Collects DEF IInv, CallShapes, CallShape, AddView
<1>4. \A u \in Threads \ {th} : call'[u] = call[u]
  BY <1>1, OtherCalls DEF Step
<1>5. UNCHANGED allocations_
  BY DEF WrapInput, CopyInput
<1>6. HeldOuts(d, b) = {} /\ HeldOuts(c, b) = {}
  BY <1>1, <1>3, HoldsNothing
<1>7. c.views \in Seq(Buffers)
  BY <1>1, CallFields
<1>8. /\ DOMAIN d.views = DOMAIN c.views \cup {Len(c.views) + 1}
      /\ Len(c.views) + 1 \notin DOMAIN c.views
      /\ \A k \in DOMAIN c.views : d.views[k] = c.views[k]
      /\ d.views[Len(c.views) + 1] = f
  BY <1>3, <1>7, AppendOne
<1>9. /\ IsFiniteSet(HeldViews(c, b)) /\ Cardinality(HeldViews(c, b)) \in Nat
  BY <1>1, HeldBounds, FS_CardinalityType
<1>10. CASE b = f
  <2>1. /\ HeldViews(d, b) = HeldViews(c, b) \cup {Len(c.views) + 1}
        /\ Len(c.views) + 1 \notin HeldViews(c, b)
    BY <1>8, <1>10 DEF HeldViews
  <2>2. Cardinality(HeldViews(d, b)) = Cardinality(HeldViews(c, b)) + 1
    BY <1>9, <2>1, FS_AddElement
  <2>3. refs'[b] = refs[b] + 1
    BY <1>1, <1>2, <1>10
  <2>4. refs'[b] = refs[b] + (Cardinality(HeldViews(d, b)) - Cardinality(HeldViews(c, b)))
                   + (Cardinality(HeldOuts(d, b)) - Cardinality(HeldOuts(c, b)))
    BY <1>1, <1>6, <1>9, <2>2, <2>3, FS_EmptySet
  <2>. QED
    BY <1>1, <1>4, <1>5, <2>4, CallRefs
<1>11. CASE b # f
  <2>1. HeldViews(d, b) = HeldViews(c, b)
    BY <1>8, <1>11 DEF HeldViews
  <2>2. refs'[b] = refs[b]
    BY <1>1, <1>2, <1>11
  <2>. QED
    BY <1>1, <1>4, <1>5, <1>6, <2>1, <2>2, SameRefs
<1>. QED
  BY <1>10, <1>11

\* Each output of the program is the one holder of its buffer.
LEMMA InvokeRefs ==
  ASSUME IInv, [Next]_vars, NEW th \in Threads, Invoke(th), NEW b \in Buffers
  PROVE  RefsRight(b)' /\ refs'[b] \in Nat
<1> DEFINE c == call[th]
           d == call'[th]
           n == Len(c.dst)
<1>1. /\ refs \in [Buffers -> Nat] /\ call' \in [Threads -> Call]
      /\ c \in Call /\ d \in Call /\ TypeOK
  BY CallsType DEF IInv, TypeOK
<1>2. /\ d.views = c.views /\ d.i = 1
      /\ d.outs \in [1 .. n -> Free] /\ IsInjective(d.outs)
      /\ refs' = [a \in Buffers |-> IF a \in Range(d.outs) THEN 1 ELSE refs[a]]
  BY Invokes
<1>3. c.outs = << >> /\ UNCHANGED allocations_
  BY DEF IInv, CallShapes, CallShape, Invoke
<1>4. \A u \in Threads \ {th} : call'[u] = call[u]
  BY <1>1, OtherCalls DEF Step
<1>5. HeldOuts(c, b) = {} /\ HeldViews(d, b) = HeldViews(c, b)
  BY <1>1, <1>2, <1>3, HoldsNothing DEF HeldViews
<1>6. HeldOuts(d, b) = {j \in 1 .. n : d.outs[j] = b}
  <2>1. n \in Nat /\ Len(d.outs) = n
    BY <1>1, <1>2, CallFields
  <2>. QED
    BY <1>2, <2>1 DEF HeldOuts
<1>7. CASE b \in Range(d.outs)
  <2>1. PICK j \in 1 .. n : d.outs[j] = b
    BY <1>2, <1>7 DEF Range
  <2>2. HeldOuts(d, b) = {j}
    BY <1>2, <1>6, <2>1 DEF IsInjective
  <2>3. Cardinality(HeldOuts(d, b)) = 1 /\ Cardinality(HeldOuts(c, b)) = 0
    BY <1>5, <2>2, FS_EmptySet, FS_Singleton
  <2>4. refs[b] = 0 /\ refs'[b] = 1
    BY <1>2, <1>7, <2>1 DEF Free
  <2>5. Cardinality(HeldViews(c, b)) \in Nat
    BY <1>1, HeldBounds, FS_CardinalityType
  <2>6. refs'[b] = refs[b] + (Cardinality(HeldViews(d, b)) - Cardinality(HeldViews(c, b)))
                   + (Cardinality(HeldOuts(d, b)) - Cardinality(HeldOuts(c, b)))
    BY <1>5, <2>3, <2>4, <2>5
  <2>. QED
    BY <1>1, <1>3, <1>4, <2>6, CallRefs
<1>8. CASE b \notin Range(d.outs)
  <2>1. HeldOuts(d, b) = {}
    BY <1>2, <1>6, <1>8 DEF Range
  <2>2. refs'[b] = refs[b]
    BY <1>2, <1>8
  <2>. QED
    BY <1>1, <1>3, <1>4, <1>5, <2>1, <2>2, SameRefs
<1>. QED
  BY <1>7, <1>8

\* A copied output lets go of its buffer.
LEMMA OutputRefs ==
  ASSUME IInv, [Next]_vars, NEW th \in Threads, Output(th), NEW b \in Buffers
  PROVE  RefsRight(b)' /\ refs'[b] \in Nat
<1> DEFINE c == call[th]
           d == call'[th]
           f == c.outs[c.i]
<1>1. /\ refs \in [Buffers -> Nat] /\ call' \in [Threads -> Call]
      /\ c \in Call /\ d \in Call /\ TypeOK /\ CallShape(th)
  BY CallsType DEF IInv, TypeOK, CallShapes
<1>2. /\ d.views = c.views /\ d.outs = c.outs /\ d.i = c.i + 1
  BY Advances
<1>3. /\ refs' = [refs EXCEPT ![f] = @ - 1] /\ UNCHANGED allocations_
      /\ c.i <= Len(c.outs)
  BY <1>1 DEF Output, CallShape
<1>4. \A u \in Threads \ {th} : call'[u] = call[u]
  BY <1>1, OtherCalls DEF Step
<1>5. c.i \in Nat /\ Len(c.outs) \in Nat
  BY <1>1, CallFields
<1>6. HeldViews(d, b) = HeldViews(c, b)
  BY <1>2 DEF HeldViews
<1>7. HeldOuts(d, b) = HeldOuts(c, b) \ {c.i}
  BY <1>2, <1>5 DEF HeldOuts
<1>8. CASE b = f
  <2>1. c.i \in HeldOuts(c, b)
    BY <1>3, <1>5, <1>8 DEF HeldOuts
  <2>2. Cardinality(HeldOuts(d, b)) = Cardinality(HeldOuts(c, b)) - 1
    <3>1. IsFiniteSet(HeldOuts(c, b))
      BY <1>1, HeldBounds
    <3>2. Cardinality(HeldOuts(c, b) \ {c.i}) = Cardinality(HeldOuts(c, b)) - 1
      BY <2>1, <3>1, FS_RemoveElement
    <3>. QED
      BY <1>7, <3>2
  <2>3. refs'[b] = refs[b] - 1
    BY <1>1, <1>3, <1>8
  <2>4. Cardinality(HeldViews(c, b)) \in Nat /\ Cardinality(HeldOuts(c, b)) \in Nat
    BY <1>1, HeldBounds, FS_CardinalityType
  <2>5. refs'[b] = refs[b] + (Cardinality(HeldViews(d, b)) - Cardinality(HeldViews(c, b)))
                   + (Cardinality(HeldOuts(d, b)) - Cardinality(HeldOuts(c, b)))
    BY <1>1, <1>6, <2>2, <2>3, <2>4
  <2>. QED
    BY <1>1, <1>3, <1>4, <2>5, CallRefs
<1>9. CASE b # f
  <2>1. HeldOuts(d, b) = HeldOuts(c, b)
    BY <1>7, <1>9 DEF HeldOuts
  <2>2. refs'[b] = refs[b]
    BY <1>1, <1>3, <1>9
  <2>. QED
    BY <1>1, <1>3, <1>4, <1>6, <2>1, <2>2, SameRefs
<1>. QED
  BY <1>8, <1>9

\* On every way out a call gives up all that it holds.
LEMMA EndRefs ==
  ASSUME IInv, [Next]_vars, NEW th \in Threads, Ends(th), NEW b \in Buffers
  PROVE  RefsRight(b)' /\ refs'[b] \in Nat
<1> DEFINE c == call[th]
           d == call'[th]
<1>1. /\ refs \in [Buffers -> Nat] /\ call' \in [Threads -> Call]
      /\ c \in Call /\ d \in Call /\ TypeOK /\ CallShape(th)
  BY CallsType DEF IInv, TypeOK, CallShapes
<1>2. HeldViews(d, b) = {} /\ HeldOuts(d, b) = {}
  BY <1>1, Returns, NoCallType, HoldsNothing
<1>3. UNCHANGED allocations_ /\ \A u \in Threads \ {th} : call'[u] = call[u]
  BY <1>1, OtherCalls DEF Step, Ends, FinishCompute, FailCompute, ReturnCopy
<1>4. refs'[b] = refs[b] - Cardinality(HeldViews(c, b)) - Cardinality(HeldOuts(c, b))
  <2>1. CASE FinishCompute(th) \/ FailCompute(th)
    BY <2>1 DEF FinishCompute, FailCompute, ReleaseViews
  <2>2. CASE ReturnCopy(th)
    <3>1. c.views = << >> /\ c.outs = << >> /\ refs' = refs
      BY <1>1, <2>2 DEF ReturnCopy, CallShape
    <3>2. Cardinality(HeldViews(c, b)) = 0 /\ Cardinality(HeldOuts(c, b)) = 0
      BY <1>1, <3>1, HoldsNothing, FS_EmptySet
    <3>. QED
      BY <1>1, <3>1, <3>2
  <2>. QED
    BY <2>1, <2>2 DEF Ends
<1>5. /\ Cardinality(HeldViews(c, b)) \in Nat /\ Cardinality(HeldOuts(c, b)) \in Nat
      /\ Cardinality(HeldViews(d, b)) = 0 /\ Cardinality(HeldOuts(d, b)) = 0
  BY <1>1, <1>2, HeldBounds, FS_CardinalityType, FS_EmptySet
<1>6. refs'[b] = refs[b] + (Cardinality(HeldViews(d, b)) - Cardinality(HeldViews(c, b)))
                 + (Cardinality(HeldOuts(d, b)) - Cardinality(HeldOuts(c, b)))
  BY <1>1, <1>4, <1>5
<1>. QED
  BY <1>1, <1>3, <1>6, CallRefs

\* The other steps of a call: no reference changes, but those of Alloc.
LEMMA OtherRefs ==
  ASSUME IInv, [Next]_vars, NEW th \in Threads,
         Begins(th) \/ CopyOne(th) \/ GetOutput(th), NEW b \in Buffers
  PROVE  RefsRight(b)' /\ refs'[b] \in Nat
<1> DEFINE c == call[th]
           d == call'[th]
<1>1. /\ refs \in [Buffers -> Nat] /\ call' \in [Threads -> Call]
      /\ allocations_ \in [Devices -> SUBSET Buffers] /\ alive \subseteq Devices
      /\ c \in Call /\ d \in Call /\ TypeOK /\ CallShape(th)
  BY CallsType DEF IInv, TypeOK, CallShapes
<1>2. \A u \in Threads \ {th} : call'[u] = call[u]
  BY <1>1, OtherCalls DEF Step
<1>3. CASE Begins(th) \/ CopyOne(th)
  <2>1. UNCHANGED <<refs, allocations_>>
    BY <1>3, BeginsApart DEF CopyOne
  <2>2. /\ c.views = << >> /\ c.outs = << >> /\ d.views = << >> /\ d.outs = << >>
    <3>1. CASE Begins(th)
      BY <3>1, Begun, NoCallType
    <3>2. CASE CopyOne(th)
      BY <1>1, <3>2, Advances DEF CopyOne, CallShape
    <3>. QED
      BY <1>3, <3>1, <3>2
  <2>3. /\ HeldViews(d, b) = HeldViews(c, b) /\ HeldOuts(d, b) = HeldOuts(c, b)
    BY <1>1, <2>2, HoldsNothing
  <2>. QED
    BY <1>1, <1>2, <2>1, <2>3, SameRefs
<1>4. CASE GetOutput(th)
  <2>1. call' = call /\ c.dev \in Devices
    BY <1>1, <1>4 DEF GetOutput, CallShape
  <2>2. CASE UNCHANGED <<refs, allocations_>>
    BY <2>1, <2>2, IdleRefs
  <2>3. ASSUME NEW f \in Free,
               refs' = [refs EXCEPT ![f] = 1],
               allocations_' = [allocations_ EXCEPT ![c.dev] = @ \cup {f}]
        PROVE  RefsRight(b)' /\ refs'[b] \in Nat
    <3>1. CASE b = f
      <4>1. /\ refs[b] = 0 /\ refs'[b] = 1 /\ b \in allocations_'[c.dev]
            /\ \A e \in Devices \ {c.dev} :
                 b \in allocations_'[e] => b \in allocations_[e]
        BY <1>1, <2>1, <2>3, <3>1 DEF Free
      <4>. QED
        BY <2>1, <4>1, AllocRefs
    <3>2. CASE b # f
      <4>1. /\ refs'[b] = refs[b]
            /\ \A e \in Devices : b \in allocations_'[e] <=> b \in allocations_[e]
        BY <1>1, <2>1, <2>3, <3>2
      <4>. QED
        BY <1>1, <2>1, <4>1, SameRefs
    <3>. QED
      BY <3>1, <3>2
  <2>. QED
    BY <1>4, <2>2, <2>3 DEF GetOutput
<1>. QED
  BY <1>3, <1>4

\* The counts stay exact, and so natural.
LEMMA RefsStep ==
  ASSUME IInv, [Next]_vars
  PROVE  refs' \in [Buffers -> Nat] /\ BufferRefsExact'
<1>1. refs \in [Buffers -> Nat]
  BY DEF IInv, TypeOK
<1>2. ASSUME NEW b \in Buffers
      PROVE  RefsRight(b)' /\ refs'[b] \in Nat
  <2>1. ASSUME NEW th \in Threads, Begins(th) \/ Step(th)
        PROVE  RefsRight(b)' /\ refs'[b] \in Nat
    BY <2>1, ViewRefs, InvokeRefs, OutputRefs, EndRefs, OtherRefs DEF Step, Ends
  <2>2. CASE UNCHANGED vars
    BY <2>2, IdleRefs DEF vars
  <2>. QED
    BY <2>1, <2>2, NextCases, HostRefs
<1>3. DOMAIN refs' = Buffers /\ refs' = [b \in Buffers |-> refs'[b]]
  <2>1. \/ refs' = refs
        \/ \E f, v : refs' = [refs EXCEPT ![f] = v]
        \/ \E g : refs' = [b \in Buffers |-> g[b]]
    <3>1. CASE HostAlone
      BY <1>1, <3>1 DEF HostAlone, CreateHostTensor, DropHostTensor, FreeImpl,
         AllocImpl, DestroyAllocator
    <3>2. ASSUME NEW th \in Threads, Begins(th)
          PROVE  refs' = refs
      BY <3>2, BeginsApart
    <3>3. ASSUME NEW th \in Threads, Step(th)
          PROVE  \/ refs' = refs
                 \/ \E f, v : refs' = [refs EXCEPT ![f] = v]
                 \/ \E g : refs' = [b \in Buffers |-> g[b]]
      BY <3>3 DEF Step, WrapInput, CopyInput, Invoke, GetOutput, Output, CopyOne,
         FinishCompute, FailCompute, ReturnCopy, ReleaseViews
    <3>. QED
      BY <3>1, <3>2, <3>3, NextCases DEF vars
  <2>. QED
    BY <1>1, <2>1
<1>. QED
  BY <1>2, <1>3 DEF BufferRefsExact, RefsRight

-------------------------------------------------------------------------------
(* The invariant, and what it says of references and handles.                *)

\* At the start there are no buffers and no calls.
LEMMA InitIInv ==
  ASSUME Init
  PROVE  IInv
<1>1. \A b : Entries(b) = {} /\ InputViews(b) = {} /\ OutputViews(b) = {}
  <2>1. ASSUME NEW b
        PROVE  Entries(b) = {} /\ InputViews(b) = {} /\ OutputViews(b) = {}
    <3>1. \A th \in Threads : call[th] = NoCall
      BY DEF Init
    <3>2. HeldViews(NoCall, b) = {} /\ HeldOuts(NoCall, b) = {}
      BY NoCallType, HoldsNothing
    <3>3. InputViews(b) = {} /\ OutputViews(b) = {}
      BY <3>1, <3>2 DEF InputViews, OutputViews
    <3>. QED
      BY <3>3 DEF Init, Entries
  <2>. QED
    BY <2>1
<1>2. TypeOK
  BY NoCallType, ValuesAssumption
  DEF Init, TypeOK, NoTensor, OrtValue, Values
<1>3. \A t \in Tensors : ~OnDevice(t) /\ tensor[t].buf = "null"
  BY NamesAssumption DEF Init, NoTensor, OnDevice
<1>4. \A th \in Threads :
        /\ call[th] = NoCall /\ pc[th] = "idle"
        /\ Range(call[th].dst) = {} /\ Range(call[th].src) = {} /\ IsInjective(call[th].dst)
  BY NoCallType DEF Init, Range, IsInjective
<1>5. CallShapes /\ Apart /\ Present /\ Kept
  BY <1>4 DEF CallShapes, CallShape, Apart, Present, Kept, InputsKept, OutputsKept
<1>6. NoHandles /\ HandlesOwned
  BY <1>3 DEF NoHandles, HandlesOwned, Init
<1>7. BufferRefsExact
  <2>1. Cardinality({}) = 0
    BY FS_EmptySet
  <2>2. \A b \in Buffers : refs[b] = 0
    BY DEF Init
  <2>. QED
    BY <1>1, <2>1, <2>2 DEF BufferRefsExact
<1>. QED
  BY <1>2, <1>5, <1>6, <1>7 DEF IInv

\* IInv is inductive: every action keeps each of its parts.
LEMMA NextIInv ==
  ASSUME IInv, [Next]_vars
  PROVE  IInv'
<1>1. TypeOK'
  BY RefsStep, DataType, AllocationsType, TensorType, CallsType DEF TypeOK
<1>2. CallShapes' /\ Apart' /\ Present' /\ Kept'
  BY CallsType, ApartStep, PresentStep, KeptStep
<1>3. NoHandles' /\ HandlesOwned'
  BY HandlesStep, DeadStep DEF NoHandles, HandlesRight
<1>4. BufferRefsExact'
  BY RefsStep
<1>. QED
  BY <1>1, <1>2, <1>3, <1>4 DEF IInv

\* The inductive invariant holds in every state.
THEOREM CallsInductive == Spec => []IInv
<1>1. Init => IInv
  BY InitIInv
<1>2. IInv /\ [Next]_vars => IInv'
  BY NextIInv
<1>. QED
  BY <1>1, <1>2, PTL DEF Spec

\* The state has its type; a reference count never goes below 0.
THEOREM TypeCorrect == Spec => []TypeOK
<1>1. IInv => TypeOK
  BY DEF IInv
<1>. QED
  BY <1>1, CallsInductive, PTL

\* On every path out of Compute the buffers' references are given back exactly
\* once: a buffer is freed when, and only when, no map and no view holds it.
THEOREM ReferencesExact == Spec => []BufferRefsExact
<1>1. IInv => BufferRefsExact
  BY DEF IInv
<1>. QED
  BY <1>1, CallsInductive, PTL

\* The raw pointer of a device tensor is a key of its own device's allocator, and
\* no other tensor has it, however addresses are used again.
THEOREM HandlesAreOwned == Spec => []HandlesOwned
<1>1. IInv => HandlesOwned
  BY DEF IInv
<1>. QED
  BY <1>1, CallsInductive, PTL

\* When the last allocator is destroyed no reference is left, to buffers of tensors
\* that the host never freed and to those of calls alike.
THEOREM AllocatorsRelease == Spec => []AllocatorsReleaseAll
<1>1. ASSUME IInv
      PROVE  AllocatorsReleaseAll
  <2>1. SUFFICES ASSUME alive = {}, NEW b \in Buffers
                 PROVE  refs[b] = 0
    BY DEF AllocatorsReleaseAll
  <2>2. Entries(b) = {}
    BY <1>1, <2>1 DEF IInv, NoHandles, Entries
  <2>3. ASSUME NEW th \in Threads
        PROVE  HeldViews(call[th], b) = {} /\ HeldOuts(call[th], b) = {}
    <3>1. call[th] \in Call
      BY <1>1 DEF IInv, TypeOK
    <3>2. call[th].views = << >> /\ call[th].outs = << >>
      BY <1>1, <2>1, NoCallType DEF IInv, CallShapes, CallShape
    <3>. QED
      BY <3>1, <3>2, HoldsNothing
  <2>4. InputViews(b) = {} /\ OutputViews(b) = {}
    BY <2>3 DEF InputViews, OutputViews
  <2>. QED
    BY <1>1, <2>2, <2>4, FS_EmptySet DEF IInv, BufferRefsExact
<1>2. IInv => AllocatorsReleaseAll
  BY <1>1
<1>. QED
  BY <1>2, CallsInductive, PTL

-------------------------------------------------------------------------------
(* Calls implement TensorStore.                                              *)

\* The jobs of the store that the calls implement.
Job == [th \in Threads |-> Remaining(th)]

\* What a call c in phase p has to write.
Todo(c, p) == SubSeq(Writes(c), IF p = "inputs" THEN 1 ELSE c.i, Len(c.dst))

\* The writes of a call are as many as its destinations.
LEMMA WritesSeq ==
  ASSUME NEW c \in Call
  PROVE  /\ Writes(c) \in Seq(Range(Writes(c))) /\ Len(Writes(c)) = Len(c.dst)
         /\ DOMAIN Writes(c) = DOMAIN c.dst
<1>1. DOMAIN c.dst = 1 .. Len(c.dst) /\ Len(c.dst) \in Nat
  BY CallFields
<1>2. Writes(c) = [j \in 1 .. Len(c.dst) |-> Writes(c)[j]]
  BY <1>1 DEF Writes
<1>3. \A j \in 1 .. Len(c.dst) : Writes(c)[j] \in Range(Writes(c))
  BY <1>2 DEF Range
<1>4. Writes(c) \in [1 .. Len(c.dst) -> Range(Writes(c))]
  BY <1>2, <1>3
<1> DEFINE w == Writes(c)
           n == Len(c.dst)
           R == Range(w)
<1>5. w \in [1 .. n -> R] /\ n \in Nat
  BY <1>1, <1>4
<1> HIDE DEF w, n, R
<1>6. w \in Seq(R) /\ Len(w) = n /\ DOMAIN w = 1 .. n
  BY <1>5
<1>. QED
  BY <1>1, <1>6 DEF w, n, R

\* At its i-th destination the next write is the i-th, and the others follow.
LEMMA NextWrite ==
  ASSUME NEW c \in Call, NEW d \in Call, NEW p, p # "inputs",
         c.i <= Len(c.dst), SameArguments(c, d), d.i = c.i + 1
  PROVE  /\ Todo(c, p) # << >> /\ Head(Todo(c, p)) = Writes(c)[c.i]
         /\ Todo(d, p) = Tail(Todo(c, p))
<1>1. /\ Writes(c) \in Seq(Range(Writes(c))) /\ Len(Writes(c)) = Len(c.dst)
      /\ c.i \in 1 .. Len(Writes(c)) /\ Len(c.dst) \in c.i .. Len(Writes(c))
  BY WritesSeq, CallFields
<1>2. Writes(d) = Writes(c) /\ d.dst = c.dst
  BY DEF Writes, SameArguments
<1>3. /\ Head(Todo(c, p)) = Writes(c)[c.i]
      /\ Tail(Todo(c, p)) = SubSeq(Writes(c), c.i + 1, Len(c.dst))
  BY <1>1, HeadTailOfSubSeq DEF Todo
<1>4. Todo(c, p) # << >>
  <2> DEFINE w == Writes(c)
             R == Range(w)
  <2>1. /\ \A k \in c.i .. Len(c.dst) : w[k] \in R
        /\ c.i \in Int /\ Len(c.dst) \in Int
    BY <1>1, WritesSeq, CallFields DEF Range
  <2> HIDE DEF w, R
  <2>2. Len(SubSeq(w, c.i, Len(c.dst))) = IF c.i <= Len(c.dst) THEN Len(c.dst) - c.i + 1 ELSE 0
    BY <2>1, SubSeqProperties
  <2>3. Len(SubSeq(w, c.i, Len(c.dst))) # 0
    BY <2>1, <2>2
  <2>4. SubSeq(w, c.i, Len(c.dst)) # << >>
    <3> DEFINE u == SubSeq(w, c.i, Len(c.dst))
    <3>1. Len(u) # 0 /\ Len(<< >>) = 0
      BY <2>3
    <3> HIDE DEF u
    <3>2. u # << >>
      BY <3>1
    <3>. QED
      BY <3>2 DEF u
  <2>5. Todo(c, p) = SubSeq(w, c.i, Len(c.dst))
    BY DEF w, Todo
  <2>. QED
    BY <2>4, <2>5
<1>. QED
  BY <1>2, <1>3, <1>4 DEF Todo

\* A call that has written all, or that is none, has nothing to write.
LEMMA NothingLeft ==
  ASSUME NEW c \in Call, NEW p, p # "inputs", c.i > Len(c.dst)
  PROVE  Todo(c, p) = << >>
<1>1. c.i \in Int /\ Len(c.dst) \in Int /\ Len(c.dst) < c.i
  BY CallFields
<1>. QED
  BY <1>1, SubSeqEmpty DEF Todo

\* A thread that has no call has nothing to write.
LEMMA NoCallLeft ==
  Todo(NoCall, "idle") = << >>
<1>1. NoCall.i > Len(NoCall.dst)
  BY NoCallType
<1>. QED
  BY <1>1, NoCallType, NothingLeft

\* A call that begins has all to write.
LEMMA AllLeft ==
  ASSUME NEW c \in Call, NEW p, c.i = 1
  PROVE  Todo(c, p) = Writes(c)
<1> DEFINE w == Writes(c)
           R == Range(w)
<1>1. w \in Seq(R) /\ Len(w) = Len(c.dst)
  BY WritesSeq
<1>2. Todo(c, p) = SubSeq(w, 1, Len(w))
  BY <1>1 DEF Todo
<1> HIDE DEF w, R
<1>3. SubSeq(w, 1, Len(w)) = w
  BY <1>1, SubSeqFull
<1>. QED
  BY <1>2, <1>3 DEF w

\* The jobs of the other threads stay.
LEMMA JobChange ==
  ASSUME IInv, [Next]_vars, NEW th \in Threads, Begins(th) \/ Step(th)
  PROVE  Job' = [Job EXCEPT ![th] = Todo(call'[th], pc'[th])]
<1>1. \A u \in Threads : Remaining(u) = Todo(call[u], pc[u])
  BY DEF Remaining, Todo
<1>2. \A u \in Threads : Remaining(u)' = Todo(call'[u], pc'[u])
  BY DEF Remaining, Todo
<1>3. \A u \in Threads \ {th} : call'[u] = call[u] /\ pc'[u] = pc[u]
  BY OtherCalls DEF IInv
<1>. QED
  BY <1>1, <1>2, <1>3 DEF Job

\* Values are not the mark of a tensor that does not exist.
LEMMA SeenValue ==
  ASSUME IInv, NEW t \in Tensors
  PROVE  /\ Exists(t) <=> Seen[t] # 0 - 1
         /\ Exists(t) => Seen[t] = Content(t) /\ Content(t) \in Values
         /\ ~Exists(t) => Seen[t] = 0 - 1
<1>1. Content(t) \in Values
  BY TensorFields DEF IInv
<1>2. Content(t) # 0 - 1
  BY <1>1, ValuesAssumption DEF Values
<1>. QED
  BY <1>1, <1>2 DEF Seen

\* Tensors that stay, in buffers that keep their contents, look the same.
LEMMA SeenSame ==
  ASSUME NEW t \in Tensors, tensor'[t] = tensor[t],
         OnDevice(t) => data'[tensor[t].buf] = data[tensor[t].buf]
  PROVE  Seen'[t] = Seen[t]
BY DEF Seen, Exists, Content, OnDevice

\* A buffer that is free is no tensor's, so that its contents do not show.
LEMMA FreeUnseen ==
  ASSUME IInv, NEW t \in Tensors, OnDevice(t)
  PROVE  tensor[t].buf \in Buffers /\ refs[tensor[t].buf] # 0
<1>1. tensor[t].buf \in Buffers /\ tensor[t].buf \in Owned
  BY TensorFields DEF IInv, HandlesOwned, Owned, OnDevice
<1>2. refs[tensor[t].buf] > 0
  BY <1>1, HeldIsCounted DEF IInv
<1>. QED
  BY <1>1, <1>2

\* A transfer changes what is seen of its tensor, and of no other.
LEMMA StoreSeen ==
  ASSUME IInv, NEW t \in Tensors, NEW v \in Values, Exists(t), Store(t, v)
  PROVE  Seen' = [Seen EXCEPT ![t] = v]
<1>1. data \in [Buffers -> Values] /\ tensor \in [Tensors -> OrtValue]
  BY DEF IInv, TypeOK
<1>2. DOMAIN Seen = Tensors /\ Seen' = [u \in Tensors |-> Seen'[u]]
  BY DEF Seen
<1>3. CASE OnDevice(t) /\ data' = [data EXCEPT ![tensor[t].buf] = v] /\ UNCHANGED tensor
  <2>1. tensor[t].buf \in Buffers
    BY <1>3, TensorFields DEF IInv
  <2>2. Seen'[t] = v
    BY <1>1, <1>3, <2>1 DEF Seen, Exists, Content, OnDevice
  <2>3. ASSUME NEW u \in Tensors, u # t
        PROVE  Seen'[u] = Seen[u]
    <3>1. OnDevice(u) => tensor[u].buf # tensor[t].buf
      BY <2>3 DEF IInv, HandlesOwned
    <3>2. OnDevice(u) => data'[tensor[u].buf] = data[tensor[u].buf]
      BY <1>1, <1>3, <3>1
    <3>. QED
      BY <1>3, <3>2, SeenSame
  <2>. QED
    BY <1>2, <2>2, <2>3
<1>4. CASE ~OnDevice(t) /\ tensor' = [tensor EXCEPT ![t].val = v] /\ UNCHANGED data
  <2>1. /\ tensor'[t].on = tensor[t].on /\ tensor'[t].val = v
        /\ \A u \in Tensors \ {t} : tensor'[u] = tensor[u]
    BY <1>1, <1>4 DEF OrtValue
  <2>2. Seen'[t] = v
    BY <1>4, <2>1 DEF Seen, Exists, Content, OnDevice
  <2>3. \A u \in Tensors \ {t} : Seen'[u] = Seen[u]
    BY <1>4, <2>1, SeenSame
  <2>. QED
    BY <1>2, <2>2, <2>3
<1>. QED
  BY <1>3, <1>4 DEF Store

\* A tensor that is made, on the host or in a free buffer, is seen.
LEMMA CreateSeen ==
  ASSUME IInv, NEW t \in Tensors, ~Exists(t), NEW on, NEW b, NEW v,
         tensor' = [tensor EXCEPT ![t] = [on |-> on, buf |-> b, val |-> v]],
         UNCHANGED data,
         \/ on = "cpu" /\ v \in Values
         \/ on \in Devices /\ b \in Buffers
  PROVE  \E w \in Values : Seen' = [Seen EXCEPT ![t] = w]
<1>1. data \in [Buffers -> Values] /\ tensor \in [Tensors -> OrtValue]
  BY DEF IInv, TypeOK
<1>2. DOMAIN Seen = Tensors /\ Seen' = [u \in Tensors |-> Seen'[u]]
  BY DEF Seen
<1>3. tensor'[t] = [on |-> on, buf |-> b, val |-> v] /\ on # "none"
  BY <1>1, NamesAssumption
<1>4. Seen'[t] \in Values
  <2>1. CASE on = "cpu" /\ v \in Values
    BY <1>3, <2>1, NamesAssumption DEF Seen, Exists, Content, OnDevice
  <2>2. CASE on \in Devices /\ b \in Buffers
    BY <1>1, <1>3, <2>2 DEF Seen, Exists, Content, OnDevice
  <2>. QED
    BY <2>1, <2>2
<1>5. \A u \in Tensors \ {t} : Seen'[u] = Seen[u]
  BY <1>1, SeenSame
<1>6. Seen' = [Seen EXCEPT ![t] = Seen'[t]]
  BY <1>2, <1>5
<1>. QED
  BY <1>4, <1>6

\* The steps of the host alone: tensors come and go.
LEMMA HostStores ==
  ASSUME IInv, [Next]_vars, HostAlone
  PROVE  TheStore!Next
<1>1. /\ data \in [Buffers -> Values] /\ tensor \in [Tensors -> OrtValue]
      /\ 0 \in Values
  BY ValuesAssumption DEF IInv, TypeOK, Values
<1>2. Job' = Job
  BY HostAloneCalls DEF Job, Remaining
<1>3. ASSUME NEW t \in Tensors, NEW w \in Values, ~Exists(t),
             Seen' = [Seen EXCEPT ![t] = w]
      PROVE  TheStore!Next
  <2>1. Seen[t] = 0 - 1
    BY <1>3, SeenValue
  <2>2. TheStore!Create(t)
    BY <1>2, <1>3, <2>1 DEF TheStore!Create, TheStore!Exists, Job
  <2>. QED
    BY <2>2 DEF TheStore!Next
<1>4. ASSUME NEW S \in SUBSET Tensors,
             \A t \in S : ~Exists(t)', \A t \in Tensors \ S : Seen'[t] = Seen[t]
      PROVE  TheStore!Next
  <2>1. Seen' = [t \in Tensors |-> IF t \in S THEN 0 - 1 ELSE Seen[t]]
    BY <1>4 DEF Seen
  <2>2. TheStore!Drop(S)
    BY <1>2, <2>1 DEF TheStore!Drop, Job
  <2>. QED
    BY <2>2 DEF TheStore!Next
<1>5. ASSUME NEW t \in Tensors, NEW v \in Values, CreateHostTensor(t, v)
      PROVE  TheStore!Next
  BY <1>3, <1>5, CreateSeen DEF CreateHostTensor
<1>6. ASSUME NEW d \in Devices, NEW t \in Tensors, AllocImpl(d, t)
      PROVE  TheStore!Next
  <2>1. /\ ~Exists(t) /\ UNCHANGED data
        /\ \E b \in Buffers : tensor' = [tensor EXCEPT ![t] = [on |-> d, buf |-> b, val |-> 0]]
    BY <1>6 DEF AllocImpl, Free
  <2>. QED
    BY <1>3, <2>1, CreateSeen
<1>7. ASSUME NEW t \in Tensors, DropHostTensor(t) \/ FreeImpl(t)
      PROVE  TheStore!Next
  <2>1. tensor' = [tensor EXCEPT ![t] = NoTensor] /\ UNCHANGED data
    BY <1>7 DEF DropHostTensor, FreeImpl
  <2>2. tensor'[t].on = "none" /\ \A u \in Tensors \ {t} : tensor'[u] = tensor[u]
    BY <1>1, <2>1 DEF NoTensor
  <2>3. \A u \in Tensors \ {t} : Seen'[u] = Seen[u]
    BY <2>1, <2>2, SeenSame
  <2>4. ~Exists(t)'
    BY <2>2 DEF Exists
  <2>5. {t} \in SUBSET Tensors /\ \A u \in {t} : ~Exists(u)'
    BY <2>4
  <2>. QED
    BY <1>4, <2>3, <2>5
<1>8. ASSUME NEW d \in Devices, DestroyAllocator(d)
      PROVE  TheStore!Next
  <2> DEFINE S == {t \in Tensors : tensor[t].on = d}
  <2>1. /\ tensor' = [t \in Tensors |-> IF tensor[t].on = d THEN NoTensor ELSE tensor[t]]
        /\ UNCHANGED data
    BY <1>8 DEF DestroyAllocator
  <2>2. \A t \in S : ~Exists(t)'
    BY <2>1 DEF Exists, NoTensor
  <2>3. \A t \in Tensors \ S : tensor'[t] = tensor[t]
    BY <2>1
  <2>4. \A t \in Tensors \ S : Seen'[t] = Seen[t]
    BY <2>1, <2>3, SeenSame
  <2>5. S \in SUBSET Tensors
    OBVIOUS
  <2> HIDE DEF S
  <2>. QED
    BY <1>4, <2>2, <2>4, <2>5
<1>. QED
  BY <1>5, <1>6, <1>7, <1>8 DEF HostAlone

\* A call begins: its inputs are seen as they are.
LEMMA BeginStores ==
  ASSUME IInv, [Next]_vars, NEW th \in Threads, Begins(th)
  PROVE  TheStore!Next
<1> DEFINE c == call'[th]
<1>1. /\ call \in [Threads -> Call] /\ c \in Call /\ c.i = 1
      /\ call[th] = NoCall /\ pc[th] = "idle"
      /\ UNCHANGED <<data, tensor>>
  BY Begun, BeginsApart DEF IInv, TypeOK
<1>2. Job[th] = << >> /\ Job' = [Job EXCEPT ![th] = Writes(c)]
  <2>1. Job[th] = Todo(call[th], pc[th])
    BY DEF Job, Remaining, Todo
  <2>2. Job[th] = << >>
    BY <1>1, <2>1, NoCallLeft
  <2>3. Todo(c, pc'[th]) = Writes(c)
    BY <1>1, AllLeft
  <2>. QED
    BY <2>2, <2>3, JobChange
<1>3. Seen' = Seen
  BY <1>1 DEF Seen, Exists, Content, OnDevice
<1>4. PICK src \in UpTo(Tensors, MaxInputs), dst \in UpTo(Tensors, MaxOutputs) :
        (\E d \in Devices : Compute(th, d, src, dst)) \/ CopyTensors(th, src, dst)
  BY DEF Begins
<1>5. /\ src \in Seq(Tensors) /\ Len(src) \in 0 .. MaxInputs
      /\ dst \in Seq(Tensors)
  BY UpToSeq, BoundsAssumption
<1>6. TheStore!Idle(th)
  BY <1>2 DEF TheStore!Idle, Job
<1>7. ASSUME NEW d \in Devices, Compute(th, d, src, dst)
      PROVE  TheStore!Next
  <2>1. /\ c.op = "Compute" /\ c.dst = dst
        /\ c.vals = [j \in DOMAIN dst |->
                       Result(j, [k \in DOMAIN src |-> Content(src[k])])]
    BY <1>1, <1>7 DEF Compute, NoCall
  <2>2. \A k \in DOMAIN src : src[k] \in Tensors /\ Exists(src[k])
    BY <1>5, <1>7 DEF Compute, MayCall, Range
  <2>3. \A k \in DOMAIN src : Seen[src[k]] = Content(src[k]) /\ Seen[src[k]] # 0 - 1
    BY <2>2, SeenValue
  <2>4. [k \in DOMAIN src |-> Content(src[k])] = [k \in DOMAIN src |-> Seen[src[k]]]
    BY <2>3
  <2>5. Writes(c) = [j \in DOMAIN dst |->
                       [to |-> dst[j], from |-> "none",
                        val |-> Result(j, [k \in DOMAIN src |-> Seen[src[k]]])]]
    BY <2>1, <2>4 DEF Writes
  <2>6. TheStore!Compute(th, src, dst)
    BY <1>2, <1>3, <2>3, <2>5 DEF TheStore!Compute, TheStore!Exists, TheStore!NoSource, Job
  <2>7. src \in TheStore!UpTo(Tensors, MaxInputs) /\ dst \in TheStore!UpTo(Tensors, MaxOutputs)
    BY DEF UpTo, TheStore!UpTo
  <2>. QED
    BY <1>6, <2>6, <2>7 DEF TheStore!Next
<1>8. CASE CopyTensors(th, src, dst)
  <2>1. /\ c.op = "CopyTensors" /\ c.src = src /\ c.dst = dst /\ Len(src) = Len(dst)
    BY <1>1, <1>8 DEF CopyTensors, NoCall
  <2>2. Writes(c) = [k \in DOMAIN dst |-> [to |-> dst[k], from |-> src[k], val |-> 0]]
    BY <2>1 DEF Writes
  <2>3. TheStore!Copy(th, src, dst)
    BY <1>2, <1>3, <2>2 DEF TheStore!Copy, Job
  <2>4. src \in [1 .. Len(src) -> Tensors] /\ dst \in [1 .. Len(src) -> Tensors]
    BY <1>5, <2>1
  <2>. QED
    BY <1>5, <1>6, <2>3, <2>4 DEF TheStore!Next
<1>. QED
  BY <1>4, <1>7, <1>8

\* A transfer is the call's next write.
LEMMA WriteStores ==
  ASSUME IInv, [Next]_vars, NEW th \in Threads, Output(th) \/ CopyOne(th)
  PROVE  TheStore!Next
<1> DEFINE c == call[th]
           d == call'[th]
           t == c.dst[c.i]
           p == pc[th]
           w == Writes(c)[c.i]
<1>1. c \in Call /\ d \in Call /\ CallShape(th) /\ Present /\ OutputsKept(th)
  BY CallStep DEF IInv, TypeOK, CallShapes, Kept
<1>2. /\ c.i <= Len(c.dst) /\ p \in {"outputs", "copy"}
  BY <1>1 DEF Output, CopyOne, CallShape
<1>3. c.i \in DOMAIN c.dst /\ t \in Tensors
  BY <1>1, <1>2, CallFields
<1>4. /\ SameArguments(c, d) /\ d.i = c.i + 1 /\ pc'[th] = p
  BY Advances
<1>5. /\ Todo(c, p) # << >> /\ Head(Todo(c, p)) = w
      /\ Todo(d, p) = Tail(Todo(c, p))
  BY <1>1, <1>2, <1>4, NextWrite
<1>6. Job[th] = Todo(c, p) /\ Job' = [Job EXCEPT ![th] = Tail(@)]
  <2>1. Job[th] = Todo(c, p)
    BY DEF Job, Remaining, Todo
  <2>2. Job' = [Job EXCEPT ![th] = Todo(d, p)]
    BY <1>4, JobChange DEF Step
  <2>. QED
    BY <1>5, <2>1, <2>2
<1>7. /\ w.to = t /\ Exists(t)
      /\ \E v \in Values : Store(t, v) /\ v = IF w.from = "none" THEN w.val ELSE Seen[w.from]
  <2>1. CASE Output(th)
    <3>1. c.op = "Compute" /\ Exists(t) /\ Store(t, data[c.outs[c.i]])
          /\ pc[th] = "outputs" /\ Len(c.outs) = Len(c.dst)
      BY <1>1, <2>1 DEF Output, CallShape
    <3>2. data[c.outs[c.i]] = c.vals[c.i] /\ c.outs[c.i] \in Buffers
      <4>1. c.i \in c.i .. Len(c.outs) /\ c.i \in 1 .. Len(c.outs)
        BY <1>1, <1>2, <3>1, CallFields
      <4>2. c.outs[c.i] \in Buffers
        BY <1>1, <4>1, CallFields
      <4>. QED
        BY <1>1, <3>1, <4>1, <4>2 DEF OutputsKept
    <3>3. data[c.outs[c.i]] \in Values
      BY <3>2 DEF IInv, TypeOK
    <3>4. w = [to |-> t, from |-> "none", val |-> c.vals[c.i]]
      BY <1>3, <3>1 DEF Writes
    <3>. QED
      BY <3>1, <3>2, <3>3, <3>4
  <2>2. CASE CopyOne(th)
    <3>1. c.op = "CopyTensors" /\ Store(t, Content(c.src[c.i])) /\ p = "copy"
          /\ Len(c.src) = Len(c.dst)
      BY <1>1, <2>2 DEF CopyOne, CallShape
    <3>2. c.i \in DOMAIN c.src /\ c.src[c.i] \in Tensors
      BY <1>1, <1>2, <3>1, CallFields
    <3>3. Exists(c.src[c.i]) /\ Exists(t)
      BY <1>1, <1>3, <3>1, <3>2 DEF Present, Range
    <3>4. Seen[c.src[c.i]] = Content(c.src[c.i]) /\ Content(c.src[c.i]) \in Values
      BY <3>2, <3>3, SeenValue
    <3>5. w = [to |-> t, from |-> c.src[c.i], val |-> 0] /\ c.src[c.i] # "none"
      BY <1>3, <3>1, <3>2, NamesAssumption DEF Writes
    <3>. QED
      BY <3>1, <3>3, <3>4, <3>5
  <2>. QED
    BY <2>1, <2>2
<1>8. PICK v \in Values :
        Store(t, v) /\ v = IF w.from = "none" THEN w.val ELSE Seen[w.from]
  BY <1>7
<1>9. Seen' = [Seen EXCEPT ![t] = v] /\ Seen[t] # 0 - 1
  BY <1>3, <1>7, <1>8, StoreSeen, SeenValue
<1>10. TheStore!Write(th)
  <2>1. Head(Job[th]) = w /\ Job[th] # << >>
    BY <1>5, <1>6
  <2> HIDE DEF w, t
  <2>. QED
    BY <1>6, <1>7, <1>8, <1>9, <2>1
    DEF TheStore!Write, TheStore!Exists, TheStore!ValueOf, TheStore!NoSource, Job
<1>. QED
  BY <1>10 DEF TheStore!Next

\* ORT makes an output.
LEMMA GetStores ==
  ASSUME IInv, NEW th \in Threads, GetOutput(th)
  PROVE  TheStore!Next
<1> DEFINE t == call[th].dst[call[th].i]
<1>1. call[th] \in Call /\ CallShape(th) /\ alive \subseteq Devices /\ 0 \in Values
  BY ValuesAssumption DEF IInv, TypeOK, CallShapes, Values
<1>2. /\ call[th].i <= Len(call[th].dst) /\ call[th].dev \in Devices
      /\ ~Exists(t) /\ UNCHANGED <<data, pc, call>>
  BY <1>1 DEF GetOutput, CallShape
<1>3. t \in Tensors
  BY <1>1, <1>2, CallFields
<1>4. \/ tensor' = [tensor EXCEPT ![t] = [on |-> "cpu", buf |-> "null", val |-> 0]]
      \/ \E b \in Buffers :
           tensor' = [tensor EXCEPT ![t] = [on |-> call[th].dev, buf |-> b, val |-> 0]]
  BY DEF GetOutput, Free
<1>5. PICK w \in Values : Seen' = [Seen EXCEPT ![t] = w]
  <2> DEFINE e == call[th].dev
  <2>1. e \in Devices
    BY <1>2
  <2> HIDE DEF t, e
  <2>. QED
    BY <1>1, <1>2, <1>3, <1>4, <2>1, CreateSeen DEF e
<1>6. Job' = Job
  BY <1>2 DEF Job, Remaining
<1>7. Seen[t] = 0 - 1
  BY <1>2, <1>3, SeenValue
<1>8. TheStore!Create(t)
  BY <1>5, <1>6, <1>7 DEF TheStore!Create, TheStore!Exists, Job
<1>. QED
  BY <1>3, <1>8 DEF TheStore!Next

\* Collecting inputs and invoking the program do not show.
LEMMA PrivateSteps ==
  ASSUME IInv, [Next]_vars, NEW th \in Threads,
         WrapInput(th) \/ CopyInput(th) \/ Invoke(th)
  PROVE  Seen' = Seen /\ Job' = Job
<1> DEFINE c == call[th]
           d == call'[th]
<1>1. c \in Call /\ d \in Call /\ pc[th] = "inputs" /\ tensor' = tensor
  BY CallStep DEF IInv, TypeOK, WrapInput, CopyInput, Invoke
<1>2. SameArguments(c, d) /\ (pc'[th] = "inputs" \/ d.i = 1)
  <2>1. CASE Invoke(th)
    BY <2>1, Invokes
  <2>2. CASE WrapInput(th) \/ CopyInput(th)
    BY <1>1, <2>2, AddsView, Collects DEF AddView
  <2>. QED
    BY <2>1, <2>2
<1>3. Todo(d, pc'[th]) = Todo(c, pc[th])
  BY <1>1, <1>2 DEF Todo, Writes, SameArguments
<1>4. Job' = Job
  <2>1. Job[th] = Todo(c, pc[th])
    BY DEF Job, Remaining, Todo
  <2>. QED
    BY <1>3, <2>1, JobChange DEF Step, Job
<1>5. ASSUME NEW t \in Tensors
      PROVE  Seen'[t] = Seen[t]
  <2>1. OnDevice(t) => data'[tensor[t].buf] = data[tensor[t].buf]
    <3>1. SUFFICES ASSUME OnDevice(t), data'[tensor[t].buf] # data[tensor[t].buf]
                   PROVE  FALSE
      OBVIOUS
    <3>2. tensor[t].buf \in Buffers /\ refs[tensor[t].buf] # 0
      BY <3>1, FreeUnseen
    <3>3. data \in [Buffers -> Values]
      BY DEF IInv, TypeOK
    <3>4. CASE WrapInput(th)
      BY <3>1, <3>4 DEF WrapInput
    <3>5. CASE CopyInput(th)
      <4>1. \E f \in Free : \E v : data' = [data EXCEPT ![f] = v]
        BY <3>5 DEF CopyInput
      <4>. QED
        BY <3>1, <3>2, <3>3, <4>1 DEF Free
    <3>6. CASE Invoke(th)
      <4>1. \E outs \in [1 .. Len(c.dst) -> Free] : tensor[t].buf \in Range(outs)
        BY <3>1, <3>2, <3>6 DEF Invoke
      <4>. QED
        BY <3>2, <4>1 DEF Range, Free
    <3>. QED
      BY <3>4, <3>5, <3>6
  <2>. QED
    BY <1>1, <2>1, SeenSame
<1>6. Seen' = Seen
  BY <1>5 DEF Seen
<1>. QED
  BY <1>4, <1>6

\* A call that ends gives up the writes it has not made.
LEMMA EndStores ==
  ASSUME IInv, [Next]_vars, NEW th \in Threads, Ends(th)
  PROVE  TheStore!Next \/ (Seen' = Seen /\ Job' = Job)
<1>1. Seen' = Seen
  BY DEF Seen, Exists, Content, OnDevice, Ends, FinishCompute, FailCompute, ReturnCopy
<1>2. Job' = [Job EXCEPT ![th] = << >>]
  <2>1. Job' = [Job EXCEPT ![th] = Todo(call'[th], pc'[th])]
    BY JobChange DEF Step, Ends
  <2>. QED
    BY <2>1, Returns, NoCallLeft
<1>3. CASE Job[th] = << >>
  BY <1>1, <1>2, <1>3 DEF Job
<1>4. CASE Job[th] # << >>
  <2>1. TheStore!Fail(th)
    BY <1>1, <1>2, <1>4 DEF TheStore!Fail, Job
  <2>. QED
    BY <2>1 DEF TheStore!Next
<1>. QED
  BY <1>3, <1>4

\* Every step is one of the store's, or does not show.
LEMMA StoreStep ==
  ASSUME IInv, [Next]_vars
  PROVE  [TheStore!Next]_(TheStore!vars)
<1>1. ASSUME NEW th \in Threads, Step(th)
      PROVE  TheStore!Next \/ (Seen' = Seen /\ Job' = Job)
  BY <1>1, PrivateSteps, GetStores, WriteStores, EndStores DEF Step, Ends
<1>2. ASSUME UNCHANGED vars
      PROVE  Seen' = Seen /\ Job' = Job
  <2>1. Seen' = Seen
    BY <1>2 DEF vars, Seen, Exists, Content, OnDevice
  <2>2. Job' = Job
    BY <1>2 DEF vars, Job, Remaining
  <2>. QED
    BY <2>1, <2>2
<1>3. ASSUME HostAlone
      PROVE  TheStore!Next
  BY <1>3, HostStores
<1>4. ASSUME NEW th \in Threads, Begins(th)
      PROVE  TheStore!Next
  BY <1>4, BeginStores
<1> DEFINE Good == TheStore!Next \/ (Seen' = Seen /\ Job' = Job)
<1>5. /\ HostAlone => Good
      /\ \A th \in Threads : Begins(th) \/ Step(th) => Good
      /\ UNCHANGED vars => Good
  BY <1>1, <1>2, <1>3, <1>4
<1>6. Good
  <2> HIDE DEF Good
  <2>. QED
    BY <1>5, NextCases
<1>. QED
  BY <1>6 DEF TheStore!vars, Job

\* Compute and CopyTensors implement the abstract store: outputs are the results of
\* the inputs as they were at the call, also when an output is an input; a copy
\* reads its source at its turn; no other tensor changes, whatever buffers and
\* addresses the calls share.
THEOREM CallsImplementStore == Spec => ImplementsStore
<1>1. Init => TheStore!Init
  <2>1. SUFFICES ASSUME Init
                 PROVE  TheStore!Init
    OBVIOUS
  <2>2. Seen = [t \in Tensors |-> 0 - 1]
    BY <2>1 DEF Init, Seen, Exists, NoTensor
  <2>3. Job = [th \in Threads |-> << >>]
    <3>1. \A th \in Threads : Remaining(th) = Todo(NoCall, "idle")
      BY <2>1 DEF Init, Remaining, Todo
    <3>. QED
      BY <3>1, NoCallLeft DEF Job
  <2>. QED
    BY <2>2, <2>3 DEF TheStore!Init, Job
<1>2. IInv /\ [Next]_vars => [TheStore!Next]_(TheStore!vars)
  BY StoreStep
<1>. QED
  BY <1>1, <1>2, CallsInductive, PTL DEF Spec, ImplementsStore, TheStore!Spec
===============================================================================
