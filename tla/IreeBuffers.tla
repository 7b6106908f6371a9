------------------------------ MODULE IreeBuffers ------------------------------
(***************************************************************************)
(* HAL buffers and the code that shares them: IreeAllocator (Alloc, Free,   *)
(* its destruction), IreeNodeComputeInfo::Compute and                       *)
(* IreeDataTransfer::CopyTensors.                                           *)
(*                                                                         *)
(* A device tensor of the host is a raw iree_hal_buffer_t pointer that Alloc *)
(* returned; the reference that keeps the buffer alive is in allocations_.   *)
(* Compute wraps such a buffer in a view, which retains it, or copies a host *)
(* tensor into a buffer of its own.  A buffer whose references are all gone  *)
(* is freed and its address may be used again.                              *)
(***************************************************************************)
EXTENDS Naturals, Sequences, FiniteSets, Functions

CONSTANTS
  Threads,                \* host threads
  Devices,                \* device ids with an allocator
  Tensors,                \* names of the OrtValues of the host
  Buffers,                \* bound: addresses of HAL buffers
  NumValues,              \* tensor contents are 0 .. NumValues - 1
  MaxInputs, MaxOutputs,  \* bounds: inputs, outputs and pairs of a call
  Result(_, _)            \* Result(j, ins): output j of the compiled program

Values == 0 .. (NumValues - 1)

UpTo(S, n) == UNION {[1 .. k -> S] : k \in 0 .. n}

ASSUME ValuesAssumption == NumValues \in Nat \ {0}
ASSUME NamesAssumption ==
  /\ {"none", "cpu"} \cap (Devices \cup Tensors) = {}
  /\ "null" \notin Buffers
ASSUME FiniteAssumption == IsFiniteSet(Threads) /\ IsFiniteSet(Devices)
ASSUME BoundsAssumption == MaxInputs \in Nat /\ MaxOutputs \in Nat
ASSUME ResultAssumption ==
  \A j \in 1 .. MaxOutputs, ins \in UpTo(Values, MaxInputs) : Result(j, ins) \in Values

VARIABLES
  refs,          \* references to each buffer; 0 when its address is free
  data,          \* contents of each buffer
  allocations_,  \* per device: the keys of its allocator's map
  alive,         \* the allocators that are not yet destroyed
  tensor,        \* the host's OrtValues
  pc, call       \* per thread: next step, and its call

vars == <<refs, data, allocations_, alive, tensor, pc, call>>

NoTensor == [on |-> "none", buf |-> "null", val |-> 0]
Exists(t) == tensor[t].on # "none"
OnDevice(t) == tensor[t].on \in Devices

Content(t) == IF OnDevice(t) THEN data[tensor[t].buf] ELSE tensor[t].val

\* A call: the session's device, the input or source tensors, the output or
\* destination tensors, the index of the loop that runs, the buffers of
\* input_views, the buffers of the call's output list.  vals is a history
\* variable: what the outputs shall be.
NoCall == [op |-> "none", dev |-> "none", src |-> << >>, dst |-> << >>, i |-> 1,
           views |-> << >>, outs |-> << >>, vals |-> << >>]

Free == {b \in Buffers : refs[b] = 0}

Uses(th, t) == t \in Range(call[th].src) \cup Range(call[th].dst)
InUse(t) == \E th \in Threads : Uses(th, t)

Init ==
  /\ refs = [b \in Buffers |-> 0]
  /\ data = [b \in Buffers |-> 0]
  /\ allocations_ = [d \in Devices |-> {}]
  /\ alive = Devices
  /\ tensor = [t \in Tensors |-> NoTensor]
  /\ pc = [th \in Threads |-> "idle"]
  /\ call = [th \in Threads |-> NoCall]

-------------------------------------------------------------------------------
(* The host makes and drops tensors.                                         *)

CreateHostTensor(t, v) ==
  /\ ~Exists(t) /\ ~InUse(t)
  /\ tensor' = [tensor EXCEPT ![t] = [on |-> "cpu", buf |-> "null", val |-> v]]
  /\ UNCHANGED <<refs, data, allocations_, alive, pc, call>>

DropHostTensor(t) ==
  /\ tensor[t].on = "cpu" /\ ~InUse(t)
  /\ tensor' = [tensor EXCEPT ![t] = NoTensor]
  /\ UNCHANGED <<refs, data, allocations_, alive, pc, call>>

\* Alloc of a nonzero size.  The buffer's one reference moves into allocations_;
\* its contents are whatever was at that address.  A failed Alloc changes
\* nothing.
AllocImpl(d, t) ==
  /\ d \in alive /\ ~Exists(t) /\ ~InUse(t)
  /\ \E b \in Free :
       /\ refs' = [refs EXCEPT ![b] = 1]
       /\ allocations_' = [allocations_ EXCEPT ![d] = @ \cup {b}]
       /\ tensor' = [tensor EXCEPT ![t] = [on |-> d, buf |-> b, val |-> 0]]
  /\ UNCHANGED <<data, alive, pc, call>>

\* Mutant: the entry is not erased from the map.
FreeImpl_KeepsEntry(t) ==
  /\ OnDevice(t) /\ tensor[t].on \in alive /\ ~InUse(t)
  /\ refs' = [refs EXCEPT ![tensor[t].buf] = @ - 1]
  /\ tensor' = [tensor EXCEPT ![t] = NoTensor]
  /\ UNCHANGED <<data, allocations_, alive, pc, call>>

\* Free, of a tensor that no call uses.  A pointer that is not in the map is
\* reported and left alone.
FreeImpl(t) ==
  LET d == tensor[t].on
      b == tensor[t].buf
  IN /\ OnDevice(t) /\ d \in alive /\ ~InUse(t)
     /\ refs' = IF b \in allocations_[d] THEN [refs EXCEPT ![b] = @ - 1] ELSE refs
     /\ allocations_' = [allocations_ EXCEPT ![d] = @ \ {b}]
     /\ tensor' = [tensor EXCEPT ![t] = NoTensor]
     /\ UNCHANGED <<data, alive, pc, call>>

\* Mutant: the destructor forgets the map without releasing what is in it.
DestroyAllocator_Leaks(d) ==
  /\ d \in alive
  /\ \A th \in Threads : pc[th] = "idle"
  /\ allocations_' = [allocations_ EXCEPT ![d] = {}]
  /\ tensor' = [t \in Tensors |-> IF tensor[t].on = d THEN NoTensor ELSE tensor[t]]
  /\ alive' = alive \ {d}
  /\ UNCHANGED <<refs, data, pc, call>>

\* The destructor of the allocator, run by the factory's when no call is left:
\* the map releases the buffers the host never freed.  The tensors that held
\* their addresses are gone for the host too.
DestroyAllocator(d) ==
  /\ d \in alive
  /\ \A th \in Threads : pc[th] = "idle"
  /\ refs' = [b \in Buffers |-> IF b \in allocations_[d] THEN refs[b] - 1
                                                         ELSE refs[b]]
  /\ allocations_' = [allocations_ EXCEPT ![d] = {}]
  /\ tensor' = [t \in Tensors |-> IF tensor[t].on = d THEN NoTensor ELSE tensor[t]]
  /\ alive' = alive \ {d}
  /\ UNCHANGED <<data, pc, call>>

-------------------------------------------------------------------------------
(* The host's calls.  No thread's call writes a tensor another call uses.    *)

MayCall(th, src, dst) ==
  /\ pc[th] = "idle"
  /\ \A t \in Range(src) : Exists(t)
  /\ IsInjective(dst)
  /\ \A u \in Threads :
       /\ Range(dst) \cap (Range(call[u].src) \cup Range(call[u].dst)) = {}
       /\ Range(src) \cap Range(call[u].dst) = {}

Return(th) == /\ pc' = [pc EXCEPT ![th] = "idle"]
              /\ call' = [call EXCEPT ![th] = NoCall]

\* Compute on a session of device d.  ORT passes tensors of d or of the host;
\* an output may be one of the inputs, or not exist yet.
Compute(th, d, src, dst) ==
  /\ d \in alive
  /\ MayCall(th, src, dst)
  /\ \A t \in Range(src) \cup Range(dst) : tensor[t].on \in {"none", "cpu", d}
  /\ pc' = [pc EXCEPT ![th] = "inputs"]
  /\ call' = [call EXCEPT ![th] =
       [NoCall EXCEPT !.op = "Compute", !.dev = d, !.src = src, !.dst = dst,
          !.vals = [j \in DOMAIN dst |->
                      Result(j, [k \in DOMAIN src |-> Content(src[k])])]]]
  /\ UNCHANGED <<refs, data, allocations_, alive, tensor>>

\* The vendor of a place: 0 is the host's, kEpVendorId any other number.
kEpVendorId == 1
VendorId(place) == IF place = "cpu" THEN 0 ELSE kEpVendorId

\* CanCopyImpl, for the places of a source and a destination.
CanCopy(p, q) ==
  LET src_is_iree == VendorId(p) = kEpVendorId
      dst_is_iree == VendorId(q) = kEpVendorId
      src_is_cpu  == VendorId(p) = 0
      dst_is_cpu  == VendorId(q) = 0
  IN \/ src_is_iree /\ (dst_is_iree \/ dst_is_cpu)
     \/ dst_is_iree /\ (src_is_iree \/ src_is_cpu)

\* The host asks CanCopy before it has a batch of tensors copied.
CopyTensors(th, src, dst) ==
  /\ Len(src) > 0 /\ Len(src) = Len(dst)
  /\ MayCall(th, src, dst)
  /\ \A t \in Range(dst) : Exists(t)
  /\ \A k \in DOMAIN src : CanCopy(tensor[src[k]].on, tensor[dst[k]].on)
  /\ pc' = [pc EXCEPT ![th] = "copy"]
  /\ call' = [call EXCEPT ![th] =
                [NoCall EXCEPT !.op = "CopyTensors", !.src = src, !.dst = dst]]
  /\ UNCHANGED <<refs, data, allocations_, alive, tensor>>

-------------------------------------------------------------------------------
(* ComputeImpl.                                                              *)

Next_i(th) == [call EXCEPT ![th].i = @ + 1]

\* Mutant: the view wraps the buffer without retaining it.
WrapInput_NoRetain(th) ==
  LET c == call[th]
      s == c.src[c.i]
  IN /\ pc[th] = "inputs" /\ c.i <= Len(c.src) /\ OnDevice(s)
     /\ call' = [call EXCEPT ![th] =
                   [c EXCEPT !.views = Append(@, tensor[s].buf), !.i = @ + 1]]
     /\ UNCHANGED <<refs, data, allocations_, alive, tensor, pc>>

\* OrtTensorToIreeBufferView, tensor on the device: a view of its buffer.
WrapInput(th) ==
  LET c == call[th]
      s == c.src[c.i]
  IN /\ pc[th] = "inputs" /\ c.i <= Len(c.src) /\ OnDevice(s)
     /\ refs' = [refs EXCEPT ![tensor[s].buf] = @ + 1]
     /\ call' = [call EXCEPT ![th] =
                   [c EXCEPT !.views = Append(@, tensor[s].buf), !.i = @ + 1]]
     /\ UNCHANGED <<data, allocations_, alive, tensor, pc>>

\* OrtTensorToIreeBufferView, tensor on the host: a view of a new buffer.
CopyInput(th) ==
  LET c == call[th]
      s == c.src[c.i]
  IN /\ pc[th] = "inputs" /\ c.i <= Len(c.src) /\ ~OnDevice(s)
     /\ \E b \in Free :
          /\ refs' = [refs EXCEPT ![b] = 1]
          /\ data' = [data EXCEPT ![b] = tensor[s].val]
          /\ call' = [call EXCEPT ![th] =
                        [c EXCEPT !.views = Append(@, b), !.i = @ + 1]]
     /\ UNCHANGED <<allocations_, alive, tensor, pc>>

\* Mutant: the program writes over its inputs' buffers.
Invoke_InPlace(th) ==
  LET c == call[th]
      n == Len(c.dst)
  IN /\ pc[th] = "inputs" /\ c.i > Len(c.src)
     /\ \E outs \in [1 .. n -> Free] :
          /\ IsInjective(outs)
          /\ refs' = [b \in Buffers |-> IF b \in Range(outs) THEN 1 ELSE refs[b]]
          /\ data' = [b \in Buffers |->
               IF b \in Range(outs)
               THEN Result(CHOOSE j \in 1 .. n : outs[j] = b,
                           [k \in DOMAIN c.views |-> data[c.views[k]]])
               ELSE IF b \in Range(c.views) THEN 0 ELSE data[b]]
          /\ call' = [call EXCEPT ![th] = [c EXCEPT !.outs = outs, !.i = 1]]
     /\ pc' = [pc EXCEPT ![th] = "outputs"]
     /\ UNCHANGED <<allocations_, alive, tensor>>

\* The call is initialized, the views are pushed, the program is invoked: it
\* reads the views' buffers and makes one new buffer for each output.
Invoke(th) ==
  LET c == call[th]
      n == Len(c.dst)
  IN /\ pc[th] = "inputs" /\ c.i > Len(c.src)
     /\ \E outs \in [1 .. n -> Free] :
          /\ IsInjective(outs)
          /\ refs' = [b \in Buffers |-> IF b \in Range(outs) THEN 1 ELSE refs[b]]
          /\ data' = [b \in Buffers |->
               IF b \in Range(outs)
               THEN Result(CHOOSE j \in 1 .. n : outs[j] = b,
                           [k \in DOMAIN c.views |-> data[c.views[k]]])
               ELSE data[b]]
          /\ call' = [call EXCEPT ![th] = [c EXCEPT !.outs = outs, !.i = 1]]
     /\ pc' = [pc EXCEPT ![th] = "outputs"]
     /\ UNCHANGED <<allocations_, alive, tensor>>

\* A transfer of value v into tensor t, on the device or on the host.
Store(t, v) ==
  \/ /\ OnDevice(t)
     /\ data' = [data EXCEPT ![tensor[t].buf] = v]
     /\ UNCHANGED tensor
  \/ /\ ~OnDevice(t)
     /\ tensor' = [tensor EXCEPT ![t].val = v]
     /\ UNCHANGED data

\* GetOutput, for the output of the popped view's index: ORT makes the tensor,
\* on the host or with Alloc of the session's device, unless it was bound.
GetOutput(th) ==
  LET c == call[th]
      t == c.dst[c.i]
  IN /\ pc[th] = "outputs" /\ c.i <= Len(c.dst) /\ ~Exists(t)
     /\ \/ /\ tensor' = [tensor EXCEPT ![t] = [on |-> "cpu", buf |-> "null", val |-> 0]]
           /\ UNCHANGED <<refs, allocations_>>
        \/ \E b \in Free :
             /\ refs' = [refs EXCEPT ![b] = 1]
             /\ allocations_' = [allocations_ EXCEPT ![c.dev] = @ \cup {b}]
             /\ tensor' = [tensor EXCEPT ![t] = [on |-> c.dev, buf |-> b, val |-> 0]]
     /\ UNCHANGED <<data, alive, pc, call>>

\* Pop the next output view, copy it to the ORT output tensor of the same index;
\* output_view_ptr releases the view at the end of the iteration.
Output(th) ==
  LET c == call[th] IN
  /\ pc[th] = "outputs" /\ c.i <= Len(c.dst) /\ Exists(c.dst[c.i])
  /\ Store(c.dst[c.i], data[c.outs[c.i]])
  /\ refs' = [refs EXCEPT ![c.outs[c.i]] = @ - 1]
  /\ call' = Next_i(th)
  /\ UNCHANGED <<allocations_, alive, pc>>

\* The input views, and the output views from the i-th on, that retain buffer b.
HeldViews(c, b) == {k \in DOMAIN c.views : c.views[k] = b}
HeldOuts(c, b)  == {j \in c.i .. Len(c.outs) : c.outs[j] = b}

ReleaseViews(th) ==
  refs' = [b \in Buffers |-> refs[b] - Cardinality(HeldViews(call[th], b))
                                     - Cardinality(HeldOuts(call[th], b))]

FinishCompute(th) ==
  /\ pc[th] = "outputs" /\ call[th].i > Len(call[th].dst)
  /\ ReleaseViews(th)
  /\ Return(th)
  /\ UNCHANGED <<data, allocations_, alive, tensor>>

\* Mutant: the output list is not given up on an error.
FailCompute_KeepsOutputs(th) ==
  /\ pc[th] \in {"inputs", "outputs"}
  /\ refs' = [b \in Buffers |-> refs[b] - Cardinality(HeldViews(call[th], b))]
  /\ Return(th)
  /\ UNCHANGED <<data, allocations_, alive, tensor>>

\* Any early return: an input that cannot be converted, a call that cannot be
\* initialized or filled, a failed invocation, an output of a type ORT does not
\* have or that cannot be copied.  The smart pointers release the views, the
\* RuntimeCall its output list; the outputs written so far stay written.
FailCompute(th) ==
  /\ pc[th] \in {"inputs", "outputs"}
  /\ ReleaseViews(th)
  /\ Return(th)
  /\ UNCHANGED <<data, allocations_, alive, tensor>>

-------------------------------------------------------------------------------
(* CopyTensorsImpl.                                                          *)

\* Mutant: the source is read at the index after the one that is written.
CopyOne_NextSource(th) ==
  LET c == call[th] IN
  /\ pc[th] = "copy" /\ c.i <= Len(c.src)
  /\ OnDevice(c.src[c.i]) \/ OnDevice(c.dst[c.i])
  /\ Store(c.dst[c.i], Content(c.src[IF c.i < Len(c.src) THEN c.i + 1 ELSE c.i]))
  /\ call' = Next_i(th)
  /\ UNCHANGED <<refs, allocations_, alive, pc>>

\* One pair, by a d2h, h2d or d2d transfer.
CopyOne(th) ==
  LET c == call[th] IN
  /\ pc[th] = "copy" /\ c.i <= Len(c.src)
  /\ OnDevice(c.src[c.i]) \/ OnDevice(c.dst[c.i])
  /\ Store(c.dst[c.i], Content(c.src[c.i]))
  /\ call' = Next_i(th)
  /\ UNCHANGED <<refs, allocations_, alive, pc>>

\* The loop ends, or a pair fails: the pairs before it stay copied.
ReturnCopy(th) ==
  /\ pc[th] = "copy"
  /\ Return(th)
  /\ UNCHANGED <<refs, data, allocations_, alive, tensor>>

-------------------------------------------------------------------------------

Host ==
  \/ \E t \in Tensors, v \in Values : CreateHostTensor(t, v)
  \/ \E t \in Tensors : DropHostTensor(t) \/ FreeImpl(t)
  \/ \E d \in Devices, t \in Tensors : AllocImpl(d, t)
  \/ \E d \in Devices : DestroyAllocator(d)
  \/ \E th \in Threads, src \in UpTo(Tensors, MaxInputs),
        dst \in UpTo(Tensors, MaxOutputs) :
       \/ \E d \in Devices : Compute(th, d, src, dst)
       \/ CopyTensors(th, src, dst)

Step(th) ==
  \/ WrapInput(th)
  \/ CopyInput(th)
  \/ Invoke(th)
  \/ GetOutput(th)
  \/ Output(th)
  \/ FinishCompute(th)
  \/ FailCompute(th)
  \/ CopyOne(th)
  \/ ReturnCopy(th)

Next == Host \/ \E th \in Threads : Step(th)

Spec == Init /\ [][Next]_vars
-------------------------------------------------------------------------------
(* Properties.                                                               *)

\* The host's tensors, and the threads' calls.
OrtValue == [on : Devices \cup {"none", "cpu"}, buf : Buffers \cup {"null"},
             val : Values]
Call == [op : {"none", "Compute", "CopyTensors"}, dev : Devices \cup {"none"},
         src : UpTo(Tensors, MaxInputs), dst : UpTo(Tensors, MaxOutputs),
         i : Nat \ {0}, views : UpTo(Buffers, MaxInputs),
         outs : UpTo(Buffers, MaxOutputs), vals : Seq(Values)]

\* The type of the state; a reference count never goes below 0.
TypeOK ==
  /\ refs \in [Buffers -> Nat]
  /\ data \in [Buffers -> Values]
  /\ allocations_ \in [Devices -> SUBSET Buffers]
  /\ alive \subseteq Devices
  /\ tensor \in [Tensors -> OrtValue]
  /\ pc \in [Threads -> {"idle", "inputs", "outputs", "copy"}]
  /\ call \in [Threads -> Call]

\* The references of a buffer are its entries in the allocators' maps and the
\* views of the running calls: on every path out of Compute each is given back once.
Entries(b) == {d \in Devices : b \in allocations_[d]}
InputViews(b) ==
  {v \in Threads \X (1 .. MaxInputs) : v[2] \in HeldViews(call[v[1]], b)}
OutputViews(b) ==
  {v \in Threads \X (1 .. MaxOutputs) : v[2] \in HeldOuts(call[v[1]], b)}
BufferRefsExact ==
  \A b \in Buffers :
    refs[b] = Cardinality(Entries(b)) + Cardinality(InputViews(b))
              + Cardinality(OutputViews(b))

\* "The allocator owns all allocated buffers and tracks them internally": the
\* raw pointer in a device tensor is a key of its own device's map, and no other
\* tensor has it, however addresses are reused.
HandlesOwned ==
  \A t \in Tensors : OnDevice(t) =>
    /\ tensor[t].buf \in allocations_[tensor[t].on]
    /\ \A u \in Tensors : u # t => tensor[u].buf # tensor[t].buf

\* "Buffers are automatically released when the allocator is destroyed".
AllocatorsReleaseAll ==
  alive = {} => \A b \in Buffers : refs[b] = 0

\* What the host sees is the abstract store: a call's remaining writes are the
\* outputs, or pairs, from its index on.
Seen == [t \in Tensors |-> IF Exists(t) THEN Content(t) ELSE 0 - 1]
Writes(c) ==
  [j \in DOMAIN c.dst |->
     IF c.op = "Compute" THEN [to |-> c.dst[j], from |-> "none", val |-> c.vals[j]]
                         ELSE [to |-> c.dst[j], from |-> c.src[j], val |-> 0]]
Remaining(th) ==
  SubSeq(Writes(call[th]), IF pc[th] = "inputs" THEN 1 ELSE call[th].i,
         Len(call[th].dst))

TheStore ==
  INSTANCE TensorStore WITH content <- Seen,
                            job <- [th \in Threads |-> Remaining(th)]

\* Compute and CopyTensors implement the abstract store: outputs are the results
\* of the inputs as they were at the call, also when an output is an input; no
\* other tensor changes, whatever buffers and addresses the calls share.
ImplementsStore == TheStore!Spec

\* "IREE <-> IREE (D2D on same device)": the transfers between two IREE tensors
\* that CanCopy lets the host ask for stay on one device.
D2DOnSameDevice ==
  \A th \in Threads : pc[th] = "copy" =>
    \A k \in DOMAIN call[th].src :
      OnDevice(call[th].src[k]) /\ OnDevice(call[th].dst[k]) =>
        tensor[call[th].src[k]].on = tensor[call[th].dst[k]].on
===============================================================================
