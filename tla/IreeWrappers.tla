------------------------------ MODULE IreeWrappers ------------------------------
(***************************************************************************)
(* The RAII wrappers through which the plugin holds everything IREE gives    *)
(* it: IreePtr (a counted reference), IreeAllocatedPtr (memory of an         *)
(* iree_allocator_t) and RuntimeCall (an initialized call).  Any sequence of *)
(* their operations is possible; the other holders of references, IREE's own *)
(* objects and code with raw pointers, are the environment.                  *)
(***************************************************************************)
EXTENDS Naturals, FiniteSets

CONSTANTS
  Ptrs,                         \* IreePtr variables
  Objects,                      \* addresses of counted IREE objects
  MaxRaw,                       \* bound: references to an object from elsewhere
  MemPtrs, Allocators, Blocks,  \* IreeAllocatedPtr variables and their memory
  Calls                         \* RuntimeCall variables

ASSUME PtrsAssumption ==
  /\ IsFiniteSet(Ptrs) /\ MaxRaw \in Nat
  /\ "null" \notin Objects /\ "gone" \notin Objects
  /\ "null" \notin Blocks /\ "gone" \notin Allocators

VARIABLES
  ptr,        \* ptr_ of each IreePtr; "gone" where there is no such variable
  refs,       \* reference count of each object, 0 when there is none
  raw,        \* references to each object from outside the wrappers
  mem,        \* allocator_ and ptr_ of each IreeAllocatedPtr
  allocated,  \* the blocks that are allocated, each with its allocator
  calls,      \* state of each RuntimeCall
  lists       \* how often the call's lists were made and not yet released

ptrVars == <<ptr, refs, raw>>
memVars == <<mem, allocated>>
callVars == <<calls, lists>>
vars == <<ptrVars, memVars, callVars>>

NoMem == [allocator |-> "gone", block |-> "null"]

Init ==
  /\ ptr = [p \in Ptrs |-> "gone"]
  /\ refs = [o \in Objects |-> 0] /\ raw = [o \in Objects |-> 0]
  /\ mem = [m \in MemPtrs |-> NoMem] /\ allocated = {}
  /\ calls = [c \in Calls |-> "gone"] /\ lists = [c \in Calls |-> 0]

Gone(p) == ptr[p] = "gone"

-------------------------------------------------------------------------------
(* IreePtr.                                                                  *)

\* The counts after ReleaseFn(v), which is not called on null.
Released(v) == [o \in Objects |-> IF o = v THEN refs[o] - 1 ELSE refs[o]]

Construct(p) ==
  /\ Gone(p)
  /\ ptr' = [ptr EXCEPT ![p] = "null"]
  /\ UNCHANGED <<refs, raw>>

\* The explicit constructor takes over a reference that someone holds.
Adopt(p, o) ==
  /\ Gone(p) /\ raw[o] > 0
  /\ ptr' = [ptr EXCEPT ![p] = o]
  /\ raw' = [raw EXCEPT ![o] = @ - 1]
  /\ UNCHANGED refs

\* Borrow retains an object that is alive.
Borrow(p, o) ==
  /\ Gone(p) /\ refs[o] > 0
  /\ ptr' = [ptr EXCEPT ![p] = o]
  /\ refs' = [refs EXCEPT ![o] = @ + 1]
  /\ UNCHANGED raw

\* Mutant: the source keeps its pointer.
MoveConstruct_Copies(p, q) ==
  /\ Gone(p) /\ ~Gone(q)
  /\ ptr' = [ptr EXCEPT ![p] = ptr[q]]
  /\ UNCHANGED <<refs, raw>>

MoveConstruct(p, q) ==
  /\ Gone(p) /\ ~Gone(q)
  /\ ptr' = [ptr EXCEPT ![p] = ptr[q], ![q] = "null"]
  /\ UNCHANGED <<refs, raw>>

\* Mutant: without the check for this == &other.
MoveAssign_NoSelfCheck(p, q) ==
  /\ ~Gone(p) /\ ~Gone(q)
  /\ refs' = Released(ptr[p])
  /\ ptr' = [ptr EXCEPT ![p] = IF p = q THEN "null" ELSE ptr[q], ![q] = "null"]
  /\ UNCHANGED raw

\* Move assignment; p and q may be one variable.
MoveAssign(p, q) ==
  /\ ~Gone(p) /\ ~Gone(q)
  /\ IF p = q THEN UNCHANGED <<ptr, refs>>
     ELSE /\ refs' = Released(ptr[p])
          /\ ptr' = [ptr EXCEPT ![p] = ptr[q], ![q] = "null"]
  /\ UNCHANGED raw

\* Mutant: the old object is overwritten without being released.
ForOutput_NoReset(p, v) ==
  /\ ~Gone(p)
  /\ refs' = [o \in Objects |-> IF o = v THEN refs[o] + 1 ELSE refs[o]]
  /\ ptr' = [ptr EXCEPT ![p] = v]
  /\ UNCHANGED raw

\* ForOutput releases the old object; the API function it is passed to stores
\* an object with a reference of its own, new or not, or fails (v is null).
ForOutput(p, v) ==
  /\ ~Gone(p)
  /\ refs' = [o \in Objects |-> IF o = v THEN Released(ptr[p])[o] + 1
                                         ELSE Released(ptr[p])[o]]
  /\ ptr' = [ptr EXCEPT ![p] = v]
  /\ UNCHANGED raw

\* Release hands the reference to the caller.
Release(p) ==
  /\ ~Gone(p)
  /\ ptr[p] # "null" => raw[ptr[p]] < MaxRaw
  /\ ptr' = [ptr EXCEPT ![p] = "null"]
  /\ raw' = [o \in Objects |-> IF o = ptr[p] THEN raw[o] + 1 ELSE raw[o]]
  /\ UNCHANGED refs

\* Reset to null, or to a pointer whose reference it takes over.
Reset(p, v) ==
  /\ ~Gone(p)
  /\ v # "null" => raw[v] > 0
  /\ refs' = Released(ptr[p])
  /\ ptr' = [ptr EXCEPT ![p] = v]
  /\ raw' = [o \in Objects |-> IF o = v THEN raw[o] - 1 ELSE raw[o]]

Destroy(p) ==
  /\ ~Gone(p)
  /\ refs' = Released(ptr[p])
  /\ ptr' = [ptr EXCEPT ![p] = "gone"]
  /\ UNCHANGED raw

\* Elsewhere an object is made or retained, or a reference is given back.
Retain(o) ==
  /\ raw[o] < MaxRaw
  /\ refs' = [refs EXCEPT ![o] = @ + 1] /\ raw' = [raw EXCEPT ![o] = @ + 1]
  /\ UNCHANGED ptr

GiveBack(o) ==
  /\ raw[o] > 0
  /\ refs' = [refs EXCEPT ![o] = @ - 1] /\ raw' = [raw EXCEPT ![o] = @ - 1]
  /\ UNCHANGED ptr

PtrStep ==
  \/ \E p \in Ptrs :
       \/ Construct(p)
       \/ Release(p)
       \/ Destroy(p)
       \/ \E o \in Objects : Adopt(p, o) \/ Borrow(p, o)
       \/ \E v \in Objects \cup {"null"} : ForOutput(p, v) \/ Reset(p, v)
       \/ \E q \in Ptrs : MoveConstruct(p, q) \/ MoveAssign(p, q)
  \/ \E o \in Objects : Retain(o) \/ GiveBack(o)

-------------------------------------------------------------------------------
(* IreeAllocatedPtr.                                                         *)

MemGone(m) == mem[m].allocator = "gone"
Owned(m) == <<mem[m].allocator, mem[m].block>>

MemConstruct(m, a) ==
  /\ MemGone(m)
  /\ mem' = [mem EXCEPT ![m] = [allocator |-> a, block |-> "null"]]
  /\ UNCHANGED allocated

MemMoveConstruct(m, n) ==
  /\ MemGone(m) /\ ~MemGone(n)
  /\ mem' = [mem EXCEPT ![m] = mem[n], ![n].block = "null"]
  /\ UNCHANGED allocated

\* Mutant: allocator_ is taken over before the old block is freed.
MemMoveAssign_AllocatorFirst(m, n) ==
  /\ ~MemGone(m) /\ ~MemGone(n)
  /\ IF m = n THEN UNCHANGED memVars
     ELSE /\ allocated' = allocated \ {<<mem[n].allocator, mem[m].block>>}
          /\ mem' = [mem EXCEPT ![m] = mem[n], ![n].block = "null"]

\* Freeing a null block does nothing: no allocated block is "null".
MemMoveAssign(m, n) ==
  /\ ~MemGone(m) /\ ~MemGone(n)
  /\ IF m = n THEN UNCHANGED memVars
     ELSE /\ allocated' = allocated \ {Owned(m)}
          /\ mem' = [mem EXCEPT ![m] = mem[n], ![n].block = "null"]

\* The old block is freed; the API function stores one that it allocated with
\* the pointer's allocator, or fails.
Unused == {b \in Blocks : \A a \in Allocators : <<a, b>> \notin allocated}

MemForOutput(m) ==
  /\ ~MemGone(m)
  /\ \/ /\ allocated' = allocated \ {Owned(m)}
        /\ mem' = [mem EXCEPT ![m].block = "null"]
     \/ \E b \in Unused \cup {mem[m].block} :
          /\ b # "null"
          /\ allocated' = (allocated \ {Owned(m)}) \cup {<<mem[m].allocator, b>>}
          /\ mem' = [mem EXCEPT ![m].block = b]

MemDestroy(m) ==
  /\ ~MemGone(m)
  /\ allocated' = allocated \ {Owned(m)}
  /\ mem' = [mem EXCEPT ![m] = NoMem]

MemStep ==
  \E m \in MemPtrs :
    \/ \E a \in Allocators : MemConstruct(m, a)
    \/ \E n \in MemPtrs : MemMoveConstruct(m, n) \/ MemMoveAssign(m, n)
    \/ MemForOutput(m)
    \/ MemDestroy(m)

-------------------------------------------------------------------------------
(* RuntimeCall, which cannot be moved.                                       *)

CallConstruct(c) ==
  /\ calls[c] = "gone"
  /\ calls' = [calls EXCEPT ![c] = "zeroed"]
  /\ UNCHANGED lists

\* iree_runtime_call_initialize, and MarkInitialized when it succeeds; it makes
\* the lists or leaves nothing behind.
CallInitialize(c, ok) ==
  /\ calls[c] = "zeroed"
  /\ IF ok THEN /\ calls' = [calls EXCEPT ![c] = "initialized"]
                /\ lists' = [lists EXCEPT ![c] = @ + 1]
           ELSE UNCHANGED callVars

\* The counts after Deinitialize.
Deinitialized(c) ==
  IF calls[c] = "initialized" THEN [lists EXCEPT ![c] = @ - 1] ELSE lists

\* Mutant: initialized_ stays set.
Deinitialize_KeepsFlag(c) ==
  /\ calls[c] # "gone"
  /\ lists' = Deinitialized(c)
  /\ UNCHANGED calls

Deinitialize(c) ==
  /\ calls[c] # "gone"
  /\ lists' = Deinitialized(c)
  /\ calls' = [calls EXCEPT ![c] = "zeroed"]

CallDestroy(c) ==
  /\ calls[c] # "gone"
  /\ lists' = Deinitialized(c)
  /\ calls' = [calls EXCEPT ![c] = "gone"]

CallStep ==
  \E c \in Calls :
    \/ CallConstruct(c)
    \/ \E ok \in BOOLEAN : CallInitialize(c, ok)
    \/ Deinitialize(c)
    \/ CallDestroy(c)

-------------------------------------------------------------------------------

Next ==
  \/ PtrStep /\ UNCHANGED <<memVars, callVars>>
  \/ MemStep /\ UNCHANGED <<ptrVars, callVars>>
  \/ CallStep /\ UNCHANGED <<ptrVars, memVars>>

Spec == Init /\ [][Next]_vars
-------------------------------------------------------------------------------
(* Properties.                                                               *)

\* The type of the state; no count ever goes below 0.
TypeOK ==
  /\ ptr \in [Ptrs -> Objects \cup {"null", "gone"}]
  /\ refs \in [Objects -> Nat] /\ raw \in [Objects -> Nat]
  /\ mem \in [MemPtrs -> [allocator : Allocators \cup {"gone"},
                          block : Blocks \cup {"null"}]]
  /\ allocated \subseteq Allocators \X Blocks
  /\ calls \in [Calls -> {"gone", "zeroed", "initialized"}]
  /\ lists \in [Calls -> Nat]

\* The references of an object are those held elsewhere and one for each IreePtr
\* that points to it: after any sequence of operations nothing is leaked,
\* released twice, or pointed to after it was freed.
PtrsTo(o) == {p \in Ptrs : ptr[p] = o}
RefsExact == \A o \in Objects : refs[o] = raw[o] + Cardinality(PtrsTo(o))

\* A move gives the target what the source pointed to, also when both are one
\* variable, and the object stays alive while it moves.
MovesKeepObject ==
  [][\A p, q \in Ptrs : MoveAssign(p, q) =>
       /\ ptr'[p] = ptr[q]
       /\ \A o \in Objects : o = ptr[q] => refs'[o] > 0]_vars

\* Every allocated block is owned by one IreeAllocatedPtr, which has the
\* allocator the block is from, and every one that is owned is allocated.
BlocksOwnedOnce ==
  LET owners == {m \in MemPtrs : mem[m].block # "null"} IN
  /\ allocated = {Owned(m) : m \in owners}
  /\ \A m, n \in owners : m # n => mem[m].block # mem[n].block

\* A call's lists exist exactly while it is initialized: they are released once,
\* by Deinitialize or by the destructor, and never when initialization failed.
CallsBalanced ==
  \A c \in Calls : lists[c] = IF calls[c] = "initialized" THEN 1 ELSE 0
===============================================================================
