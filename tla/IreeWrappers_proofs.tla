-------------------------- MODULE IreeWrappers_proofs --------------------------
(***************************************************************************)
(* Theorems about IreeWrappers, for any finite set of IreePtr variables and  *)
(* any objects, memory pointers, blocks, allocators and calls.               *)
(***************************************************************************)
EXTENDS IreeWrappers, FiniteSetTheorems, TLAPS

\* The three wrappers share nothing; each has its part of the invariant.
PtrInv ==
  /\ ptr \in [Ptrs -> Objects \cup {"null", "gone"}]
  /\ refs \in [Objects -> Nat] /\ raw \in [Objects -> Nat]
  /\ RefsExact

MemInv ==
  /\ mem \in [MemPtrs -> [allocator : Allocators \cup {"gone"},
                          block : Blocks \cup {"null"}]]
  /\ allocated \subseteq Allocators \X Blocks
  /\ BlocksOwnedOnce

CallInv ==
  /\ calls \in [Calls -> {"gone", "zeroed", "initialized"}]
  /\ lists \in [Calls -> Nat]
  /\ CallsBalanced

IInv == PtrInv /\ MemInv /\ CallInv

-------------------------------------------------------------------------------
(* Counting: what assigning one variable changes.                            *)

Holders(f, o) == {x \in Ptrs : f[x] = o}
One(v, o) == IF v = o THEN 1 ELSE 0

LEMMA HoldersFinite ==
  ASSUME NEW f, NEW o
  PROVE  IsFiniteSet(Holders(f, o)) /\ Cardinality(Holders(f, o)) \in Nat
<1>1. Holders(f, o) \subseteq Ptrs
  BY DEF Holders
<1>2. IsFiniteSet(Holders(f, o))
  BY <1>1, PtrsAssumption, FS_Subset
<1> QED
  BY <1>2, FS_CardinalityType

\* One variable counts once.
LEMMA CountOne ==
  ASSUME NEW f, NEW p \in Ptrs, NEW o
  PROVE  /\ Cardinality(Holders(f, o))
              = Cardinality(Holders(f, o) \ {p}) + One(f[p], o)
         /\ Cardinality(Holders(f, o) \ {p}) \in Nat
<1>1. PICK A : A = Holders(f, o) \ {p}
  OBVIOUS
<1>2. IsFiniteSet(A) /\ p \notin A
  BY <1>1, HoldersFinite, FS_Subset
<1>3. Cardinality(A) \in Nat /\ Cardinality(A \cup {p}) = Cardinality(A) + 1
  BY <1>2, FS_CardinalityType, FS_AddElement
<1>4. CASE f[p] = o
  <2>1. Holders(f, o) = A \cup {p}
    BY <1>1, <1>4 DEF Holders
  <2> QED
    BY <2>1, <1>1, <1>3, <1>4 DEF One
<1>5. CASE f[p] # o
  <2>1. Holders(f, o) = A
    BY <1>1, <1>5 DEF Holders
  <2> QED
    BY <2>1, <1>1, <1>3, <1>5 DEF One
<1> QED
  BY <1>4, <1>5

\* A pointer to an object is one of its references.
LEMMA HeldIsPositive ==
  ASSUME PtrInv, NEW p \in Ptrs, NEW o \in Objects, ptr[p] = o
  PROVE  refs[o] > raw[o]
<1>1. Cardinality(Holders(ptr, o)) \in Nat /\ Cardinality(Holders(ptr, o)) >= 1
  <2>1. One(ptr[p], o) = 1
    BY DEF One
  <2>2. PICK n \in Nat : Cardinality(Holders(ptr, o)) = n + One(ptr[p], o)
    BY CountOne
  <2> QED
    BY <2>1, <2>2
<1>2. refs[o] = raw[o] + Cardinality(Holders(ptr, o))
  BY DEF PtrInv, RefsExact, PtrsTo, Holders
<1>3. raw[o] \in Nat
  BY DEF PtrInv
<1> QED
  BY <1>1, <1>2, <1>3

-------------------------------------------------------------------------------
(* IreePtr.                                                                  *)

Values == Objects \cup {"null", "gone"}

\* What a step changes in the count and elsewhere it changes in the pointers.
LEMMA Balanced ==
  ASSUME PtrInv, ptr' \in [Ptrs -> Values], raw' \in [Objects -> Nat],
         DOMAIN refs' = Objects, refs' = [o \in Objects |-> refs'[o]],
         \A o \in Objects : refs'[o] = raw'[o] + Cardinality(Holders(ptr', o))
  PROVE  PtrInv'
<1>1. RefsExact'
  BY DEF RefsExact, PtrsTo, Holders
<1>2. \A o \in Objects : refs'[o] \in Nat
  BY HoldersFinite
<1> QED
  BY <1>1, <1>2 DEF PtrInv, Values

\* A step that assigns one variable: the count follows the old and new value.
LEMMA AssignStep ==
  ASSUME PtrInv, NEW p \in Ptrs, NEW v \in Values,
         ptr' = [ptr EXCEPT ![p] = v],
         raw' \in [Objects -> Nat], refs' = [o \in Objects |-> refs'[o]],
         \A o \in Objects :
           refs'[o] = refs[o] - raw[o] + raw'[o] - One(ptr[p], o) + One(v, o)
  PROVE  PtrInv'
<1>1. ptr' \in [Ptrs -> Values] /\ ptr'[p] = v
  BY DEF PtrInv, Values
<1>2. \A o : Holders(ptr', o) \ {p} = Holders(ptr, o) \ {p}
  BY DEF PtrInv, Holders
<1>3. ASSUME NEW o \in Objects
      PROVE  refs'[o] = raw'[o] + Cardinality(Holders(ptr', o))
  <2>1. PICK m : m = Cardinality(Holders(ptr, o))
    OBVIOUS
  <2>2. PICK n : n = Cardinality(Holders(ptr', o))
    OBVIOUS
  <2>3. m \in Nat /\ n \in Nat
    BY <2>1, <2>2, HoldersFinite
  <2>4. PICK k : k = Cardinality(Holders(ptr, o) \ {p})
    OBVIOUS
  <2>5. k \in Nat /\ Cardinality(Holders(ptr, o)) = k + One(ptr[p], o)
    BY <2>4, CountOne
  <2>6. PICK h : h = ptr'
    OBVIOUS
  <2>7. k = Cardinality(Holders(h, o) \ {p})
    BY <1>2, <2>4, <2>6
  <2>8. Cardinality(Holders(h, o)) = k + One(h[p], o)
    BY <2>7, CountOne
  <2>9. m = k + One(ptr[p], o) /\ n = k + One(v, o)
    BY <2>6, <2>5, <2>8, <1>1, <2>1, <2>2
  <2>10. refs[o] = raw[o] + m
    BY <2>1 DEF PtrInv, RefsExact, PtrsTo, Holders
  <2>11. raw[o] \in Nat /\ raw'[o] \in Nat
        /\ One(ptr[p], o) \in Nat /\ One(v, o) \in Nat
    BY DEF PtrInv, One
  <2> QED
    BY <2>5, <2>2, <2>3, <2>9, <2>10, <2>11
<1> QED
  BY <1>1, <1>3, Balanced

\* A step that moves q's pointer to p, whose old object loses a reference.
LEMMA MoveStep ==
  ASSUME PtrInv, NEW p \in Ptrs, NEW q \in Ptrs, p # q,
         ptr' = [ptr EXCEPT ![p] = ptr[q], ![q] = "null"],
         UNCHANGED raw, refs' = [o \in Objects |-> refs'[o]],
         \A o \in Objects : refs'[o] = refs[o] - One(ptr[p], o)
  PROVE  PtrInv'
<1>1. PICK g : g = [ptr EXCEPT ![p] = ptr[q]]
  OBVIOUS
<1>2. /\ ptr' \in [Ptrs -> Values] /\ ptr'[q] = "null"
      /\ g[p] = ptr[q] /\ g[q] = ptr[q]
  BY <1>1 DEF PtrInv, Values
<1>3. \A o : Holders(g, o) \ {p} = Holders(ptr, o) \ {p}
  BY <1>1 DEF PtrInv, Holders
<1>4. \A o : Holders(ptr', o) \ {q} = Holders(g, o) \ {q}
  BY <1>1 DEF PtrInv, Holders
<1>5. ASSUME NEW o \in Objects
      PROVE  refs'[o] = raw'[o] + Cardinality(Holders(ptr', o))
  <2>1. PICK m : m = Cardinality(Holders(ptr, o))
    OBVIOUS
  <2>2. PICK k : k = Cardinality(Holders(g, o))
    OBVIOUS
  <2>3. PICK n : n = Cardinality(Holders(ptr', o))
    OBVIOUS
  <2>4. m \in Nat /\ k \in Nat /\ n \in Nat
    BY <2>1, <2>2, <2>3, HoldersFinite
  <2>5. PICK i : i = Cardinality(Holders(ptr, o) \ {p})
    OBVIOUS
  <2>6. PICK j : j = Cardinality(Holders(g, o) \ {q})
    OBVIOUS
  <2>7. i \in Nat /\ Cardinality(Holders(ptr, o)) = i + One(ptr[p], o)
    BY <2>5, CountOne
  <2>8. Cardinality(Holders(g, o)) = i + One(g[p], o)
    BY <1>3, <2>5, CountOne
  <2>9. j \in Nat /\ Cardinality(Holders(g, o)) = j + One(g[q], o)
    BY <2>6, CountOne
  <2>10. PICK h : h = ptr'
    OBVIOUS
  <2>11. j = Cardinality(Holders(h, o) \ {q})
    BY <1>4, <2>6, <2>10
  <2>12. Cardinality(Holders(h, o)) = j + One(h[q], o)
    BY <2>11, CountOne
  <2>13. m = i + One(ptr[p], o) /\ k = i + One(ptr[q], o)
    BY <2>7, <2>8, <1>2, <2>1, <2>2
  <2>14. k = j + One(ptr[q], o) /\ n = j + One("null", o)
    BY <2>9, <2>12, <2>10, <1>2, <2>2, <2>3
  <2>15. One("null", o) = 0 /\ One(ptr[p], o) \in Nat /\ One(ptr[q], o) \in Nat
    BY PtrsAssumption DEF One
  <2>16. refs[o] = raw[o] + m /\ raw[o] \in Nat
    BY <2>1 DEF PtrInv, RefsExact, PtrsTo, Holders
  <2>17. raw'[o] = raw[o] /\ refs'[o] = refs[o] - One(ptr[p], o)
    OBVIOUS
  <2> QED
    BY <2>7, <2>9, <2>3, <2>13, <2>14, <2>15, <2>16, <2>17
<1>6. raw' \in [Objects -> Nat]
  BY DEF PtrInv
<1> QED
  BY <1>2, <1>5, <1>6, Balanced

LEMMA ConstructStep ==
  ASSUME PtrInv, NEW p \in Ptrs, Construct(p)
  PROVE  PtrInv'
<1>1. /\ ptr' = [ptr EXCEPT ![p] = "null"]
      /\ raw' \in [Objects -> Nat] /\ refs' = [o \in Objects |-> refs'[o]]
  BY DEF Construct, PtrInv
<1>2. ASSUME NEW o \in Objects
      PROVE  refs'[o] = refs[o] - raw[o] + raw'[o] - One(ptr[p], o) + One("null", o)
  <2>1. One(ptr[p], o) = 0 /\ One("null", o) = 0
    BY PtrsAssumption DEF Construct, Gone, One
  <2>2. refs'[o] = refs[o] /\ raw'[o] = raw[o] /\ refs[o] \in Nat /\ raw[o] \in Nat
    BY DEF Construct, PtrInv
  <2> QED
    BY <2>1, <2>2
<1>3. "null" \in Values
  BY DEF Values
<1> QED
  BY <1>1, <1>2, <1>3, AssignStep

LEMMA AdoptStep ==
  ASSUME PtrInv, NEW p \in Ptrs, NEW v \in Objects, Adopt(p, v)
  PROVE  PtrInv'
<1>1. /\ ptr' = [ptr EXCEPT ![p] = v]
      /\ raw' \in [Objects -> Nat] /\ refs' = [o \in Objects |-> refs'[o]]
  BY DEF Adopt, PtrInv
<1>2. ASSUME NEW o \in Objects
      PROVE  refs'[o] = refs[o] - raw[o] + raw'[o] - One(ptr[p], o) + One(v, o)
  <2>1. One(ptr[p], o) = 0
    BY PtrsAssumption DEF Adopt, Gone, One
  <2>2. /\ refs'[o] = refs[o] /\ refs[o] \in Nat /\ raw[o] \in Nat
        /\ raw'[o] = IF v = o THEN raw[o] - 1 ELSE raw[o]
    BY DEF Adopt, PtrInv
  <2> QED
    BY <2>1, <2>2 DEF One
<1>3. v \in Values
  BY DEF Values
<1> QED
  BY <1>1, <1>2, <1>3, AssignStep

LEMMA BorrowStep ==
  ASSUME PtrInv, NEW p \in Ptrs, NEW v \in Objects, Borrow(p, v)
  PROVE  PtrInv'
<1>1. /\ ptr' = [ptr EXCEPT ![p] = v]
      /\ raw' \in [Objects -> Nat] /\ refs' = [o \in Objects |-> refs'[o]]
  BY DEF Borrow, PtrInv
<1>2. ASSUME NEW o \in Objects
      PROVE  refs'[o] = refs[o] - raw[o] + raw'[o] - One(ptr[p], o) + One(v, o)
  <2>1. One(ptr[p], o) = 0
    BY PtrsAssumption DEF Borrow, Gone, One
  <2>2. /\ raw'[o] = raw[o] /\ refs[o] \in Nat /\ raw[o] \in Nat
        /\ refs'[o] = IF v = o THEN refs[o] + 1 ELSE refs[o]
    BY DEF Borrow, PtrInv
  <2> QED
    BY <2>1, <2>2 DEF One
<1>3. v \in Values
  BY DEF Values
<1> QED
  BY <1>1, <1>2, <1>3, AssignStep

LEMMA MoveConstructStep ==
  ASSUME PtrInv, NEW p \in Ptrs, NEW q \in Ptrs, MoveConstruct(p, q)
  PROVE  PtrInv'
<1>1. /\ ptr' = [ptr EXCEPT ![p] = ptr[q], ![q] = "null"]
      /\ UNCHANGED raw /\ refs' = [o \in Objects |-> refs'[o]] /\ p # q
  BY DEF MoveConstruct, Gone, PtrInv
<1>2. ASSUME NEW o \in Objects PROVE refs'[o] = refs[o] - One(ptr[p], o)
  <2>1. One(ptr[p], o) = 0
    BY PtrsAssumption DEF MoveConstruct, Gone, One
  <2>2. refs'[o] = refs[o] /\ refs[o] \in Nat
    BY DEF MoveConstruct, PtrInv
  <2> QED
    BY <2>1, <2>2
<1> QED
  BY <1>1, <1>2, MoveStep

LEMMA MoveAssignStep ==
  ASSUME PtrInv, NEW p \in Ptrs, NEW q \in Ptrs, MoveAssign(p, q)
  PROVE  PtrInv'
<1>1. CASE p = q
  <2>1. UNCHANGED ptrVars
    BY <1>1 DEF MoveAssign, ptrVars
  <2> QED
    BY <2>1 DEF ptrVars, PtrInv, RefsExact, PtrsTo
<1>2. CASE p # q
  <2>1. /\ ptr' = [ptr EXCEPT ![p] = ptr[q], ![q] = "null"] /\ raw' = raw
        /\ refs' = [o \in Objects |-> IF o = ptr[p] THEN refs[o] - 1 ELSE refs[o]]
    BY <1>2 DEF MoveAssign, Released
  <2>2. \A o \in Objects : refs'[o] = refs[o] - One(ptr[p], o)
    BY <2>1 DEF One, PtrInv
  <2>3. refs' = [o \in Objects |-> refs'[o]]
    BY <2>1
  <2> QED
    BY <1>2, <2>1, <2>2, <2>3, MoveStep
<1> QED
  BY <1>1, <1>2

\* The object p points to has a count of at least 1, so that it can be released.
LEMMA ReleasedValue ==
  ASSUME PtrInv, NEW p \in Ptrs, NEW o \in Objects
  PROVE  Released(ptr[p])[o] = refs[o] - One(ptr[p], o)
<1>1. refs[o] \in Nat
  BY DEF PtrInv
<1> QED
  BY <1>1 DEF Released, One

LEMMA ForOutputStep ==
  ASSUME PtrInv, NEW p \in Ptrs, NEW v \in Objects \cup {"null"}, ForOutput(p, v)
  PROVE  PtrInv'
<1>1. /\ ptr' = [ptr EXCEPT ![p] = v]
      /\ raw' \in [Objects -> Nat] /\ refs' = [o \in Objects |-> refs'[o]]
  BY DEF ForOutput, PtrInv
<1>2. ASSUME NEW o \in Objects
      PROVE  refs'[o] = refs[o] - raw[o] + raw'[o] - One(ptr[p], o) + One(v, o)
  <2>1. PICK r : r = Released(ptr[p])[o]
    OBVIOUS
  <2>2. r = refs[o] - One(ptr[p], o)
    BY <2>1, ReleasedValue
  <2>3. refs'[o] = IF v = o THEN r + 1 ELSE r
    BY <2>1 DEF ForOutput
  <2>4. /\ raw'[o] = raw[o] /\ refs[o] \in Nat /\ raw[o] \in Nat
        /\ One(ptr[p], o) \in Nat
    BY DEF ForOutput, PtrInv, One
  <2>5. One(v, o) = IF v = o THEN 1 ELSE 0
    BY DEF One
  <2> QED
    BY <2>2, <2>3, <2>4, <2>5
<1>3. v \in Values
  BY DEF Values
<1> QED
  BY <1>1, <1>2, <1>3, AssignStep

LEMMA ReleaseStep ==
  ASSUME PtrInv, NEW p \in Ptrs, Release(p)
  PROVE  PtrInv'
<1>1. /\ ptr' = [ptr EXCEPT ![p] = "null"]
      /\ raw' \in [Objects -> Nat] /\ refs' = [o \in Objects |-> refs'[o]]
  BY DEF Release, PtrInv
<1>2. ASSUME NEW o \in Objects
      PROVE  refs'[o] = refs[o] - raw[o] + raw'[o] - One(ptr[p], o) + One("null", o)
  <2>1. One("null", o) = 0
    BY PtrsAssumption DEF One
  <2>2. /\ refs'[o] = refs[o] /\ refs[o] \in Nat /\ raw[o] \in Nat
        /\ raw'[o] = IF o = ptr[p] THEN raw[o] + 1 ELSE raw[o]
    BY DEF Release, PtrInv
  <2> QED
    BY <2>1, <2>2 DEF One
<1>3. "null" \in Values
  BY DEF Values
<1> QED
  BY <1>1, <1>2, <1>3, AssignStep

LEMMA ResetStep ==
  ASSUME PtrInv, NEW p \in Ptrs, NEW v \in Objects \cup {"null"}, Reset(p, v)
  PROVE  PtrInv'
<1>1. /\ ptr' = [ptr EXCEPT ![p] = v] /\ refs' = [o \in Objects |-> refs'[o]]
  BY DEF Reset, Released
<1>2. raw' \in [Objects -> Nat]
  BY PtrsAssumption DEF Reset, PtrInv
<1>3. ASSUME NEW o \in Objects
      PROVE  refs'[o] = refs[o] - raw[o] + raw'[o] - One(ptr[p], o) + One(v, o)
  <2>1. refs'[o] = refs[o] - One(ptr[p], o)
    BY ReleasedValue DEF Reset
  <2>2. raw'[o] = IF o = v THEN raw[o] - 1 ELSE raw[o]
    BY DEF Reset
  <2>3. refs[o] \in Nat /\ raw[o] \in Nat /\ One(ptr[p], o) \in Nat
    BY DEF PtrInv, One
  <2>4. One(v, o) = IF o = v THEN 1 ELSE 0
    BY DEF One
  <2> QED
    BY <2>1, <2>2, <2>3, <2>4
<1>4. v \in Values
  BY DEF Values
<1> QED
  BY <1>1, <1>2, <1>3, <1>4, AssignStep

LEMMA DestroyStep ==
  ASSUME PtrInv, NEW p \in Ptrs, Destroy(p)
  PROVE  PtrInv'
<1>1. /\ ptr' = [ptr EXCEPT ![p] = "gone"] /\ refs' = [o \in Objects |-> refs'[o]]
      /\ raw' \in [Objects -> Nat]
  BY DEF Destroy, Released, PtrInv
<1>2. ASSUME NEW o \in Objects
      PROVE  refs'[o] = refs[o] - raw[o] + raw'[o] - One(ptr[p], o) + One("gone", o)
  <2>1. refs'[o] = refs[o] - One(ptr[p], o)
    BY ReleasedValue DEF Destroy
  <2>2. raw'[o] = raw[o] /\ refs[o] \in Nat /\ raw[o] \in Nat
    BY DEF Destroy, PtrInv
  <2>3. One("gone", o) = 0 /\ One(ptr[p], o) \in Nat
    BY PtrsAssumption DEF One
  <2> QED
    BY <2>1, <2>2, <2>3
<1>3. "gone" \in Values
  BY DEF Values
<1> QED
  BY <1>1, <1>2, <1>3, AssignStep

LEMMA RetainStep ==
  ASSUME PtrInv, NEW v \in Objects, Retain(v) \/ GiveBack(v)
  PROVE  PtrInv'
<1>1. ptr' \in [Ptrs -> Values] /\ raw' \in [Objects -> Nat]
  BY DEF Retain, GiveBack, PtrInv, Values
<1>2. ASSUME NEW o \in Objects
      PROVE  refs'[o] = raw'[o] + Cardinality(Holders(ptr', o))
  <2>1. PICK n : n = Cardinality(Holders(ptr, o))
    OBVIOUS
  <2>2. n \in Nat /\ refs[o] = raw[o] + n
    BY <2>1, HoldersFinite DEF PtrInv, RefsExact, PtrsTo, Holders
  <2>3. raw[o] \in Nat /\ refs'[o] = raw'[o] + n
    BY <2>2 DEF Retain, GiveBack, PtrInv
  <2>4. ptr' = ptr
    BY DEF Retain, GiveBack
  <2> QED
    BY <2>1, <2>3, <2>4
<1>3. refs' = [o \in Objects |-> refs'[o]] /\ DOMAIN refs' = Objects
  BY DEF Retain, GiveBack, PtrInv
<1> QED
  BY <1>1, <1>2, <1>3, Balanced

LEMMA PtrStepKeeps ==
  ASSUME PtrInv, PtrStep
  PROVE  PtrInv'
<1>1. ASSUME NEW p \in Ptrs, Construct(p) \/ Release(p) \/ Destroy(p)
      PROVE  PtrInv'
  BY <1>1, ConstructStep, ReleaseStep, DestroyStep
<1>2. ASSUME NEW p \in Ptrs, NEW o \in Objects, Adopt(p, o) \/ Borrow(p, o)
      PROVE  PtrInv'
  BY <1>2, AdoptStep, BorrowStep
<1>3. ASSUME NEW p \in Ptrs, NEW v \in Objects \cup {"null"},
             ForOutput(p, v) \/ Reset(p, v)
      PROVE  PtrInv'
  BY <1>3, ForOutputStep, ResetStep
<1>4. ASSUME NEW p \in Ptrs, NEW q \in Ptrs, MoveConstruct(p, q) \/ MoveAssign(p, q)
      PROVE  PtrInv'
  BY <1>4, MoveConstructStep, MoveAssignStep
<1>5. ASSUME NEW o \in Objects, Retain(o) \/ GiveBack(o)
      PROVE  PtrInv'
  BY <1>5, RetainStep
<1> QED
  BY <1>1, <1>2, <1>3, <1>4, <1>5 DEF PtrStep

-------------------------------------------------------------------------------
(* IreeAllocatedPtr.                                                         *)

MemType == [MemPtrs -> [allocator : Allocators \cup {"gone"},
                        block : Blocks \cup {"null"}]]
Owners == {m \in MemPtrs : mem[m].block # "null"}

\* The allocated blocks, without the sets BlocksOwnedOnce builds: those of the
\* pointers, each from the pointer's own allocator and owned by no other pointer.
OwnedOnce ==
  /\ \A m \in Owners : Owned(m) \in allocated
  /\ \A x \in allocated : \E m \in Owners : x = Owned(m)
  /\ \A m, n \in Owners : m # n => mem[m].block # mem[n].block

LEMMA OwnedOnceIsBlocksOwnedOnce == OwnedOnce <=> BlocksOwnedOnce
BY DEF OwnedOnce, BlocksOwnedOnce, Owners

LEMMA MemStepKeeps ==
  ASSUME MemInv, MemStep
  PROVE  MemInv'
<1>1. mem \in MemType /\ allocated \subseteq Allocators \X Blocks /\ OwnedOnce
  BY OwnedOnceIsBlocksOwnedOnce DEF MemInv, MemType
<1> DEFINE Kept == mem' \in MemType /\ allocated' \subseteq Allocators \X Blocks
                   /\ OwnedOnce'
<1>2. ASSUME NEW m \in MemPtrs, MemGone(m)
      PROVE  mem[m].block = "null"
  <2>1. SUFFICES ASSUME m \in Owners PROVE FALSE
    BY DEF Owners
  <2>2. <<mem[m].allocator, mem[m].block>> \in Allocators \X Blocks
    BY <1>1, <2>1 DEF OwnedOnce, Owned
  <2> QED
    BY <1>2, <2>2, PtrsAssumption DEF MemGone
<1>3. ASSUME NEW m \in MemPtrs, NEW a \in Allocators, MemConstruct(m, a)
      PROVE  Kept
  BY <1>1, <1>3, <1>2 DEF MemConstruct, MemType, OwnedOnce, Owners, Owned
<1>4. ASSUME NEW m \in MemPtrs, NEW n \in MemPtrs, MemMoveConstruct(m, n)
      PROVE  Kept
  <2>1. m # n /\ mem[m].block = "null"
    BY <1>4, <1>2 DEF MemMoveConstruct, MemGone
  <2>2. /\ mem'[m] = mem[n]
        /\ mem'[n].allocator = mem[n].allocator /\ mem'[n].block = "null"
        /\ \A x \in MemPtrs \ {m, n} : mem'[x] = mem[x]
        /\ mem' \in MemType
    BY <1>1, <1>4, <2>1 DEF MemMoveConstruct, MemType
  <2>3. allocated' = allocated
    BY <1>4 DEF MemMoveConstruct
  <2>4. OwnedOnce'
    <3>1. \A x \in MemPtrs : mem'[x].block # "null" =>
            \E y \in Owners : /\ mem'[x] = mem[y] /\ (x = m <=> y = n)
                             /\ (x # m => x = y)
      BY <2>1, <2>2 DEF Owners
    <3>2. \A y \in Owners : \E x \in MemPtrs : mem'[x] = mem[y]
      BY <2>1, <2>2 DEF Owners
    <3> QED
      BY <1>1, <2>3, <3>1, <3>2 DEF OwnedOnce, Owners, Owned
  <2> QED
    BY <1>1, <2>2, <2>3, <2>4
<1>5. ASSUME NEW m \in MemPtrs, NEW n \in MemPtrs, MemMoveAssign(m, n)
      PROVE  Kept
  BY <1>1, <1>5
     DEF MemMoveAssign, MemGone, MemType, OwnedOnce, Owners, Owned, memVars
<1>6. ASSUME NEW m \in MemPtrs, MemForOutput(m)
      PROVE  Kept
  <2>1. PICK v \in Blocks \cup {"null"} :
          /\ mem' = [mem EXCEPT ![m] = [allocator |-> mem[m].allocator, block |-> v]]
          /\ allocated' = (allocated \ {Owned(m)})
               \cup (IF v = "null" THEN {} ELSE {<<mem[m].allocator, v>>})
          /\ v # "null" => v = mem[m].block \/ v \in Unused
    BY <1>1, <1>6 DEF MemForOutput, MemType, Unused
  <2>2. mem[m].allocator \in Allocators
    BY <1>1, <1>6 DEF MemForOutput, MemGone, MemType
  <2>3. /\ mem'[m].block = v /\ mem'[m].allocator = mem[m].allocator
        /\ \A x \in MemPtrs \ {m} : mem'[x] = mem[x]
        /\ mem' \in MemType
    BY <1>1, <2>1 DEF MemType
  <2>4. allocated' \subseteq Allocators \X Blocks
    BY <1>1, <2>1, <2>2
  <2>5. ASSUME NEW x \in Owners, x # m PROVE mem[x].block # v
    <3>1. Owned(x) \in allocated /\ mem[x].allocator \in Allocators
      BY <1>1, <2>5, PtrsAssumption DEF OwnedOnce, Owned, Owners
    <3> QED
      BY <1>1, <2>1, <2>5, <3>1 DEF OwnedOnce, Owned, Owners, Unused
  <2>6. OwnedOnce'
    BY <1>1, <2>1, <2>3, <2>5 DEF OwnedOnce, Owned, Owners
  <2> QED
    BY <2>3, <2>4, <2>6
<1>7. ASSUME NEW m \in MemPtrs, MemDestroy(m)
      PROVE  Kept
  BY <1>1, <1>7 DEF MemDestroy, MemType, OwnedOnce, Owners, Owned, NoMem
<1>8. Kept
  BY <1>3, <1>4, <1>5, <1>6, <1>7 DEF MemStep
<1>9. OwnedOnce' <=> BlocksOwnedOnce'
  BY OwnedOnceIsBlocksOwnedOnce, PTL
<1> QED
  BY <1>8, <1>9 DEF MemInv, MemType

-------------------------------------------------------------------------------
(* RuntimeCall.                                                              *)

LEMMA CallStepKeeps ==
  ASSUME CallInv, CallStep
  PROVE  CallInv'
<1>1. PICK c \in Calls : \/ CallConstruct(c) \/ Deinitialize(c) \/ CallDestroy(c)
                         \/ \E ok \in BOOLEAN : CallInitialize(c, ok)
  BY DEF CallStep
<1>2. CASE CallConstruct(c)
  BY <1>2 DEF CallInv, CallsBalanced, CallConstruct
<1>3. CASE \E ok \in BOOLEAN : CallInitialize(c, ok)
  BY <1>3 DEF CallInv, CallsBalanced, CallInitialize, callVars
<1>4. CASE Deinitialize(c)
  BY <1>4 DEF CallInv, CallsBalanced, Deinitialize, Deinitialized
<1>5. CASE CallDestroy(c)
  BY <1>5 DEF CallInv, CallsBalanced, CallDestroy, Deinitialized
<1> QED
  BY <1>1, <1>2, <1>3, <1>4, <1>5

-------------------------------------------------------------------------------
(* The theorems.                                                             *)

LEMMA InitIInv == Init => IInv
<1> SUFFICES ASSUME Init PROVE IInv
  OBVIOUS
<1>1. RefsExact
  <2>1. ASSUME NEW o \in Objects PROVE PtrsTo(o) = {}
    BY PtrsAssumption DEF Init, PtrsTo
  <2>2. \A o \in Objects : refs[o] = 0 /\ raw[o] = 0
    BY DEF Init
  <2> QED
    BY <2>1, <2>2, FS_EmptySet DEF RefsExact
<1>2. PtrInv
  BY <1>1 DEF Init, PtrInv
<1>3. BlocksOwnedOnce
  BY DEF Init, BlocksOwnedOnce, NoMem
<1>4. MemInv
  BY <1>3 DEF Init, MemInv, NoMem
<1>5. CallInv
  BY DEF Init, CallInv, CallsBalanced
<1> QED
  BY <1>2, <1>4, <1>5 DEF IInv

LEMMA UnchangedParts ==
  /\ PtrInv /\ UNCHANGED ptrVars => PtrInv'
  /\ MemInv /\ UNCHANGED memVars => MemInv'
  /\ CallInv /\ UNCHANGED callVars => CallInv'
<1>1. PtrInv /\ UNCHANGED ptrVars => PtrInv'
  BY DEF PtrInv, RefsExact, PtrsTo, ptrVars
<1>2. MemInv /\ UNCHANGED memVars => MemInv'
  BY DEF MemInv, BlocksOwnedOnce, Owned, memVars
<1>3. CallInv /\ UNCHANGED callVars => CallInv'
  BY DEF CallInv, CallsBalanced, callVars
<1> QED
  BY <1>1, <1>2, <1>3

LEMMA NextIInv == IInv /\ [Next]_vars => IInv'
<1> SUFFICES ASSUME IInv, [Next]_vars PROVE IInv'
  OBVIOUS
<1> USE DEF IInv
<1>1. CASE PtrStep /\ UNCHANGED <<memVars, callVars>>
  BY <1>1, PtrStepKeeps, UnchangedParts
<1>2. CASE MemStep /\ UNCHANGED <<ptrVars, callVars>>
  BY <1>2, MemStepKeeps, UnchangedParts
<1>3. CASE CallStep /\ UNCHANGED <<ptrVars, memVars>>
  BY <1>3, CallStepKeeps, UnchangedParts
<1>4. CASE UNCHANGED vars
  BY <1>4, UnchangedParts DEF vars
<1> QED
  BY <1>1, <1>2, <1>3, <1>4 DEF Next

\* The parts of the invariant hold in every state of the wrappers.
THEOREM Inductive == Spec => []IInv
BY InitIInv, NextIInv, PTL DEF Spec

\* The state has its type; no reference count and no count of a call's lists
\* goes below 0, whatever operations are called on the wrappers.
THEOREM TypeCorrect == Spec => []TypeOK
<1>1. IInv => TypeOK
  BY DEF IInv, PtrInv, MemInv, CallInv, TypeOK
<1> QED
  BY <1>1, Inductive, PTL

\* An object's references are those held elsewhere and one for each IreePtr to it.
THEOREM ReferencesExact == Spec => []RefsExact
<1>1. IInv => RefsExact
  BY DEF IInv, PtrInv
<1> QED
  BY <1>1, Inductive, PTL

\* Each allocated block is owned by one IreeAllocatedPtr, with its allocator.
THEOREM BlocksOwned == Spec => []BlocksOwnedOnce
<1>1. IInv => BlocksOwnedOnce
  BY DEF IInv, MemInv
<1> QED
  BY <1>1, Inductive, PTL

\* A call's lists are released once, and only if its initialization succeeded.
THEOREM ListsBalanced == Spec => []CallsBalanced
<1>1. IInv => CallsBalanced
  BY DEF IInv, CallInv
<1> QED
  BY <1>1, Inductive, PTL

\* HeldIsPositive as one formula, to be used of the state after a step.
HeldAlive ==
  \A p \in Ptrs, o \in Objects : PtrInv /\ ptr[p] = o => refs[o] > raw[o]

\* A move assignment gives the target the source's pointer, whose object is alive
\* afterwards, also when source and target are one variable.
THEOREM MovesKeep == Spec => MovesKeepObject
<1>1. HeldAlive
  BY HeldIsPositive DEF HeldAlive
<1>2. HeldAlive'
  BY <1>1, PTL
<1>3. IInv /\ IInv' =>
        \A p, q \in Ptrs : MoveAssign(p, q) =>
          /\ ptr'[p] = ptr[q]
          /\ \A o \in Objects : o = ptr[q] => refs'[o] > 0
  <2> SUFFICES ASSUME IInv, IInv', NEW p \in Ptrs, NEW q \in Ptrs, MoveAssign(p, q)
               PROVE  /\ ptr'[p] = ptr[q]
                      /\ \A o \in Objects : o = ptr[q] => refs'[o] > 0
    OBVIOUS
  <2>1. ptr'[p] = ptr[q]
    BY DEF MoveAssign, IInv, PtrInv
  <2>2. ASSUME NEW o \in Objects, o = ptr[q] PROVE refs'[o] > 0
    <3>1. refs'[o] > raw'[o]
      BY <1>2, <2>1, <2>2 DEF IInv, HeldAlive
    <3>2. refs'[o] \in Nat /\ raw'[o] \in Nat
      BY DEF IInv, PtrInv
    <3> QED
      BY <3>1, <3>2
  <2> QED
    BY <2>1, <2>2
<1> QED
  BY <1>3, Inductive, PTL DEF MovesKeepObject
===============================================================================
