--------------------------- MODULE TensorTypes_proofs ---------------------------
(***************************************************************************)
(* Proofs about TensorTypes, for all shapes.                                 *)
(*                                                                         *)
(* The library's induction theorems take an operator.  Its theorem that a     *)
(* well-founded relation has minimal elements takes a set, and is used here   *)
(* in their place: of a set of natural numbers that make a formula false, take *)
(* the least.                                                                *)
(***************************************************************************)
EXTENDS TensorTypes, SequenceTheorems, WellFoundedInduction, TLAPS

\* A set of natural numbers that is not empty has a least element.
LEMMA LeastNat ==
  ASSUME NEW T \in SUBSET Nat, T # {}
  PROVE  \E n \in T : \A m \in T : n <= m
<1> DEFINE R == {ss \in Nat \X Nat : ss[1] < ss[2]}
<1>1. IsWellFoundedOn(R, Nat)
  BY NatLessThanWellFounded DEF OpToRel
<1>2. PICK n \in T : \A m \in T : <<m, n>> \notin R
  <2> HIDE DEF R
  <2> QED BY <1>1, WFMin
<1>3. ASSUME NEW m \in T PROVE n <= m
  <2>1. m \in Nat /\ n \in Nat
    OBVIOUS
  <2>2. <<m, n>> \notin R
    BY <1>2
  <2>3. ~ (m < n)
    BY <2>1, <2>2
  <2> QED BY <2>1, <2>3
<1> QED BY <1>3

-------------------------------------------------------------------------------
(* NumElements.                                                              *)

\* One step of the recursion of NumElements.
Step(f, dims) == IF dims = <<>> THEN 1 ELSE Head(dims) * f[Tail(dims)]

\* f satisfies the recursion on sequences up to length n.
Solves(f, n) == \A d \in Seq(Int) : Len(d) <= n => f[d] = Step(f, d)

\* A step looks at the tail only.
LEMMA StepLocal ==
  ASSUME NEW f, NEW g, NEW d \in Seq(Int),
         d # <<>> => f[Tail(d)] = g[Tail(d)]
  PROVE  Step(f, d) = Step(g, d)
BY DEF Step

\* The tail is a shorter sequence.
LEMMA TailShorter ==
  ASSUME NEW S, NEW d \in Seq(S), d # <<>>
  PROVE  /\ Tail(d) \in Seq(S) /\ Len(Tail(d)) \in Nat
         /\ Len(d) \in Nat \ {0} /\ Len(Tail(d)) = Len(d) - 1
         /\ Head(d) \in S
<1>1. Tail(d) \in Seq(S) /\ Head(d) \in S
  BY HeadTailProperties
<1>2. Len(Tail(d)) = Len(d) - 1
  BY HeadTailProperties
<1>3. Len(d) \in Nat /\ Len(d) # 0
  BY EmptySeq, LenProperties
<1>4. Len(Tail(d)) \in Nat
  BY <1>1, LenProperties
<1> QED BY <1>1, <1>2, <1>3, <1>4

\* Two solutions agree.
LEMMA SolutionsAgree ==
  ASSUME NEW n \in Nat, NEW f, NEW g, Solves(f, n), Solves(g, n)
  PROVE  \A d \in Seq(Int) : Len(d) <= n => f[d] = g[d]
<1> DEFINE Bad == {Len(d) : d \in {e \in Seq(Int) : Len(e) <= n /\ f[e] # g[e]}}
<1> SUFFICES ASSUME Bad # {} PROVE FALSE
  OBVIOUS
<1>1. Bad \subseteq Nat
  BY LenProperties
<1>2. PICK k \in Bad : \A m \in Bad : k <= m
  <2> HIDE DEF Bad
  <2> QED BY <1>1, LeastNat
<1>3. PICK d \in Seq(Int) : k = Len(d) /\ Len(d) <= n /\ f[d] # g[d]
  BY <1>2
<1>4. f[d] = Step(f, d) /\ g[d] = Step(g, d)
  BY <1>3 DEF Solves
<1>5. d # <<>> => f[Tail(d)] = g[Tail(d)]
  <2> SUFFICES ASSUME d # <<>>, f[Tail(d)] # g[Tail(d)] PROVE FALSE
    OBVIOUS
  <2>1. /\ Tail(d) \in Seq(Int) /\ Len(Tail(d)) \in Nat
        /\ Len(d) \in Nat \ {0} /\ Len(Tail(d)) = Len(d) - 1
    BY TailShorter
  <2>2. Len(Tail(d)) \in Bad
    <3>1. Len(Tail(d)) <= n
      BY <2>1, <1>3
    <3>2. Tail(d) \in {e \in Seq(Int) : Len(e) <= n /\ f[e] # g[e]}
      BY <2>1, <3>1
    <3> QED BY <3>2
  <2>3. Len(d) <= Len(Tail(d))
    BY <2>2, <1>2, <1>3
  <2> QED BY <2>1, <2>3
<1>6. Step(f, d) = Step(g, d)
  BY <1>5, StepLocal
<1> QED BY <1>3, <1>4, <1>6

\* There is a solution for every length.
LEMMA SolutionsExist == \A n \in Nat : \E f : Solves(f, n)
<1> DEFINE Bad == {n \in Nat : ~ \E f : Solves(f, n)}
<1> SUFFICES ASSUME Bad # {} PROVE FALSE
  OBVIOUS
<1>1. PICK n \in Bad : \A m \in Bad : n <= m
  <2>1. Bad \in SUBSET Nat
    OBVIOUS
  <2> HIDE DEF Bad
  <2> QED BY <2>1, LeastNat
<1>2. n \in Nat /\ ~ \E f : Solves(f, n)
  OBVIOUS
<1>3. CASE n = 0
  <2> DEFINE f == [d \in Seq(Int) |-> 1]
  <2>1. ASSUME NEW d \in Seq(Int), Len(d) <= n PROVE f[d] = Step(f, d)
    <3>1. d = <<>>
      BY <2>1, <1>3, EmptySeq, LenProperties
    <3> QED BY <3>1 DEF Step
  <2>2. Solves(f, n)
    BY <2>1 DEF Solves
  <2> QED BY <2>2, <1>2
<1>4. CASE n # 0
  <2>1. n - 1 \in Nat /\ n - 1 \notin Bad
    BY <1>1, <1>2, <1>4
  <2>2. PICK g : Solves(g, n - 1)
    BY <2>1
  <2> DEFINE f == [d \in Seq(Int) |-> Step(g, d)]
  <2>3. ASSUME NEW d \in Seq(Int), Len(d) <= n PROVE f[d] = Step(f, d)
    <3>1. f[d] = Step(g, d)
      OBVIOUS
    <3>2. d # <<>> => f[Tail(d)] = g[Tail(d)]
      <4> SUFFICES ASSUME d # <<>> PROVE f[Tail(d)] = g[Tail(d)]
        OBVIOUS
      <4>1. /\ Tail(d) \in Seq(Int) /\ Len(Tail(d)) \in Nat
            /\ Len(d) \in Nat \ {0} /\ Len(Tail(d)) = Len(d) - 1
        BY TailShorter
      <4>2. Len(Tail(d)) <= n - 1
        BY <4>1, <2>3, <1>2
      <4>3. g[Tail(d)] = Step(g, Tail(d))
        BY <4>1, <4>2, <2>2 DEF Solves
      <4>4. f[Tail(d)] = Step(g, Tail(d))
        BY <4>1
      <4> QED BY <4>3, <4>4
    <3> HIDE DEF f
    <3>3. Step(f, d) = Step(g, d)
      BY <3>2, StepLocal
    <3> QED BY <3>1, <3>3
  <2>4. Solves(f, n)
    <3> HIDE DEF f
    <3> QED BY <2>3 DEF Solves
  <2> QED BY <2>4, <1>2
<1> QED BY <1>3, <1>4

\* NumElements is what its definition says.
LEMMA NumElementsStep == \A d \in Seq(Int) : NumElements[d] = Step(NumElements, d)
<1> DEFINE Sol(n) == CHOOSE g : Solves(g, n)
           F == [d \in Seq(Int) |-> Sol(Len(d))[d]]
<1>1. \A n \in Nat : Solves(Sol(n), n)
  BY SolutionsExist
<1>2. ASSUME NEW d \in Seq(Int) PROVE F[d] = Step(F, d)
  <2>1. Len(d) \in Nat
    BY LenProperties
  <2> DEFINE g == Sol(Len(d))
  <2>2. Solves(g, Len(d))
    BY <1>1, <2>1
  <2>3. F[d] = g[d]
    OBVIOUS
  <2>4. d # <<>> => F[Tail(d)] = g[Tail(d)]
    <3> SUFFICES ASSUME d # <<>> PROVE F[Tail(d)] = g[Tail(d)]
      OBVIOUS
    <3>1. /\ Tail(d) \in Seq(Int) /\ Len(Tail(d)) \in Nat
          /\ Len(d) \in Nat \ {0} /\ Len(Tail(d)) = Len(d) - 1
      BY TailShorter
    <3> DEFINE h == Sol(Len(Tail(d)))
    <3>2. Solves(h, Len(Tail(d)))
      BY <1>1, <3>1
    <3>3. F[Tail(d)] = h[Tail(d)]
      BY <3>1
    <3> HIDE DEF F, g, h
    <3>4. Solves(g, Len(Tail(d)))
      <4>1. \A m \in Nat : m <= Len(Tail(d)) => m <= Len(d)
        BY <3>1
      <4>2. \A e \in Seq(Int) : Len(e) <= Len(Tail(d)) => Len(e) <= Len(d)
        BY <4>1, LenProperties
      <4> QED BY <2>2, <4>2 DEF Solves
    <3>5. h[Tail(d)] = g[Tail(d)]
      <4>1. \A e \in Seq(Int) : Len(e) <= Len(Tail(d)) => h[e] = g[e]
        BY <3>1, <3>2, <3>4, SolutionsAgree
      <4>2. Len(Tail(d)) <= Len(Tail(d))
        BY <3>1
      <4> QED BY <3>1, <4>1, <4>2
    <3> QED BY <3>3, <3>5
  <2> HIDE DEF F, g
  <2>5. Step(F, d) = Step(g, d)
    BY <2>4, StepLocal
  <2>6. g[d] = Step(g, d)
    BY <2>1, <2>2 DEF Solves
  <2> QED BY <2>3, <2>5, <2>6
<1>3. F = [d \in Seq(Int) |-> Step(F, d)]
  <2>1. F = [d \in Seq(Int) |-> F[d]]
    OBVIOUS
  <2> HIDE DEF F
  <2> QED BY <1>2, <2>1
<1>4. NumElements = CHOOSE f : f = [d \in Seq(Int) |-> Step(f, d)]
  BY DEF NumElements, Step
<1>5. NumElements = [d \in Seq(Int) |-> Step(NumElements, d)]
  <2> HIDE DEF F
  <2> QED BY <1>3, <1>4
<1> QED BY <1>5

\* The elements of a shape without dynamic dimensions are a natural number, one
\* for a scalar.
LEMMA NumElementsNat ==
  /\ NumElements[<<>>] = 1
  /\ \A d \in Seq(Nat) : NumElements[d] \in Nat
<1>1. NumElements[<<>>] = 1
  <2>1. <<>> \in Seq(Int)
    OBVIOUS
  <2> QED BY <2>1, NumElementsStep DEF Step
<1> DEFINE Bad == {Len(d) : d \in {e \in Seq(Nat) : NumElements[e] \notin Nat}}
<1>2. ASSUME Bad # {} PROVE FALSE
  <2>1. Bad \in SUBSET Nat
    BY LenProperties
  <2>2. PICK k \in Bad : \A m \in Bad : k <= m
    <3> HIDE DEF Bad
    <3> QED BY <1>2, <2>1, LeastNat
  <2>3. PICK d \in Seq(Nat) : k = Len(d) /\ NumElements[d] \notin Nat
    BY <2>2
  <2>4. d # <<>>
    BY <2>3, <1>1
  <2>5. /\ Tail(d) \in Seq(Nat) /\ Len(Tail(d)) \in Nat /\ Head(d) \in Nat
        /\ Len(d) \in Nat \ {0} /\ Len(Tail(d)) = Len(d) - 1
    BY <2>4, TailShorter
  <2>6. Len(Tail(d)) \notin Bad
    <3>1. ~ (Len(d) <= Len(Tail(d)))
      BY <2>5
    <3> HIDE DEF Bad
    <3> QED BY <2>2, <2>3, <3>1
  <2>7. NumElements[Tail(d)] \in Nat
    BY <2>5, <2>6
  <2>8. d \in Seq(Int)
    OBVIOUS
  <2>9. NumElements[d] = Head(d) * NumElements[Tail(d)]
    BY <2>4, <2>8, NumElementsStep DEF Step
  <2>10. \A x, y \in Nat : x * y \in Nat
    OBVIOUS
  <2>11. NumElements[d] \in Nat
    BY <2>5, <2>7, <2>9, <2>10
  <2> QED BY <2>3, <2>11
<1> QED BY <1>1, <1>2

-------------------------------------------------------------------------------
(* The switches over element types.                                          *)

\* What the switches say of the types the plugin knows: one width everywhere, and
\* each way back from the compiler's type is a known type of that width.
LEMMA KnownTypes ==
  ASSUME NEW t \in Known
  PROVE  LET e == GetElementType(t, FALSE) IN
         /\ OnnxElementTypeSize(t) \in 1 .. 8
         /\ OrtWidth[t] = OnnxElementTypeSize(t) /\ t # "INT4"
         /\ e # NoType
         /\ OnnxToIreeElementType(t) # NoType
         /\ OnnxToIreeElementType(t) \in HalFor(e)
         /\ OnnxToIreeElementType(t).bits \div 8 = OnnxElementTypeSize(t)
         /\ \A h \in HalFor(e) :
              /\ IreeToOnnxElementType(h) # "UNDEFINED"
              /\ h.bits \div 8 = OnnxElementTypeSize(t)
<1> USE DEF GetElementType, OnnxElementTypeSize, TwoByteTypes, OrtWidth, NoType, Hal,
      OnnxToIreeElementType, HalTypes, HalFor, IreeToOnnxElementType, MlirInt
<1>1. CASE t = "FLOAT"
  BY <1>1
<1>2. CASE t = "DOUBLE"
  BY <1>2
<1>3. CASE t = "FLOAT16"
  BY <1>3
<1>4. CASE t = "BFLOAT16"
  BY <1>4
<1>5. CASE t = "INT8"
  BY <1>5
<1>6. CASE t = "INT16"
  BY <1>6
<1>7. CASE t = "INT32"
  BY <1>7
<1>8. CASE t = "INT64"
  BY <1>8
<1>9. CASE t = "UINT8"
  BY <1>9
<1>10. CASE t = "UINT16"
  BY <1>10
<1>11. CASE t = "UINT32"
  BY <1>11
<1>12. CASE t = "UINT64"
  BY <1>12
<1>13. CASE t = "BOOL"
  BY <1>13
<1> HIDE DEF GetElementType, OnnxElementTypeSize, TwoByteTypes, OrtWidth, NoType, Hal,
      OnnxToIreeElementType, HalTypes, HalFor, IreeToOnnxElementType, MlirInt
<1> QED
  BY <1>1, <1>2, <1>3, <1>4, <1>5, <1>6, <1>7, <1>8, <1>9, <1>10, <1>11, <1>12,
     <1>13 DEF Known

\* The types it does not know have no size and no MLIR type.
LEMMA UnknownTypes ==
  ASSUME NEW t \in Unknown
  PROVE  /\ OnnxElementTypeSize(t) = 0 /\ GetElementType(t, FALSE) = NoType
         /\ GetElementType(t, TRUE) = NoType
BY DEF Unknown, OnnxElementTypeSize, TwoByteTypes, GetElementType

\* The cast of a constant: the signless type has the width of the signed one and
\* its kind but for the sign.
LEMMA SignlessTypes ==
  ASSUME NEW t \in Known
  PROVE  LET v == GetElementType(t, FALSE)
             b == GetElementType(t, TRUE)
         IN /\ b.bits = v.bits
            /\ b.kind = IF v.kind \in {"si", "ui"} THEN "i" ELSE v.kind
BY DEF Known, GetElementType, MlirInt, Hal

-------------------------------------------------------------------------------
(* Tensors and their sizes.                                                  *)

\* A tensor of a type the plugin knows.
Usable(t) == t.onnx = "TENSOR" /\ t.dtype \in Known

\* What Generate writes for a tensor.
Written(t) ==
  [vtensor |-> FormatType(t, FALSE),
   builtin |-> IF t.role = "initializer" THEN FormatType(t, TRUE) ELSE NoTensorType,
   inlined |-> IF t.role = "initializer" /\ Inlines(t)
               THEN OrtBytes(t.dtype, t.dims) ELSE 0]

\* A tensor has a role, a type and a shape of the graph.
LEMMA TensorFields ==
  ASSUME NEW t \in Tensors
  PROVE  /\ t.dims \in Shapes /\ t.dims \in Seq(Int)
         /\ t.role \in Roles /\ t.dtype \in Known \cup Unknown
         /\ t.onnx \in {"TENSOR", "SEQUENCE"}
         /\ t.role = "initializer" => t.onnx = "TENSOR" /\ t.dims \in Seq(Nat)
<1>1. /\ t.dims \in Shapes /\ t.role \in Roles /\ t.dtype \in Known \cup Unknown
      /\ t.onnx \in {"TENSOR", "SEQUENCE"}
      /\ t.role = "initializer" => t.onnx = "TENSOR" /\ Static(t.dims)
  BY DEF Tensors
<1>2. t.dims \in Seq(Nat \cup {-1})
  BY <1>1, ShapesAssumption
<1>3. DOMAIN t.dims = 1 .. Len(t.dims) /\ Len(t.dims) \in Nat
      /\ \A k \in DOMAIN t.dims : t.dims[k] \in Nat \cup {-1}
  BY <1>2, LenProperties, ElementOfSeq
<1>4. t.dims \in Seq(Int)
  BY <1>2
<1>5. Static(t.dims) => t.dims \in Seq(Nat)
  <2> SUFFICES ASSUME Static(t.dims) PROVE t.dims \in Seq(Nat)
    OBVIOUS
  <2>1. \A k \in DOMAIN t.dims : t.dims[k] \in Nat
    BY <1>3 DEF Static
  <2>2. t.dims = [k \in 1 .. Len(t.dims) |-> t.dims[k]]
    BY <1>2, <1>3
  <2> QED BY <1>3, <2>1, <2>2
<1> QED BY <1>1, <1>4, <1>5

\* The shapes of a call are sequences of natural numbers.
LEMMA CallShapes ==
  ASSUME NEW s \in Shapes, NEW d \in Dims(s)
  PROVE  d \in Seq(Nat)
<1>1. s \in Seq(Nat \cup {-1})
  BY ShapesAssumption
<1>2. DOMAIN s = 1 .. Len(s) /\ Len(s) \in Nat
      /\ \A k \in DOMAIN s : s[k] \in Nat \cup {-1}
  BY <1>1, LenProperties, ElementOfSeq
<1>3. DOMAIN d = DOMAIN s /\ d = [k \in DOMAIN s |-> d[k]]
  BY DEF Dims
<1>4. ASSUME NEW k \in DOMAIN s PROVE d[k] \in Nat
  <2>1. IF s[k] < 0 THEN d[k] \in DynamicSizes ELSE d[k] = s[k]
    BY DEF Dims
  <2>2. s[k] \in Nat \cup {-1}
    BY <1>2
  <2>3. CASE s[k] < 0
    BY <2>1, <2>3, ShapesAssumption
  <2>4. CASE ~ (s[k] < 0)
    <3>1. s[k] \in Nat
      BY <2>2, <2>4
    <3> QED BY <2>1, <2>4, <3>1
  <2> QED BY <2>3, <2>4
<1>5. d = [k \in 1 .. Len(s) |-> d[k]]
  BY <1>2, <1>3
<1> QED BY <1>2, <1>4, <1>5

\* Sequences of natural numbers have no dynamic dimension.
LEMMA NatIsStatic == \A d \in Seq(Nat) : Static(d)
<1> SUFFICES ASSUME NEW d \in Seq(Nat), NEW k \in DOMAIN d PROVE d[k] >= 0
  BY DEF Static
<1>1. d[k] \in Nat
  BY LenProperties, ElementOfSeq
<1> QED BY <1>1

\* For a type the plugin knows the three ways to compute a size agree: by ONNX
\* type, by the width of a HAL type that may stand for it, and of ORT's tensor.
LEMMA SizesAgree ==
  ASSUME NEW t \in Known, NEW d \in Seq(Nat)
  PROVE  LET n == NumElements[d] * OnnxElementTypeSize(t) IN
         /\ n \in Nat
         /\ CalculateTensorByteSize(d, t) = n
         /\ OrtBytes(t, d) = n
         /\ \A h \in HalFor(GetElementType(t, FALSE)) : ViewBytes(h, d) = n
<1>1. /\ OnnxElementTypeSize(t) \in Nat
      /\ OrtWidth[t] = OnnxElementTypeSize(t) /\ t # "INT4"
      /\ \A h \in HalFor(GetElementType(t, FALSE)) :
           h.bits \div 8 = OnnxElementTypeSize(t)
  <2>1. OnnxElementTypeSize(t) \in 1 .. 8
    BY KnownTypes
  <2>2. OnnxElementTypeSize(t) \in Nat
    BY <2>1
  <2>3. OrtWidth[t] = OnnxElementTypeSize(t) /\ t # "INT4"
    BY KnownTypes
  <2>4. \A h \in HalFor(GetElementType(t, FALSE)) :
          h.bits \div 8 = OnnxElementTypeSize(t)
    BY KnownTypes
  <2> QED BY <2>2, <2>3, <2>4
<1>2. NumElements[d] \in Nat
  BY NumElementsNat
<1>3. \A x, y \in Nat : x * y \in Nat
  OBVIOUS
<1>4. NumElements[d] * OnnxElementTypeSize(t) \in Nat
  BY <1>1, <1>2, <1>3
<1>5. CalculateTensorByteSize(d, t) = NumElements[d] * OnnxElementTypeSize(t)
  <2>1. CASE d = <<>>
    <3>1. NumElements[d] = 1
      BY <2>1, NumElementsNat
    <3> QED BY <2>1, <3>1, <1>1 DEF CalculateTensorByteSize
  <2>2. CASE d # <<>>
    BY <2>2 DEF CalculateTensorByteSize
  <2> QED BY <2>1, <2>2
<1>6. OrtBytes(t, d) = NumElements[d] * OnnxElementTypeSize(t)
  BY <1>1 DEF OrtBytes
<1>7. \A h \in HalFor(GetElementType(t, FALSE)) :
        ViewBytes(h, d) = NumElements[d] * OnnxElementTypeSize(t)
  BY <1>1 DEF ViewBytes
<1> QED BY <1>4, <1>5, <1>6, <1>7

\* Both types of a tensor have its shape.
LEMMA FormattedTensor ==
  ASSUME NEW t, t.onnx = "TENSOR", NEW signless
  PROVE  /\ FormatType(t, signless).element = GetElementType(t.dtype, signless)
         /\ FormatType(t, signless).dims = FormatType(t, FALSE).dims
<1> DEFINE D == [k \in DOMAIN t.dims |-> IF t.dims[k] < 0 THEN -1 ELSE t.dims[k]]
<1>1. FormatType(t, signless)
        = [dims |-> D, element |-> GetElementType(t.dtype, signless)]
  BY DEF FormatType
<1>2. FormatType(t, FALSE)
        = [dims |-> D, element |-> GetElementType(t.dtype, FALSE)]
  BY DEF FormatType
<1> HIDE DEF D
<1>3. FormatType(t, signless).element = GetElementType(t.dtype, signless)
  BY <1>1
<1>4. \A e : [dims |-> D, element |-> e].dims = D
  OBVIOUS
<1>5. FormatType(t, signless).dims = D
  BY <1>1, <1>4, Zenon
<1>6. FormatType(t, FALSE).dims = D
  BY <1>2, <1>4, Zenon
<1> QED BY <1>3, <1>5, <1>6

\* The compiler accepts the types of the usable tensors and no others.
LEMMA WrittenWellTyped ==
  ASSUME NEW t \in Tensors, tensor = t, emitted = Written(t)
  PROVE  WellTyped <=> Usable(t)
<1>0. /\ t.dtype \in Known \cup Unknown /\ t.onnx \in {"TENSOR", "SEQUENCE"}
      /\ t.role = "initializer" => t.onnx = "TENSOR"
  BY TensorFields
<1>1. emitted.vtensor = FormatType(t, FALSE)
      /\ (t.role = "initializer" => emitted.builtin = FormatType(t, TRUE))
  BY DEF Written
<1>2. CASE t.onnx # "TENSOR"
  <2>1. emitted.vtensor.element = NoType
    BY <1>1, <1>2 DEF FormatType, NoTensorType
  <2> QED BY <2>1, <1>2 DEF WellTyped, Usable
<1>3. CASE t.onnx = "TENSOR" /\ t.dtype \in Unknown
  <2>1. emitted.vtensor.element = NoType
    BY <1>1, <1>3, UnknownTypes, FormattedTensor
  <2>2. t.dtype \notin Known
    BY <1>3 DEF Known, Unknown
  <2> QED BY <2>1, <2>2 DEF WellTyped, Usable
<1>4. CASE t.onnx = "TENSOR" /\ t.dtype \in Known
  <2>1. /\ emitted.vtensor.element = GetElementType(t.dtype, FALSE)
        /\ emitted.vtensor.element # NoType
    BY <1>1, <1>4, KnownTypes, FormattedTensor
  <2>2. t.role = "initializer" =>
          /\ emitted.builtin.element = GetElementType(t.dtype, TRUE)
          /\ emitted.builtin.dims = emitted.vtensor.dims
    BY <1>1, <1>4, FormattedTensor
  <2>3. t.role = "initializer" => CastOk(emitted.builtin, emitted.vtensor)
    BY <1>4, <2>1, <2>2, SignlessTypes DEF CastOk
  <2> QED BY <1>4, <2>1, <2>3 DEF WellTyped, Usable
<1> QED BY <1>0, <1>2, <1>3, <1>4

\* The types with a size are those the plugin knows.
LEMMA SizedAreKnown ==
  ASSUME NEW t \in Tensors
  PROVE  Usable(t) <=> t.onnx = "TENSOR" /\ OnnxElementTypeSize(t.dtype) > 0
<1>1. t.dtype \in Known \cup Unknown
  BY TensorFields
<1>2. CASE t.dtype \in Known
  <2>1. OnnxElementTypeSize(t.dtype) \in 1 .. 8
    BY <1>2, KnownTypes
  <2>2. OnnxElementTypeSize(t.dtype) > 0
    BY <2>1
  <2> QED BY <1>2, <2>2 DEF Usable
<1>3. CASE t.dtype \in Unknown
  <2>1. OnnxElementTypeSize(t.dtype) = 0
    BY <1>3, UnknownTypes
  <2>2. t.dtype \notin Known
    BY <1>3 DEF Known, Unknown
  <2> QED BY <2>1, <2>2 DEF Usable
<1> QED BY <1>1, <1>2, <1>3

-------------------------------------------------------------------------------
(* The invariant.                                                            *)

Calling == {"compiled", "fed", "viewed", "returned", "produced"}

\* The shapes of a call are static, and the three numbers of a copy are one.
Sizes ==
  /\ value \in [dims : Seq(Nat), place : {"host", "device"}]
  /\ view.dims \in Seq(Nat)
  /\ \E n \in Nat : transfer = [bytes |-> n, from |-> n, to |-> n]

\* What was written is what Generate writes, only usable tensors come to be
\* called, and a view has a type the program may use for the tensor.
Types ==
  /\ tensor \in Tensors
  /\ stage \in {"declared", "generated", "rejected"} \cup Calling
  /\ stage # "declared" => emitted = Written(tensor)
  /\ stage \in Calling => Usable(tensor)
  /\ stage \in {"viewed", "returned"} =>
       view.type \in HalFor(GetElementType(tensor.dtype, FALSE))

\* The inductive invariant.
Inv == Sizes /\ Types

\* It holds initially.
LEMMA InitInv == Init => Inv
<1> SUFFICES ASSUME Init PROVE Inv
  OBVIOUS
<1>1. Sizes
  <2>1. <<>> \in Seq(Nat)
    OBVIOUS
  <2>2. value \in [dims : Seq(Nat), place : {"host", "device"}]
    BY <2>1 DEF Init, NoValue
  <2>3. view.dims \in Seq(Nat)
    BY <2>1 DEF Init, NoView
  <2>4. transfer = [bytes |-> 0, from |-> 0, to |-> 0]
    BY DEF Init, NoTransfer
  <2> QED BY <2>2, <2>3, <2>4 DEF Sizes
<1>2. Types
  BY DEF Init, Types, Calling
<1> QED BY <1>1, <1>2 DEF Inv

\* The three sizes of a copy of a usable tensor are equal.
LEMMA CopyFits ==
  ASSUME NEW t \in Known, NEW d \in Seq(Nat), NEW b, NEW f, NEW u,
         b = NumElements[d] * OnnxElementTypeSize(t), f = b, u = b
  PROVE  \E n \in Nat : [bytes |-> b, from |-> f, to |-> u]
                          = [bytes |-> n, from |-> n, to |-> n]
<1>1. b \in Nat
  BY SizesAgree
<1> QED BY <1>1

\* Each action keeps it.  Generate writes Written(tensor).
LEMMA GenerateInv == Inv /\ Generate => Inv'
<1> SUFFICES ASSUME Inv, Generate PROVE Inv'
  OBVIOUS
<1>1. Sizes'
  BY DEF Inv, Sizes, Generate
<1>2. emitted' = Written(tensor)
  BY DEF Generate, Written
<1>3. stage' = "generated" /\ tensor' = tensor
  BY DEF Generate
<1>4. Types'
  BY <1>2, <1>3 DEF Inv, Types, Calling
<1> QED BY <1>1, <1>4 DEF Inv

\* Only a usable tensor compiles.
LEMMA CompileModuleInv ==
  ASSUME NEW accept \in BOOLEAN, Inv, CompileModule(accept)
  PROVE  Inv'
<1>1. Sizes'
  BY DEF Inv, Sizes, CompileModule
<1>2. /\ stage = "generated" /\ stage' \in {"compiled", "rejected"}
      /\ stage' = "compiled" => WellTyped
      /\ UNCHANGED <<tensor, emitted, view>>
  BY DEF CompileModule
<1>3. tensor \in Tensors /\ emitted = Written(tensor)
  BY <1>2 DEF Inv, Types
<1>4. stage' = "compiled" => Usable(tensor)
  BY <1>2, <1>3, WrittenWellTyped
<1>5. Types'
  BY <1>2, <1>3, <1>4 DEF Inv, Types, Calling
<1> QED BY <1>1, <1>5 DEF Inv

\* The shape ORT feeds is static.
LEMMA FeedInv ==
  ASSUME NEW d \in Dims(tensor.dims), Inv, Feed(d)
  PROVE  Inv'
<1>1. d \in Seq(Nat)
  BY TensorFields, CallShapes DEF Inv, Types
<1>2. Sizes'
  BY <1>1 DEF Inv, Sizes, Feed
<1>3. Types'
  BY DEF Inv, Types, Calling, Feed
<1> QED BY <1>2, <1>3 DEF Inv

\* The tensor is usable, so its type has a size and the copy is not refused.
LEMMA CopyTensorsInv ==
  ASSUME Inv, CopyTensors
  PROVE  Inv'
<1>1. /\ stage \in {"fed", "produced"} /\ UNCHANGED <<tensor, emitted, view>>
  BY DEF CopyTensors
<1>2. tensor.dtype \in Known
  BY <1>1 DEF Inv, Types, Calling, Usable
<1>3. OnnxElementTypeSize(tensor.dtype) # 0
  <2>1. OnnxElementTypeSize(tensor.dtype) \in 1 .. 8
    BY <1>2, KnownTypes
  <2> QED BY <2>1
<1>4. /\ transfer' = Copied(NumElements[value.dims]
                              * OnnxElementTypeSize(tensor.dtype))
      /\ value' = [value EXCEPT !.place = IF @ = "host" THEN "device" ELSE "host"]
      /\ stage' = stage
  BY <1>3 DEF CopyTensors
<1>5. value \in [dims : Seq(Nat), place : {"host", "device"}] /\ value.dims \in Seq(Nat)
  BY DEF Inv, Sizes
<1>6. \E n \in Nat : transfer' = [bytes |-> n, from |-> n, to |-> n]
  <2>1. OrtBytes(tensor.dtype, value.dims)
          = NumElements[value.dims] * OnnxElementTypeSize(tensor.dtype)
    BY <1>2, <1>5, SizesAgree
  <2> QED BY <1>2, <1>4, <1>5, <2>1, CopyFits DEF Copied
<1>7. value' \in [dims : Seq(Nat), place : {"host", "device"}]
  BY <1>4, <1>5
<1>8. Sizes'
  BY <1>1, <1>6, <1>7 DEF Inv, Sizes
<1>9. Types'
  BY <1>1, <1>4 DEF Inv, Types, Calling
<1> QED BY <1>8, <1>9 DEF Inv

\* The view has a type the program takes, and the bytes copied fill it.
LEMMA OrtTensorToIreeBufferViewInv ==
  ASSUME Inv, OrtTensorToIreeBufferView
  PROVE  Inv'
<1> DEFINE type == OnnxToIreeElementType(tensor.dtype)
<1>1. stage = "fed" /\ UNCHANGED <<tensor, emitted, value>>
  BY DEF OrtTensorToIreeBufferView
<1>2. tensor.dtype \in Known
  BY <1>1 DEF Inv, Types, Calling, Usable
<1>3. type # NoType /\ type \in HalFor(GetElementType(tensor.dtype, FALSE))
  BY <1>2, KnownTypes
<1>4. /\ view' = [type |-> type, dims |-> value.dims]
      /\ transfer' =
           IF value.place = "device" THEN transfer
           ELSE [bytes |-> CalculateTensorByteSize(value.dims, tensor.dtype),
                 from |-> OrtBytes(tensor.dtype, value.dims),
                 to |-> ViewBytes(type, value.dims)]
      /\ stage' = "viewed"
  BY <1>3 DEF OrtTensorToIreeBufferView
<1> HIDE DEF type
<1>5. value \in [dims : Seq(Nat), place : {"host", "device"}] /\ value.dims \in Seq(Nat)
  BY DEF Inv, Sizes
<1>6. \E n \in Nat : transfer' = [bytes |-> n, from |-> n, to |-> n]
  <2>1. CASE value.place = "device"
    BY <2>1, <1>4 DEF Inv, Sizes
  <2>2. CASE value.place # "device"
    <3> DEFINE n == NumElements[value.dims] * OnnxElementTypeSize(tensor.dtype)
    <3>1. /\ CalculateTensorByteSize(value.dims, tensor.dtype) = n
          /\ OrtBytes(tensor.dtype, value.dims) = n
          /\ ViewBytes(type, value.dims) = n
      BY <1>2, <1>3, <1>5, SizesAgree
    <3>2. n \in Nat
      BY <1>2, <1>5, SizesAgree
    <3> HIDE DEF n
    <3> QED BY <1>4, <2>2, <3>1, <3>2
  <2> QED BY <2>1, <2>2
<1>7. view'.dims \in Seq(Nat) /\ view'.type = type
  BY <1>4, <1>5
<1>8. Sizes'
  BY <1>1, <1>5, <1>6, <1>7 DEF Sizes
<1>9. Types'
  BY <1>1, <1>3, <1>4, <1>7 DEF Inv, Types, Calling
<1> QED BY <1>8, <1>9 DEF Inv

\* The program finds the type it expects.
LEMMA InvokeInv ==
  ASSUME Inv, Invoke
  PROVE  Inv'
<1>1. stage = "viewed" /\ UNCHANGED <<tensor, emitted, value, view, transfer>>
  BY DEF Invoke
<1>2. /\ view.type \in HalFor(GetElementType(tensor.dtype, FALSE))
      /\ Usable(tensor) /\ emitted = Written(tensor)
  BY <1>1 DEF Inv, Types, Calling
<1>3. emitted.vtensor.element = GetElementType(tensor.dtype, FALSE)
  <2>1. emitted.vtensor = FormatType(tensor, FALSE)
    BY <1>2 DEF Written
  <2> QED BY <1>2, <2>1, FormattedTensor DEF Usable
<1>4. stage' = "compiled"
  BY <1>2, <1>3 DEF Invoke
<1>5. Sizes'
  BY <1>1 DEF Inv, Sizes
<1>6. Types'
  BY <1>1, <1>4 DEF Inv, Types, Calling
<1> QED BY <1>5, <1>6 DEF Inv

\* The program returns one of the types that stand for the declared one.
LEMMA ReturnInv ==
  ASSUME NEW d \in Dims(tensor.dims), Inv, Return(d)
  PROVE  Inv'
<1>1. d \in Seq(Nat)
  BY TensorFields, CallShapes DEF Inv, Types
<1>2. stage = "compiled" /\ stage' = "returned"
      /\ UNCHANGED <<tensor, emitted, value, transfer>>
  BY DEF Return
<1>3. Usable(tensor) /\ emitted = Written(tensor)
  BY <1>2 DEF Inv, Types, Calling
<1>4. emitted.vtensor.element = GetElementType(tensor.dtype, FALSE)
  <2>1. emitted.vtensor = FormatType(tensor, FALSE)
    BY <1>3 DEF Written
  <2> QED BY <1>3, <2>1, FormattedTensor DEF Usable
<1>5. PICK h \in HalFor(emitted.vtensor.element) : view' = [type |-> h, dims |-> d]
  BY DEF Return
<1>6. /\ view'.dims \in Seq(Nat)
      /\ view'.type \in HalFor(GetElementType(tensor.dtype, FALSE))
  BY <1>1, <1>4, <1>5
<1>7. Sizes'
  BY <1>2, <1>6 DEF Inv, Sizes
<1>8. Types'
  BY <1>2, <1>6 DEF Inv, Types, Calling
<1> QED BY <1>7, <1>8 DEF Inv

\* That type is known on the way back, and ORT's tensor has the view's size.
LEMMA OutputInv ==
  ASSUME NEW place \in {"host", "device"}, Inv, Output(place)
  PROVE  Inv'
<1>1. stage = "returned" /\ UNCHANGED <<tensor, emitted, view>>
  BY DEF Output
<1>2. /\ view.type \in HalFor(GetElementType(tensor.dtype, FALSE))
      /\ tensor.dtype \in Known
  BY <1>1 DEF Inv, Types, Calling, Usable
<1>3. IreeToOnnxElementType(view.type) # "UNDEFINED"
  BY <1>2, KnownTypes
<1>4. /\ value' = [dims |-> view.dims, place |-> place]
      /\ transfer' = [bytes |-> ViewBytes(view.type, view.dims),
                      from |-> ViewBytes(view.type, view.dims),
                      to |-> OrtBytes(tensor.dtype, view.dims)]
      /\ stage' = "produced"
  BY <1>3 DEF Output, OutputShape
<1>5. view.dims \in Seq(Nat)
  BY DEF Inv, Sizes
<1>6. \E n \in Nat : transfer' = [bytes |-> n, from |-> n, to |-> n]
  <2> DEFINE n == NumElements[view.dims] * OnnxElementTypeSize(tensor.dtype)
  <2>1. /\ OrtBytes(tensor.dtype, view.dims) = n
        /\ ViewBytes(view.type, view.dims) = n
    BY <1>2, <1>5, SizesAgree
  <2>2. n \in Nat
    BY <1>2, <1>5, SizesAgree
  <2> HIDE DEF n
  <2> QED BY <1>4, <2>1, <2>2
<1>7. Sizes'
  BY <1>1, <1>4, <1>5, <1>6 DEF Sizes
<1>8. Types'
  BY <1>1, <1>4 DEF Inv, Types, Calling
<1> QED BY <1>7, <1>8 DEF Inv

\* The last copy stays as it was.
LEMMA EndCallInv ==
  ASSUME Inv, EndCall
  PROVE  Inv'
<1>1. Sizes'
  BY DEF Inv, Sizes, EndCall
<1>2. Types'
  BY DEF Inv, Types, Calling, EndCall
<1> QED BY <1>1, <1>2 DEF Inv

\* The invariant holds in every state.
THEOREM TensorInductive == Spec => []Inv
<1>1. ASSUME Inv, [Next]_vars PROVE Inv'
  <2>1. CASE Generate
    BY <1>1, <2>1, GenerateInv
  <2>2. ASSUME NEW accept \in BOOLEAN, CompileModule(accept) PROVE Inv'
    BY <1>1, <2>2, CompileModuleInv
  <2>3. ASSUME NEW d \in Dims(tensor.dims), Feed(d) PROVE Inv'
    BY <1>1, <2>3, FeedInv
  <2>4. ASSUME NEW d \in Dims(tensor.dims), Return(d) PROVE Inv'
    BY <1>1, <2>4, ReturnInv
  <2>5. CASE CopyTensors
    BY <1>1, <2>5, CopyTensorsInv
  <2>6. CASE OrtTensorToIreeBufferView
    BY <1>1, <2>6, OrtTensorToIreeBufferViewInv
  <2>7. CASE Invoke
    BY <1>1, <2>7, InvokeInv
  <2>8. ASSUME NEW place \in {"host", "device"}, Output(place) PROVE Inv'
    BY <1>1, <2>8, OutputInv
  <2>9. CASE EndCall
    BY <1>1, <2>9, EndCallInv
  <2>10. CASE UNCHANGED vars
    BY <1>1, <2>10 DEF Inv, Sizes, Types, vars
  <2> QED
    BY <1>1, <2>1, <2>2, <2>3, <2>4, <2>5, <2>6, <2>7, <2>8, <2>9, <2>10 DEF Next
<1> QED BY <1>1, InitInv, PTL DEF Spec

-------------------------------------------------------------------------------
(* The theorems.                                                             *)

\* The state has its type: shapes of values and views have no dynamic dimension,
\* and lengths of copies are natural numbers.
THEOREM TensorTypeCorrect == Spec => []TypeOK
<1>1. Inv => TypeOK
  <2> SUFFICES ASSUME Inv PROVE TypeOK
    OBVIOUS
  <2>1. value.dims \in Seq(Nat) /\ value.place \in {"host", "device"}
        /\ view.dims \in Seq(Nat)
    BY DEF Inv, Sizes
  <2>2. Static(value.dims) /\ Static(view.dims)
    BY <2>1, NatIsStatic
  <2>3. transfer \in [bytes : Nat, from : Nat, to : Nat]
    BY DEF Inv, Sizes
  <2> QED BY <2>1, <2>2, <2>3 DEF TypeOK, Inv, Types, Calling
<1> QED BY <1>1, TensorInductive, PTL

\* No call of a graph that compiled fails for an element type, whatever the shapes
\* and whichever sign the program returns.
THEOREM CallsNeverRefused == Spec => []NeverRefused
<1>1. Inv => NeverRefused
  BY DEF Inv, Types, Calling, NeverRefused
<1> QED BY <1>1, TensorInductive, PTL

\* Every copy has the length of what it reads and of what it fills, for every
\* shape and element type.
THEOREM CopiesFit == Spec => []TransfersFit
<1>1. Inv => TransfersFit
  BY DEF Inv, Sizes, TransfersFit
<1> QED BY <1>1, TensorInductive, PTL

\* The compiler accepts the types of exactly the tensors whose type has a size.
THEOREM SizedTypesAccepted == Spec => []SupportedAccepted
<1>1. Inv => SupportedAccepted
  <2> SUFFICES ASSUME Inv, stage = "generated"
               PROVE  WellTyped <=> tensor.onnx = "TENSOR"
                                    /\ OnnxElementTypeSize(tensor.dtype) > 0
    BY DEF SupportedAccepted
  <2>1. tensor \in Tensors /\ emitted = Written(tensor)
    BY DEF Inv, Types
  <2> QED BY <2>1, WrittenWellTyped, SizedAreKnown
<1> QED BY <1>1, TensorInductive, PTL

\* The text of a module that compiles holds at most kMaxInlineInitializerSize bytes
\* of an initializer.
THEOREM InlineDataIsSmall == Spec => []InlineStaysSmall
<1>1. Inv => InlineStaysSmall
  <2> SUFFICES ASSUME Inv, stage \in Calling
               PROVE  emitted.inlined <= kMaxInlineInitializerSize
    BY DEF Inv, Types, InlineStaysSmall
  <2>1. tensor \in Tensors /\ emitted = Written(tensor) /\ tensor.dtype \in Known
    BY DEF Inv, Types, Usable, Calling
  <2>2. CASE tensor.role = "initializer" /\ Inlines(tensor)
    <3>1. tensor.dims \in Seq(Nat)
      BY <2>1, <2>2, TensorFields
    <3>2. OrtBytes(tensor.dtype, tensor.dims)
            = NumElements[tensor.dims] * OnnxElementTypeSize(tensor.dtype)
      BY <2>1, <3>1, SizesAgree
    <3>3. emitted.inlined = OrtBytes(tensor.dtype, tensor.dims)
      BY <2>1, <2>2 DEF Written
    <3> QED BY <2>2, <3>2, <3>3 DEF Inlines
  <2>3. CASE ~ (tensor.role = "initializer" /\ Inlines(tensor))
    <3>1. emitted.inlined = 0
      BY <2>1, <2>3 DEF Written
    <3> QED BY <3>1 DEF kMaxInlineInitializerSize
  <2> QED BY <2>2, <2>3
<1> QED BY <1>1, TensorInductive, PTL
===============================================================================
