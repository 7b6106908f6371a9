------------------------------ MODULE TensorTypes ------------------------------
(***************************************************************************)
(* One tensor of a graph on its way through the plugin: the types the MLIR   *)
(* generator writes for it, the checks of its element type, and the bytes    *)
(* that are copied.  Five switches of the code list element types; they were *)
(* written apart and must agree.  The compiler, the program it makes and     *)
(* ORT's tensors are the environment.                                        *)
(***************************************************************************)
EXTENDS Integers, Sequences

CONSTANTS
  Shapes,        \* shapes a graph declares, -1 for a dynamic dimension
  DynamicSizes   \* bound: values of a dynamic dimension

ASSUME ShapesAssumption ==
  /\ \A s \in Shapes : s \in Seq(Nat \cup {-1})
  /\ DynamicSizes \subseteq Nat

kMaxInlineInitializerSize == 256

\* ONNX element types: those the plugin knows and some that it does not.
Known == {"FLOAT", "DOUBLE", "FLOAT16", "BFLOAT16", "INT8", "INT16", "INT32",
          "INT64", "UINT8", "UINT16", "UINT32", "UINT64", "BOOL"}
Unknown == {"STRING", "COMPLEX64", "INT4"}

-------------------------------------------------------------------------------
(* The switches.  An IREE or MLIR type is a kind of number and its bits.     *)

Hal(kind, bits) == [kind |-> kind, bits |-> bits]
NoType == Hal("none", 0)

HalTypes ==
  [FLOAT |-> Hal("float", 32), DOUBLE |-> Hal("float", 64),
   FLOAT16 |-> Hal("float", 16), BFLOAT16 |-> Hal("bfloat", 16),
   INT8 |-> Hal("sint", 8), INT16 |-> Hal("sint", 16),
   INT32 |-> Hal("sint", 32), INT64 |-> Hal("sint", 64),
   UINT8 |-> Hal("uint", 8), UINT16 |-> Hal("uint", 16),
   UINT32 |-> Hal("uint", 32), UINT64 |-> Hal("uint", 64),
   BOOL |-> Hal("bool", 8)]

OnnxToIreeElementType(dtype) ==
  IF dtype \in DOMAIN HalTypes THEN HalTypes[dtype] ELSE NoType

\* Mutant: without the cases of the signless integers.
IreeToOnnxElementType_SignedOnly(h) ==
  IF \E t \in DOMAIN HalTypes : HalTypes[t] = h
  THEN CHOOSE t \in DOMAIN HalTypes : HalTypes[t] = h ELSE "UNDEFINED"

\* A signless integer is taken for a signed one.
IreeToOnnxElementType(h) ==
  LET int == h.kind \in {"int", "sint"} IN
  CASE h = Hal("float", 32) -> "FLOAT"     [] h = Hal("float", 64) -> "DOUBLE"
    [] h = Hal("float", 16) -> "FLOAT16"   [] h = Hal("bfloat", 16) -> "BFLOAT16"
    [] int /\ h.bits = 8  -> "INT8"        [] int /\ h.bits = 16 -> "INT16"
    [] int /\ h.bits = 32 -> "INT32"       [] int /\ h.bits = 64 -> "INT64"
    [] h = Hal("uint", 8)  -> "UINT8"      [] h = Hal("uint", 16) -> "UINT16"
    [] h = Hal("uint", 32) -> "UINT32"     [] h = Hal("uint", 64) -> "UINT64"
    [] h = Hal("bool", 8) -> "BOOL"
    [] OTHER -> "UNDEFINED"

\* Mutant: BFLOAT16 is not listed.
TwoByteTypes_NoBfloat16 == {"FLOAT16", "INT16", "UINT16"}

TwoByteTypes == {"FLOAT16", "BFLOAT16", "INT16", "UINT16"}

OnnxElementTypeSize(dtype) ==
  CASE dtype \in {"BOOL", "INT8", "UINT8"} -> 1
    [] dtype \in TwoByteTypes -> 2
    [] dtype \in {"FLOAT", "INT32", "UINT32"} -> 4
    [] dtype \in {"DOUBLE", "INT64", "UINT64"} -> 8
    [] OTHER -> 0

\* Mutant: an unsigned type keeps its sign in the builtin tensor type.
MlirInt_KeepsUnsigned(sign, bits, signless) ==
  Hal(IF signless /\ sign = "si" THEN "i" ELSE sign, bits)

MlirInt(sign, bits, signless) == Hal(IF signless THEN "i" ELSE sign, bits)

\* The MLIR element type; NoType is the text NYI.
GetElementType(dtype, signless) ==
  LET int(sign, bits) == MlirInt(sign, bits, signless) IN
  CASE dtype = "FLOAT" -> Hal("f", 32)   [] dtype = "DOUBLE" -> Hal("f", 64)
    [] dtype = "FLOAT16" -> Hal("f", 16) [] dtype = "BFLOAT16" -> Hal("bf", 16)
    [] dtype = "INT8" -> int("si", 8)    [] dtype = "INT16" -> int("si", 16)
    [] dtype = "INT32" -> int("si", 32)  [] dtype = "INT64" -> int("si", 64)
    [] dtype = "UINT8" -> int("ui", 8)   [] dtype = "UINT16" -> int("ui", 16)
    [] dtype = "UINT32" -> int("ui", 32) [] dtype = "UINT64" -> int("ui", 64)
    [] dtype = "BOOL" -> Hal("i", 1)
    [] OTHER -> NoType

-------------------------------------------------------------------------------
(* Sizes.                                                                    *)

NumElements[dims \in Seq(Int)] ==
  IF dims = <<>> THEN 1 ELSE Head(dims) * NumElements[Tail(dims)]

\* Mutant: the element's size is forgotten where there is a shape.
CalculateTensorByteSize_Elements(dims, dtype) ==
  IF dims = <<>> THEN OnnxElementTypeSize(dtype) ELSE NumElements[dims]

CalculateTensorByteSize(dims, dtype) ==
  IF dims = <<>> THEN OnnxElementTypeSize(dtype)
  ELSE NumElements[dims] * OnnxElementTypeSize(dtype)

\* The bytes of an IREE buffer view, and of an ORT tensor, whose strings are
\* objects and whose INT4 are packed.
ViewBytes(h, dims) == NumElements[dims] * (h.bits \div 8)

OrtWidth ==
  [FLOAT |-> 4, DOUBLE |-> 8, FLOAT16 |-> 2, BFLOAT16 |-> 2, INT8 |-> 1,
   INT16 |-> 2, INT32 |-> 4, INT64 |-> 8, UINT8 |-> 1, UINT16 |-> 2,
   UINT32 |-> 4, UINT64 |-> 8, BOOL |-> 1, STRING |-> 32, COMPLEX64 |-> 8]

OrtBytes(dtype, dims) ==
  IF dtype = "INT4" THEN (NumElements[dims] + 1) \div 2
  ELSE NumElements[dims] * OrtWidth[dtype]

-------------------------------------------------------------------------------

VARIABLES
  tensor,    \* the graph's declaration: role, ONNX type, dtype, dims
  stage,     \* how far the graph, or the current call, has come
  emitted,   \* the types written for it, and how many bytes of data inline
  value,     \* the OrtValue: its dims and where it is
  view,      \* the buffer view: its element type and dims
  transfer   \* the last copy: its length and the bytes at both ends

vars == <<tensor, stage, emitted, value, view, transfer>>

Roles == {"input", "output", "initializer"}
Static(dims) == \A k \in DOMAIN dims : dims[k] >= 0

\* ORT's initializers are tensors of known shape.
Tensors ==
  {t \in [role : Roles, onnx : {"TENSOR", "SEQUENCE"}, dtype : Known \cup Unknown,
          dims : Shapes] :
     t.role = "initializer" => t.onnx = "TENSOR" /\ Static(t.dims)}

NoTensorType == [dims |-> <<>>, element |-> NoType]
Nothing == [vtensor |-> NoTensorType, builtin |-> NoTensorType, inlined |-> 0]
NoValue == [dims |-> <<>>, place |-> "host"]
NoView == [type |-> NoType, dims |-> <<>>]
NoTransfer == [bytes |-> 0, from |-> 0, to |-> 0]

Init ==
  /\ tensor \in Tensors /\ stage = "declared" /\ emitted = Nothing
  /\ value = NoValue /\ view = NoView /\ transfer = NoTransfer

\* FormatTensorType and FormatMlirTensorType, -1 standing for "?".
FormatType(t, signless) ==
  IF t.onnx # "TENSOR" THEN NoTensorType
  ELSE [dims |-> [k \in DOMAIN t.dims |-> IF t.dims[k] < 0 THEN -1 ELSE t.dims[k]],
        element |-> GetElementType(t.dtype, signless)]

\* Whether EmitInitializer writes the data into the module.
Inlines(t) ==
  NumElements[t.dims] * OnnxElementTypeSize(t.dtype) <= kMaxInlineInitializerSize

\* GenerateMlir, for this tensor.
Generate ==
  /\ stage = "declared"
  /\ emitted' =
       [vtensor |-> FormatType(tensor, FALSE),
        builtin |-> IF tensor.role = "initializer" THEN FormatType(tensor, TRUE)
                    ELSE NoTensorType,
        inlined |-> IF tensor.role = "initializer" /\ Inlines(tensor)
                    THEN OrtBytes(tensor.dtype, tensor.dims) ELSE 0]
  /\ stage' = "generated"
  /\ UNCHANGED <<tensor, value, view, transfer>>

\* What the compiler asks of the types: no NYI, and the cast of a constant is
\* from the signless type of the same width and shape.
CastOk(b, v) ==
  /\ b.dims = v.dims /\ b.element.bits = v.element.bits
  /\ b.element.kind = IF v.element.kind \in {"si", "ui"} THEN "i" ELSE v.element.kind

WellTyped ==
  /\ emitted.vtensor.element # NoType
  /\ tensor.role = "initializer" => CastOk(emitted.builtin, emitted.vtensor)

\* The rest of the module may be rejected too.
CompileModule(accept) ==
  /\ stage = "generated"
  /\ stage' = IF accept /\ WellTyped THEN "compiled" ELSE "rejected"
  /\ UNCHANGED <<tensor, emitted, value, view, transfer>>

Dims(declared) ==
  {d \in [DOMAIN declared -> DynamicSizes \cup {declared[k] : k \in DOMAIN declared}] :
     \A k \in DOMAIN declared :
       IF declared[k] < 0 THEN d[k] \in DynamicSizes ELSE d[k] = declared[k]}

\* A call begins with an input on the host, whose shape ORT has checked.
Feed(d) ==
  /\ stage = "compiled" /\ tensor.role = "input"
  /\ value' = [dims |-> d, place |-> "host"]
  /\ stage' = "fed"
  /\ UNCHANGED <<tensor, emitted, view, transfer>>

Copied(bytes) ==
  LET all == OrtBytes(tensor.dtype, value.dims) IN
  [bytes |-> bytes, from |-> all, to |-> all]

\* ORT may move an input to the device, or an output from it, with CopyTensors.
CopyTensors ==
  /\ \/ stage = "fed" /\ value.place = "host"
     \/ stage = "produced" /\ value.place = "device"
  /\ IF OnnxElementTypeSize(tensor.dtype) = 0
     THEN stage' = "refused" /\ UNCHANGED <<value, transfer>>
     ELSE /\ transfer' = Copied(NumElements[value.dims]
                                  * OnnxElementTypeSize(tensor.dtype))
          /\ value' = [value EXCEPT !.place = IF @ = "host" THEN "device" ELSE "host"]
          /\ UNCHANGED stage
  /\ UNCHANGED <<tensor, emitted, view>>

\* Wraps the buffer of a value on the device, or copies one from the host.
OrtTensorToIreeBufferView ==
  LET type == OnnxToIreeElementType(tensor.dtype) IN
  /\ stage = "fed"
  /\ IF type = NoType
     THEN stage' = "refused" /\ UNCHANGED <<view, transfer>>
     ELSE /\ view' = [type |-> type, dims |-> value.dims]
          /\ transfer' =
               IF value.place = "device" THEN transfer
               ELSE [bytes |-> CalculateTensorByteSize(value.dims, tensor.dtype),
                     from |-> OrtBytes(tensor.dtype, value.dims),
                     to |-> ViewBytes(type, value.dims)]
          /\ stage' = "viewed"
  /\ UNCHANGED <<tensor, emitted, value>>

\* The HAL types that stand for an MLIR element type: the sign may be dropped.
HalFor(e) ==
  CASE e.kind = "f" -> {Hal("float", e.bits)}
    [] e.kind = "bf" -> {Hal("bfloat", e.bits)}
    [] e.kind = "si" -> {Hal("int", e.bits), Hal("sint", e.bits)}
    [] e.kind = "ui" -> {Hal("int", e.bits), Hal("uint", e.bits)}
    [] OTHER -> {Hal("bool", 8)}

\* The program checks the types of its arguments.
Invoke ==
  /\ stage = "viewed"
  /\ stage' = IF view.type \in HalFor(emitted.vtensor.element)
              THEN "compiled" ELSE "refused"
  /\ UNCHANGED <<tensor, emitted, value, view, transfer>>

\* Or a call returns a buffer view of this tensor.
Return(d) ==
  /\ stage = "compiled" /\ tensor.role = "output"
  /\ \E h \in HalFor(emitted.vtensor.element) : view' = [type |-> h, dims |-> d]
  /\ stage' = "returned"
  /\ UNCHANGED <<tensor, emitted, value, transfer>>

\* GetBufferViewShape.  Mutant: the declared shape.
OutputShape_Declared == tensor.dims

OutputShape == view.dims

\* The output loop of ComputeImpl: its check, GetOutput, which makes a tensor of
\* the declared type and the view's shape, and IreeBufferViewToOrtTensor.
Output(place) ==
  /\ stage = "returned"
  /\ IF IreeToOnnxElementType(view.type) = "UNDEFINED"
     THEN stage' = "refused" /\ UNCHANGED <<value, transfer>>
     ELSE /\ value' = [dims |-> OutputShape, place |-> place]
          /\ transfer' = [bytes |-> ViewBytes(view.type, view.dims),
                          from |-> ViewBytes(view.type, view.dims),
                          to |-> OrtBytes(tensor.dtype, OutputShape)]
          /\ stage' = "produced"
  /\ UNCHANGED <<tensor, emitted, view>>

EndCall ==
  /\ stage = "produced"
  /\ stage' = "compiled"
  /\ UNCHANGED <<tensor, emitted, value, view, transfer>>

Next ==
  \/ Generate
  \/ \E accept \in BOOLEAN : CompileModule(accept)
  \/ \E d \in Dims(tensor.dims) : Feed(d) \/ Return(d)
  \/ CopyTensors
  \/ OrtTensorToIreeBufferView
  \/ Invoke
  \/ \E place \in {"host", "device"} : Output(place)
  \/ EndCall

Spec == Init /\ [][Next]_vars
-------------------------------------------------------------------------------
(* Properties.                                                               *)

\* The type of the state.
TypeOK ==
  /\ tensor \in Tensors
  /\ stage \in {"declared", "generated", "compiled", "rejected", "fed", "viewed",
                "returned", "produced", "refused"}
  /\ Static(value.dims) /\ value.place \in {"host", "device"}
  /\ Static(view.dims)
  /\ transfer \in [bytes : Nat, from : Nat, to : Nat]

\* A graph that compiled never has a call fail for an element type: each type
\* that the generator can write is known to both conversions, to the size table
\* and to the check of the outputs, whichever sign the program returns.
NeverRefused == stage # "refused"

\* Every copy has the length of what it reads and of what it fills: the sizes by
\* ONNX type, by IREE type and of ORT's own tensors are the same.
TransfersFit == transfer.bytes = transfer.from /\ transfer.bytes = transfer.to

\* A tensor whose type has a size is emitted with types the compiler accepts, and
\* any other is one the compiler rejects.
SupportedAccepted ==
  stage = "generated" =>
    (WellTyped <=> tensor.onnx = "TENSOR" /\ OnnxElementTypeSize(tensor.dtype) > 0)

\* No initializer that compiles puts more than the limit into the module's text.
InlineStaysSmall ==
  stage \in {"declared", "generated", "rejected"}
    \/ emitted.inlined <= kMaxInlineInitializerSize
===============================================================================
