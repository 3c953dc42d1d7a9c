------------------------------- MODULE Tensors -------------------------------
(***************************************************************************)
(* Shapes, element types and slices as the code computes them: the shape   *)
(* overrides of a model's config, the conversions between the names of     *)
(* element types, and the windows of a tensor a row is copied to and from. *)
(*                                                                         *)
(* A shape is a sequence of dimensions, -1 for a dynamic one.  A tensor's  *)
(* data is the sequence of its elements: bytes are counted in elements.    *)
(***************************************************************************)
EXTENDS Integers, Sequences, SequencesExt

NumElements(dims) == FoldSeq(LAMBDA d, product : d * product, 1, dims)

\* Elements of one index of dimension 0.
RowElements(shape) == NumElements(Tail(shape))

-------------------------------------------------------------------------------
(***************************************************************************)
(* Shape overrides.  `overrides` maps the names of some tensors to shapes. *)
(***************************************************************************)

\* Fault: the graph's shape is used as it is.
KeepGraphShape(name, shape, overrides) == shape

\* SuperTensorBuffer::new_with_overrides: dimension 0 stays the model's.
EffectiveShape(name, shape, overrides) ==
    [i \in DOMAIN shape |->
        IF i > 1 /\ name \in DOMAIN overrides /\ i <= Len(overrides[name])
        THEN overrides[name][i] ELSE shape[i]]

\* Inputs of model_config, of model_metadata and of the GPU binding.
ReplacedShape(name, shape, overrides) ==
    IF name \in DOMAIN overrides THEN overrides[name] ELSE shape

\* Outputs of model_config, of model_metadata and of the GPU binding.
MergedShape(name, shape, overrides) ==
    [i \in DOMAIN shape |->
        IF name \in DOMAIN overrides /\ i <= Len(overrides[name])
        THEN overrides[name][i] ELSE shape[i]]

\* `shape[0] = batch_size`.
Batched(shape, batchSize) == [shape EXCEPT ![1] = batchSize]

IsStatic(shape) == \A i \in DOMAIN shape : shape[i] >= 0

\* The assertions of BatchableTensor::new.
IsBatchable(shape) ==
    shape # <<>> /\ shape[1] = -1 /\ IsStatic(Tail(shape))

-------------------------------------------------------------------------------
(***************************************************************************)
(* Element types.                                                          *)
(***************************************************************************)

\* copy_at_from_bytes: every other type is an UnsupportedDataType.
CopyableTypes == {"Float32", "Float64", "Uint8", "Uint16", "Uint32", "Uint64",
                  "Int8", "Int16", "Int32", "Int64"}

\* value_as_byte_slice.
ReadableTypes == CopyableTypes \cup {"Bool"}

OtherTypes == {"String", "Float16", "Bfloat16", "Complex64", "Complex128",
               "Float8E4M3FN", "Float8E4M3FNUZ", "Float8E5M2",
               "Float8E5M2FNUZ", "Uint4", "Int4", "Undefined"}

TensorElementType == ReadableTypes \cup OtherTypes

\* impl From<TensorElementType> for DataType.
Named == [Float32  |-> "TypeFp32",   Float64 |-> "TypeFp64",
          Float16  |-> "TypeFp16",   Bfloat16 |-> "TypeBf16",
          Uint8    |-> "TypeUint8",  Uint16  |-> "TypeUint16",
          Uint32   |-> "TypeUint32", Uint64  |-> "TypeUint64",
          Int8     |-> "TypeInt8",   Int16   |-> "TypeInt16",
          Int32    |-> "TypeInt32",  Int64   |-> "TypeInt64",
          Bool     |-> "TypeBool",   String  |-> "TypeString"]

DataTypeOf(type) == IF type \in DOMAIN Named THEN Named[type] ELSE "TypeInvalid"

\* DataType::to_metadata_string.
MetadataString ==
    [TypeInvalid |-> "INVALID", TypeBool   |-> "BOOL",
     TypeUint8   |-> "UINT8",   TypeUint16 |-> "UINT16",
     TypeUint32  |-> "UINT32",  TypeUint64 |-> "UINT64",
     TypeInt8    |-> "INT8",    TypeInt16  |-> "INT16",
     TypeInt32   |-> "INT32",   TypeInt64  |-> "INT64",
     TypeFp16    |-> "FP16",    TypeFp32   |-> "FP32",
     TypeFp64    |-> "FP64",    TypeString |-> "STRING",
     TypeBf16    |-> "BF16"]

DataType == DOMAIN MetadataString

\* DataType::from_str: the string a call carries, unknown ones are invalid.
FromStr(string) ==
    IF \E d \in DataType : MetadataString[d] = string
    THEN CHOOSE d \in DataType : MetadataString[d] = string
    ELSE "TypeInvalid"

\* DataType::as_str_name, the field name of the proto: what answers carry.
AsStrName == [d \in DataType |-> <<"TYPE", MetadataString[d]>>]

-------------------------------------------------------------------------------
(***************************************************************************)
(* Slices.                                                                 *)
(***************************************************************************)

\* as_byte_slice!: elements start .. end - 1, counted from 0.
SliceOf(data, start, end) == SubSeq(data, start + 1, end)

\* TensorBytes::slice_dim0: rows start .. end - 1 of a tensor of `rows` rows.
SliceDim0(data, rows, start, end) ==
    LET perIndex == Len(data) \div rows
    IN  SubSeq(data, start * perIndex + 1, end * perIndex)

\* Does `data[offset .. offset + elem_count]` of copy_at_from_bytes exist?
FitsAt(tensor, width, slot, slice) == slot * width + Len(slice) <= Len(tensor)

\* BatchableTensor::copy_at_from_bytes.
CopiedAt(tensor, width, slot, slice) ==
    [e \in DOMAIN tensor |->
        IF e - slot * width \in DOMAIN slice THEN slice[e - slot * width]
                                             ELSE tensor[e]]
==============================================================================
