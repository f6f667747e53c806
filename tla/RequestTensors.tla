--------------------------- MODULE RequestTensors ---------------------------
(***************************************************************************)
(* The tensors of a predict request: what ModelInstance::validate and      *)
(* EntryNode::validate accept, the blobs deserialization.hpp and           *)
(* binaryutils.cpp make of them, and what serialization.cpp makes of the   *)
(* blobs of the outputs.                                                   *)
(*                                                                         *)
(* A tensor of a request is a record [dtype, dims, content, vals,          *)
(* strings]: content holds its values when they are packed in              *)
(* tensor_content, vals those of half_val and int_val, strings its encoded *)
(* images.  A data type has the name of the precision it stands for.  What *)
(* a servable declares of an input is [precision, shape, layout, prefix];  *)
(* a dimension 0 is any size, prefix the dimension a demultiplexing entry  *)
(* node adds, if any.  A value of precision FP32 counts halves, so that    *)
(* 3 is 1.5; of an integer precision, ones; a value of precision FP16 is   *)
(* the bits of the number.  An image is [id, rows, cols, channels]; one that    *)
(* OpenCV cannot decode has no rows.  A blob is [dims, data]; a blob whose *)
(* data is shorter or longer than its dimensions say is one that is read   *)
(* or written past its end.                                                *)
(***************************************************************************)
EXTENDS Integers, Sequences, FiniteSets, SequencesExt

CONSTANT SizeModulus   \* size_t: a product of dimensions is taken modulo this

ASSUME SizeModulusAssumption == SizeModulus \in Nat \ {0}

Precisions == {"FP32", "U8", "FP16", "U16", "I64", "BOOL"}

\* InferenceEngine::Precision::size.
SizeOf(precision) ==
  CASE precision \in {"FP32", "I32", "U32"} -> 4
    [] precision \in {"FP16", "U16"} -> 2
    [] precision = "I64" -> 8
    [] precision \in {"U8", "BOOL"} -> 1

\* The product of the dimensions, and as size_t computes it.
Product(dims) == FoldLeft(LAMBDA x, d : x * d, 1, dims)
SizeProduct(dims) == FoldLeft(LAMBDA x, d : (x * d) % SizeModulus, 1, dims)

\* TensorInfo::updateEffectiveShape: the dimensions in the order of the layout, with
\* the one that createCopyWithEffectiveDimensionPrefix adds.
EffectiveShape(info) ==
  LET s == info.shape
      ordered == IF info.layout = "NHWC" THEN <<s[1], s[3], s[4], s[2]>> ELSE s
  IN  info.prefix \o ordered

(***************************************************************************)
(* Validation.                                                             *)
(***************************************************************************)

\* checkIfShapeValuesNegative.
ShapeValuesFit(t) == \A i \in DOMAIN t.dims : t.dims[i] >= 0

\* Mutant: the values are not counted.
AnyTensorContentSize(info, t) == TRUE

\* validateTensorContentSize: half and 16 bit unsigned values come one by one.
TensorContentSizeFits(info, t) ==
  LET expectedValueCount == SizeProduct(t.dims)
      size == SizeOf(info.precision)
  IN  IF t.dtype \in {"U16", "FP16"}
      THEN expectedValueCount = Len(t.vals)
      ELSE (expectedValueCount * size) % SizeModulus = Len(t.content) * size

\* validatePrecision and validateNumberOfShapeDimensions.
KindFits(info, t) ==
  /\ t.dtype = info.precision
  /\ Len(t.dims) > 0 /\ Len(t.dims) = Len(EffectiveShape(info))

\* CNNNetwork::getBatchSize, of the first input of the network.
BatchSize(m) == m.inputs[m.first].shape[1]

\* checkBatchSizeMismatch and checkBinaryInputBatchSizeMismatch of ModelInstance.
BatchSizeMismatch(m, t) ==
  IF t.dtype = "STRING" THEN Len(t.strings) # BatchSize(m) ELSE t.dims[1] # BatchSize(m)

\* checkShapeMismatch: with an automatic batch size the first dimension is left out.
ShapeMismatch(m, n, t) ==
  \E i \in DOMAIN t.dims : /\ m.batching = "AUTO" => i > 1
                           /\ t.dims[i] # EffectiveShape(m.inputs[n])[i]

\* One turn of the loop of ModelInstance::validate, that does not return an error.
\* An encoded image is validated when it is converted.
InputFits(m, n, t) ==
  /\ ShapeValuesFit(t)
  /\ \/ /\ t.dtype = "STRING"
        /\ Len(t.dims) = 1
        /\ BatchSizeMismatch(m, t) => m.batching = "AUTO"
     \/ /\ KindFits(m.inputs[n], t)
        /\ BatchSizeMismatch(m, t) => m.batching = "AUTO" \/ n \in m.auto
        /\ ShapeMismatch(m, n, t) => n \in m.auto
        /\ TensorContentSizeFits(m.inputs[n], t)

\* validateNumberOfInputs, and that each name is found.
NamesFit(inputs, tensors) == DOMAIN tensors = DOMAIN inputs

\* ModelInstance::validate.  The batch size and a shape are never both automatic
\* (module ModelConfiguration), so that the inputs ask for one kind of change.
Validate(m, tensors) ==
  IF ~NamesFit(m.inputs, tensors) \/ \E n \in DOMAIN tensors : ~InputFits(m, n, tensors[n])
  THEN "REJECTED"
  ELSE IF \E n \in DOMAIN tensors : tensors[n].dtype # "STRING" /\ ShapeMismatch(m, n, tensors[n])
  THEN "RESHAPE_REQUIRED"
  ELSE IF m.batching = "AUTO" /\ \E n \in DOMAIN tensors : BatchSizeMismatch(m, tensors[n])
  THEN "BATCHSIZE_CHANGE_REQUIRED"
  ELSE "OK"

\* One turn of the loop of EntryNode::validate: a dimension of the request is positive,
\* and the declared one unless that is 0.
EntryInputFits(info, t) ==
  LET shape == EffectiveShape(info)
  IN  /\ ShapeValuesFit(t)
      /\ \/ /\ t.dtype = "STRING"
            /\ Len(t.dims) = 1
            /\ Len(t.strings) > 0 /\ shape[1] \in {0, Len(t.strings)}
         \/ /\ KindFits(info, t)
            /\ \A i \in DOMAIN t.dims : t.dims[i] > 0 /\ shape[i] \in {0, t.dims[i]}
            /\ TensorContentSizeFits(info, t)

\* EntryNode::validate.
EntryValidate(m, tensors) ==
  IF NamesFit(m.inputs, tensors) /\ \A n \in DOMAIN tensors : EntryInputFits(m.inputs[n], tensors[n])
  THEN "OK"
  ELSE "REJECTED"

(***************************************************************************)
(* Encoded images (binaryutils.cpp).                                       *)
(***************************************************************************)

\* validateTensor: the layout, the number of dimensions, the batch, no empty string.
ImagesFit(info, t) ==
  LET shape == EffectiveShape(info)
  IN  /\ info.layout \in {"NHWC", "ANY"}
      /\ Len(shape) = 4 + Len(info.prefix)
      /\ Len(t.strings) > 0 /\ shape[1] \in {0, Len(t.strings)}
      /\ \A i \in DOMAIN t.strings : t.strings[i].id # ""

\* validateInput: with the layout ANY the resolution is that of the first image as it
\* was converted; the channels are the declared ones, or those of the first image.
ImageFits(info, image, images) ==
  LET declared == Last(EffectiveShape(info))
      channels == IF declared = 0 /\ images # <<>> THEN images[1].channels ELSE declared
  IN  /\ image.rows > 0
      /\ info.layout = "ANY" /\ images # <<>> =>
           image.rows = images[1].rows /\ image.cols = images[1].cols
      /\ channels \in {0, image.channels}

\* resizeNeeded and resizeMat: with the layout ANY a size 0 keeps that of the image.
Resized(info, image) ==
  LET shape == EffectiveShape(info)
      rows == shape[Len(shape) - 2]
      cols == shape[Len(shape) - 1]
      keeps(size) == info.layout = "ANY" /\ size = 0
  IN  [image EXCEPT !.rows = IF keeps(rows) THEN @ ELSE rows,
                    !.cols = IF keeps(cols) THEN @ ELSE cols]

Converted(images) == [ok |-> TRUE, images |-> images]
NotConverted == [ok |-> FALSE, images |-> <<>>]

\* getMatTypeFromTensorPrecision and convertPrecision: there is no image of the other
\* precisions.
HasMatType(precision) == precision \in {"FP32", "FP16", "U8", "U16"}

\* convertTensorToMatsMatchingTensorInfo.
ConvertImages(info, strings) ==
  FoldLeft(LAMBDA acc, image :
             IF acc.ok /\ ImageFits(info, image, acc.images) /\ HasMatType(info.precision)
             THEN Converted(Append(acc.images, Resized(info, image)))
             ELSE NotConverted,
           Converted(<<>>), strings)

\* The values of an image: all of them are its name.
Pixels(image) == [i \in 1 .. image.rows * image.cols * image.channels |-> image.id]

\* getShapeFromImages.
ShapeFromImages(info, images) ==
  <<Len(images)>> \o (IF info.prefix = <<>> THEN <<>> ELSE <<1>>)
    \o <<images[1].rows, images[1].cols, images[1].channels>>

(***************************************************************************)
(* Deserialization; pipeline: the servable is a pipeline.                  *)
(***************************************************************************)
NoBlob == [ok |-> FALSE, dims |-> <<>>, data |-> <<>>]
Blob(dims, data) == [ok |-> TRUE, dims |-> dims, data |-> data]

\* createBlobFromMats, convertMatsToBlob and convertStringValToBlob.
ConvertStringValToBlob(info, t, pipeline) ==
  LET mats == ConvertImages(info, t.strings)
  IN  IF ~ImagesFit(info, t) \/ ~mats.ok
      THEN NoBlob
      ELSE Blob(IF pipeline THEN ShapeFromImages(info, mats.images) ELSE info.shape,
                FlattenSeq([i \in DOMAIN mats.images |-> Pixels(mats.images[i])]))

\* getFinalTensorDesc.
FinalTensorDesc(info, t, pipeline) == IF pipeline THEN t.dims ELSE info.shape

\* A conversion to an unsigned integer of this many bytes; those of four and more hold
\* every number of a model.
Wrap(x, bytes) == IF bytes > 2 THEN x ELSE x % 2 ^ (8 * bytes)

\* ConcreteTensorProtoDeserializator: no blob of 64 bit integers or Booleans.  The
\* integers of half_val and int_val become the 16 bits of a value.
DeserializeTensorProto(info, t, pipeline) ==
  IF info.precision \in {"I64", "BOOL"}
  THEN NoBlob
  ELSE Blob(FinalTensorDesc(info, t, pipeline),
            IF info.precision \in {"FP16", "U16"}
            THEN [i \in DOMAIN t.vals |-> Wrap(t.vals[i], 2)] ELSE t.content)

\* deserializePredictRequest.
DeserializePredictRequest(m, tensors) ==
  [n \in DOMAIN m.inputs |->
     IF tensors[n].dtype = "STRING"
     THEN ConvertStringValToBlob(m.inputs[n], tensors[n], m.pipeline)
     ELSE DeserializeTensorProto(m.inputs[n], tensors[n], m.pipeline)]

(***************************************************************************)
(* Serialization of the outputs.                                           *)
(***************************************************************************)

\* The data type serializeBlobToTensorProto writes; the bytes stay as they are.
ResponseType(precision) ==
  CASE precision = "U16" -> "U32"
    [] precision = "FP16" -> "FP32"
    [] precision = "I64" -> "I32"
    [] OTHER -> precision

\* serializeBlobToTensorProto: the precision is supported and the dimensions of the
\* blob are the declared ones.
OutputFits(out, dims) ==
  /\ out.precision # "BOOL"
  /\ Len(dims) = Len(out.shape)
  /\ \A i \in DOMAIN dims : out.shape[i] \in {0, dims[i]}

SerializeBlob(out, dims) ==
  [dtype |-> ResponseType(out.precision), dims |-> dims,
   bytes |-> Product(dims) * SizeOf(out.precision)]

\* makeJsonFromPredictResponse: there is data, the bytes of the values to write.
ContentIsJson(tensor) ==
  tensor.bytes > 0 /\ tensor.bytes = SizeOf(tensor.dtype) * Product(tensor.dims)
=============================================================================
