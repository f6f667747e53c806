--------------------------- MODULE PredictRequest ---------------------------
(***************************************************************************)
(* Predict requests, by REST and by gRPC, to one model version or pipeline *)
(* (HttpRestApiHandler::processRequest, PredictionServiceImpl::Predict,    *)
(* ModelInstance::infer, the entry and the exit node): from what a client  *)
(* sends to the blobs the network reads, and back to the answer.  Requests *)
(* run in threads of their own.  A request whose batch size or shape the   *)
(* model does not have, where these are automatic, drops its unload guard, *)
(* reloads the model with its own and goes on without a second validation. *)
(*                                                                         *)
(* The steps of a reload and of the wait for a model are those of module   *)
(* ModelInstance, here as far as the shapes of the model depend on them.   *)
(* A pipeline keeps its definition (module PipelineDefinition) and its     *)
(* nodes are one step (module PipelineExecution).  The streams are those   *)
(* of module InferRequestsQueue, with its steps joined: a request that     *)
(* found no stream may queue its promise after one came back.              *)
(***************************************************************************)
EXTENDS RestRequest

CONSTANTS Requests,
          nireq,       \* number of inference streams of the model
          Scenarios    \* [servable, traffic]: a servable and the sets of requests,
                       \* functions from Requests, that its clients may send

ASSUME StreamsAssumption == nireq \in Nat \ {0}

VARIABLES servable,    \* the model as it is loaded, or the pipeline
          loaded,      \* the state of the model version
          original,    \* the model as its files and its configuration give it
          guards,      \* the requests that hold an unload guard
          loader,      \* the requests that hold loadingMutex: one at most
          idle,        \* idle streams of the model
          promises,    \* the requests that wait for one, oldest first
          sent,        \* what each request was sent with
          pc,
          tensors,     \* the inputs of each request's proto
          order,       \* requestOrder
          change,      \* the batch size or the shapes that are asked of a reload
          blobs,       \* what is given to the network
          output,      \* the tensor of the response
          answer       \* the status that is returned

model == <<servable, loaded, original, guards, loader>>
streams == <<idle, promises>>
vars == <<model, streams, sent, pc, tensors, order, change, blobs, output, answer>>

Nothing == <<>>
Unsent == [via |-> "nobody"]

Init ==
  /\ \E s \in Scenarios : servable = s.servable /\ sent \in s.traffic
  /\ original = servable
  /\ loaded = "AVAILABLE"
  /\ guards = {} /\ loader = {}
  /\ idle = nireq /\ promises = <<>>
  /\ pc = [r \in Requests |-> IF sent[r] = Unsent THEN "done" ELSE "received"]
  /\ tensors = [r \in Requests |-> Nothing]
  /\ order = [r \in Requests |-> "unknown"]
  /\ change = [r \in Requests |-> Nothing]
  /\ blobs = [r \in Requests |-> Nothing]
  /\ output = [r \in Requests |-> Nothing]
  /\ answer = [r \in Requests |-> "none"]

Goto(r, label) == pc' = [pc EXCEPT ![r] = label]
IsRest(r) == sent[r].via = "rest"

\* ModelInstance::infer is left with the stream of ExecutingStreamIdGuard: returnStream
\* gives it to the oldest promise, or else to the idle ones.
ReturnStream(r) ==
  IF servable.pipeline \/ pc[r] \notin {"deserialize", "infer"} THEN UNCHANGED streams
  ELSE \/ promises = <<>> /\ idle' = idle + 1 /\ UNCHANGED promises
       \/ promises # <<>> /\ promises' = Tail(promises) /\ UNCHANGED idle

\* The request returns: its stream and its guard are released with it.
Return(r, status) ==
  /\ Goto(r, "done")
  /\ answer' = [answer EXCEPT ![r] = status]
  /\ ReturnStream(r)
  /\ guards' = guards \ {r}

(***************************************************************************)
(* The front ends.                                                         *)
(***************************************************************************)

\* processRequest of what is not a predict request: the other handlers are modelled in
\* ConfigReload or only read.
Route(r) ==
  /\ pc[r] = "received"
  /\ IsRest(r) /\ RequestType(sent[r].method, sent[r].resource) # "Predict"
  /\ Return(r, RequestType(sent[r].method, sent[r].resource))
  /\ UNCHANGED <<servable, loaded, original, loader, sent, tensors, order, change, blobs, output>>

\* getModelInstance with waitForLoaded, or getPipeline.
GetServable(r) ==
  /\ pc[r] = "received"
  /\ IsRest(r) => RequestType(sent[r].method, sent[r].resource) = "Predict"
  /\ loaded = "AVAILABLE"
  /\ guards' = guards \cup {r}
  /\ Goto(r, IF IsRest(r) THEN "parse" ELSE "validate")
  /\ tensors' = [tensors EXCEPT ![r] = IF IsRest(r) THEN @ ELSE sent[r].inputs]
  /\ UNCHANGED <<servable, loaded, original, loader, streams, sent, order, change, blobs, output, answer>>

\* waitForLoaded gives up.
GetServableTimesOut(r) ==
  /\ pc[r] = "received"
  /\ IsRest(r) => RequestType(sent[r].method, sent[r].resource) = "Predict"
  /\ loaded # "AVAILABLE"
  /\ Return(r, "NOT_LOADED_YET")
  /\ UNCHANGED <<servable, loaded, original, loader, sent, tensors, order, change, blobs, output>>

PrecisionsOf(s) == [n \in DOMAIN s.inputs |-> s.inputs[n].precision]

\* RestParser in processSingleModelRequest and processPipelineRequest.
ParseBody(r) ==
  LET parsed == Parse(PrecisionsOf(servable), sent[r].body)
  IN  /\ pc[r] = "parse"
      /\ \/ /\ parsed.ok
            /\ order' = [order EXCEPT ![r] = parsed.order]
            /\ tensors' = [tensors EXCEPT ![r] = parsed.tensors]
            /\ Goto(r, "validate")
            /\ UNCHANGED <<guards, streams, answer>>
         \/ /\ ~parsed.ok
            /\ Return(r, "REJECTED")
            /\ UNCHANGED <<tensors, order>>
      /\ UNCHANGED <<servable, loaded, original, loader, sent, change, blobs, output>>

(***************************************************************************)
(* ModelInstance::infer and the entry node.                                *)
(***************************************************************************)
ValidationStatus(r) ==
  IF servable.pipeline THEN EntryValidate(servable, tensors[r]) ELSE Validate(servable, tensors[r])

\* Where an accepted request goes on; the entry node needs no stream.
Accepted == IF servable.pipeline THEN "deserialize" ELSE "stream"

\* validate.
ValidateRequest(r) ==
  /\ pc[r] = "validate"
  /\ \/ ValidationStatus(r) = "REJECTED" /\ Return(r, "REJECTED")
     \/ ValidationStatus(r) = "OK" /\ Goto(r, Accepted) /\ UNCHANGED <<guards, streams, answer>>
     \/ /\ ValidationStatus(r) \in {"RESHAPE_REQUIRED", "BATCHSIZE_CHANGE_REQUIRED"}
        /\ Goto(r, "change")
        /\ UNCHANGED <<guards, streams, answer>>
  /\ UNCHANGED <<servable, loaded, original, loader, sent, tensors, order, change, blobs, output>>

\* getRequestBatchSize: of whichever input the map of inputs has first.
RequestBatchSizes(r) == {tensors[r][n].dims[1] : n \in DOMAIN tensors[r]}

\* Mutant: the guard is kept while the model is reloaded.
KeepGuard(r) == UNCHANGED guards

\* unloadGuard.reset() in reloadModel.
ReleaseGuard(r) == guards' = guards \ {r}

\* reloadModelIfRequired: what to reload with; then the guard is released.
RequestChange(r) ==
  /\ pc[r] = "change"
  /\ \/ /\ ValidationStatus(r) = "RESHAPE_REQUIRED"
        /\ change' = [change EXCEPT ![r] = [reshape |-> TRUE, batch |-> 0]]
     \/ /\ ValidationStatus(r) = "BATCHSIZE_CHANGE_REQUIRED"
        /\ \E b \in RequestBatchSizes(r) :
             change' = [change EXCEPT ![r] = [reshape |-> FALSE, batch |-> b]]
  /\ ReleaseGuard(r)
  /\ Goto(r, "lock")
  /\ UNCHANGED <<servable, loaded, original, loader, streams, sent, tensors, order, blobs, output, answer>>

\* reloadModel takes loadingMutex and sets the state to LOADING; with neither a batch
\* size nor shapes it returns an error.
LockModel(r) ==
  /\ pc[r] = "lock"
  /\ loader = {}
  /\ \/ /\ change[r].reshape \/ change[r].batch > 0
        /\ loader' = {r} /\ loaded' = "LOADING" /\ Goto(r, "reload")
        /\ UNCHANGED <<guards, streams, answer>>
     \/ /\ ~change[r].reshape /\ change[r].batch = 0
        /\ Return(r, "INTERNAL_ERROR")
        /\ UNCHANGED <<loader, loaded>>
  /\ UNCHANGED <<servable, original, sent, tensors, order, change, blobs, output>>

\* configureBatchSize and loadInputTensors: the shape of an input after the reload.
ReloadedShape(r, n) ==
  IF ~change[r].reshape THEN [servable.inputs[n].shape EXCEPT ![1] = change[r].batch]
  ELSE IF n \in servable.auto THEN tensors[r][n].dims
  ELSE servable.inputs[n].shape

Reloaded(r) ==
  [servable EXCEPT !.inputs = [n \in DOMAIN @ |-> [@[n] EXCEPT !.shape = ReloadedShape(r, n)]]]

\* Mutant: the lock is released before the guard is taken.
UnlockAtOnce(r) == loader' = {}

\* loadingMutex is held until reloadModel returns.
StayLocked(r) == UNCHANGED loader

\* reloadModel, when no request holds a guard: at once or by reshapeWithFullReload.
ReloadModel(r) ==
  /\ pc[r] = "reload"
  /\ guards = {}
  /\ servable' = Reloaded(r) /\ loaded' = "AVAILABLE"
  /\ StayLocked(r)
  /\ Goto(r, "guard")
  /\ UNCHANGED <<original, guards, streams, sent, tensors, order, change, blobs, output, answer>>

\* The network cannot have the shapes: recoverFromReloadingError reloads the model as
\* it was configured, or fails too.
ReloadModelFails(r) ==
  /\ pc[r] = "reload"
  /\ guards = {}
  /\ servable' = original
  /\ loaded' \in {"AVAILABLE", "LOADING"}
  /\ loader' = {}
  /\ Return(r, "RESHAPE_ERROR")
  /\ UNCHANGED <<original, sent, tensors, order, change, blobs, output>>

\* The end of reloadModel: a guard again, and the lock released.
GuardReloaded(r) ==
  /\ pc[r] = "guard"
  /\ guards' = guards \cup {r}
  /\ loader' = loader \ {r}
  /\ Goto(r, "stream")
  /\ UNCHANGED <<servable, loaded, original, streams, sent, tensors, order, change, blobs, output, answer>>

\* ExecutingStreamIdGuard: getIdleStream, which holds front_mut from its look at the ring
\* until it has queued a promise, finds a stream ...
FrontLocked == \E o \in Requests : pc[o] = "push"

GetStream(r) ==
  /\ pc[r] = "stream" /\ ~FrontLocked
  /\ idle > 0
  /\ idle' = idle - 1
  /\ Goto(r, "deserialize")
  /\ UNCHANGED <<model, promises, sent, tensors, order, change, blobs, output, answer>>

\* ... or finds none ...
NoStream(r) ==
  /\ pc[r] = "stream" /\ ~FrontLocked
  /\ idle = 0
  /\ Goto(r, "push")
  /\ UNCHANGED <<model, streams, sent, tensors, order, change, blobs, output, answer>>

\* ... and queues a promise, which a stream that came back meanwhile has missed.
QueuePromise(r) ==
  /\ pc[r] = "push"
  /\ promises' = Append(promises, r)
  /\ Goto(r, "wait")
  /\ UNCHANGED <<model, idle, sent, tensors, order, change, blobs, output, answer>>

\* The future is ready.
StreamReady(r) ==
  /\ pc[r] = "wait"
  /\ r \notin Range(promises)
  /\ Goto(r, "deserialize")
  /\ UNCHANGED <<model, streams, sent, tensors, order, change, blobs, output, answer>>

\* deserializePredictRequest.
Deserialize(r) ==
  LET made == DeserializePredictRequest(servable, tensors[r])
  IN  /\ pc[r] = "deserialize"
      /\ \/ /\ \A n \in DOMAIN made : made[n].ok
            /\ blobs' = [blobs EXCEPT ![r] = made]
            /\ Goto(r, "infer")
            /\ UNCHANGED <<guards, streams, answer>>
         \/ /\ \E n \in DOMAIN made : ~made[n].ok
            /\ Return(r, "REJECTED")
            /\ UNCHANGED blobs
      /\ UNCHANGED <<servable, loaded, original, loader, sent, tensors, order, change, output>>

(***************************************************************************)
(* The answer.                                                             *)
(***************************************************************************)

\* The dimensions of the output of the network: its batch comes first, where the
\* declared one is any.
OutputDims(r) ==
  [i \in DOMAIN servable.output.shape |->
     IF i = 1 THEN blobs[r][servable.first].dims[1] ELSE servable.output.shape[i]]

\* performInference or the nodes of the pipeline; then serializePredictResponse.
Infer(r) ==
  /\ pc[r] = "infer"
  /\ \/ /\ OutputFits(servable.output, OutputDims(r))
        /\ output' = [output EXCEPT ![r] = SerializeBlob(servable.output, OutputDims(r))]
        /\ IF IsRest(r) THEN Goto(r, "json") /\ ReturnStream(r) /\ guards' = guards \ {r} /\ UNCHANGED answer
                        ELSE Return(r, "OK")
     \/ ~OutputFits(servable.output, OutputDims(r)) /\ Return(r, "REJECTED") /\ UNCHANGED output
  /\ UNCHANGED <<servable, loaded, original, loader, sent, tensors, order, change, blobs>>

\* performInference fails.
InferFails(r) ==
  /\ pc[r] = "infer"
  /\ Return(r, "OV_INTERNAL_INFERENCE_ERROR")
  /\ UNCHANGED <<servable, loaded, original, loader, sent, tensors, order, change, blobs, output>>

\* makeJsonFromPredictResponse.
MakeJson(r) ==
  /\ pc[r] = "json"
  /\ Return(r, IF order[r] # "unknown" /\ ContentIsJson(output[r]) THEN "OK" ELSE "REJECTED")
  /\ UNCHANGED <<servable, loaded, original, loader, sent, tensors, order, change, blobs, output>>

Step(r) ==
  \/ Route(r) \/ GetServable(r) \/ GetServableTimesOut(r) \/ ParseBody(r) \/ ValidateRequest(r)
  \/ RequestChange(r) \/ LockModel(r) \/ ReloadModel(r) \/ ReloadModelFails(r) \/ GuardReloaded(r)
  \/ GetStream(r) \/ NoStream(r) \/ QueuePromise(r) \/ StreamReady(r) \/ Deserialize(r) \/ Infer(r) \/ InferFails(r) \/ MakeJson(r)

Next == \E r \in Requests : Step(r)

Spec == Init /\ [][Next]_vars

\* A thread that can go on goes on.
FairSpec == Spec /\ \A r \in Requests : WF_vars(Step(r))

-----------------------------------------------------------------------------
(***************************************************************************)
(* Properties.                                                             *)
(***************************************************************************)

\* The inputs of the request agree on the batch size, as getRequestBatchSize assumes,
\* and no product of dimensions leaves size_t.
Regular(r) ==
  /\ servable.batching = "AUTO" => Cardinality(RequestBatchSizes(r)) = 1
  /\ \A n \in DOMAIN tensors[r] : Product(tensors[r][n].dims) * SizeOf(servable.inputs[n].precision) < SizeModulus

\* What the network is given is what it reads: when a request is inferred each blob has
\* as many values as its dimensions say, and these are the shape that the model has at
\* that moment, whoever reloaded it since the request was validated; for a pipeline they
\* are the dimensions of the request, of the kind the pipeline declares.  The tensor of
\* the request has the shape of the model in the order of its layout, except that a model
\* with automatic shape and the layout NHWC took the dimensions of the request as its own
\* without putting them in the network's order (getRequestShapes, loadInputTensors).
BlobsAsLoaded ==
  \A r \in Requests : pc[r] = "infer" /\ Regular(r) =>
    \A n \in DOMAIN blobs[r] :
      LET blob == blobs[r][n]
          t == tensors[r][n]
          info == servable.inputs[n]
      IN  /\ Len(blob.data) = Product(blob.dims)
          /\ IF servable.pipeline
             THEN \A i \in DOMAIN blob.dims : EffectiveShape(info)[i] \in {0, blob.dims[i]}
             ELSE blob.dims = info.shape
          /\ t.dtype # "STRING" /\ ~servable.pipeline =>
               IF n \in servable.auto /\ info.layout = "NHWC"
               THEN t.dims \in {EffectiveShape(info), info.shape}
               ELSE t.dims = EffectiveShape(info)

\* A REST request is inferred with the numbers of its body, each at its place: the values
\* of a tensor stand for the leaves of its arrays in the order of the text, in row and in
\* column format, wherever the precision of the input holds the number (a half precision
\* input is given the bits of another one, see Holds), and every array has the size of its
\* dimension (parseArray, setDimOrValidate); of images, each comes once and in order.
LeavesInOrder ==
  \A r \in Requests : pc[r] = "infer" /\ IsRest(r) =>
    \A n \in DOMAIN tensors[r] :
      LET doc == Given(sent[r].body, n)
          t == tensors[r][n]
          leaves == Leaves(doc, "num")
          data == blobs[r][n].data
      IN  IF t.dtype = "STRING"
          THEN t.strings = Leaves(doc, "b64")
          ELSE /\ Len(data) = Len(leaves)
               /\ \A i \in DOMAIN leaves :
                    Holds(t.dtype, leaves[i]) => data[i] = ValueOf(t.dtype, leaves[i])
               /\ Sized(doc, t.dims)

\* The body of a request gives each input a table of numbers of a shape that the servable
\* has, or can take where its batch size or its shape is automatic.
Fits(info, dims, anyBatch, anyShape) ==
  /\ Len(dims) = Len(EffectiveShape(info))
  /\ \A i \in DOMAIN dims :
       anyShape \/ (anyBatch /\ i = 1) \/ EffectiveShape(info)[i] \in {0, dims[i]}

WellFormed(r) ==
  LET doc(n) == Given(sent[r].body, n)
  IN  /\ GivesOnce(sent[r].body, DOMAIN original.inputs)
      /\ \A n \in DOMAIN original.inputs :
           /\ IsTable(doc(n), DimsOf(doc(n)))
           /\ Fits(original.inputs[n], DimsOf(doc(n)), original.batching = "AUTO", n \in original.auto)

\* The precisions that are served at all: blobs are made of the inputs, and the output
\* has the size of the type it is labelled with (serializeBlobToTensorProto labels 16 and
\* 64 bit outputs with others, and makeJsonFromPredictResponse then refuses the answer).
Served(s) ==
  /\ \A n \in DOMAIN s.inputs : s.inputs[n].precision \notin {"I64", "BOOL"}
  /\ s.output.precision \in {"FP32", "U8"}


\* A request waits beside an idle stream: returnStream missed its promise.
Stranded == idle > 0 /\ promises # <<>>

\* Every request is answered: requests that reload the model for shapes of their own
\* never wait for one another for ever.  The premise is that no promise is left beside an
\* idle stream for good, as InferRequestsQueue shows it can be when no further stream is
\* returned; the request then keeps its guard, too, and no reload succeeds.
EveryRequestAnswered == []<>~Stranded => \A r \in Requests : <>(pc[r] = "done")
=============================================================================
