------------------------- MODULE ModelConfiguration -------------------------
(***************************************************************************)
(* The configuration of a model: how an entry of the configuration file    *)
(* (ModelConfig::parseNode, src/src/modelconfig.cpp) or the parameters of  *)
(* the command line (ModelManager::startFromConfig) become a ModelConfig,  *)
(* and when two of them differ so that the model has to be loaded again    *)
(* (isReloadRequired).                                                     *)
(*                                                                         *)
(* A parameter is a record whose kind says what the parser finds: absent,  *)
(* one of the forms it accepts, or "bad" for a text it cannot read.        *)
(***************************************************************************)
EXTENDS Integers, Sequences, FiniteSets

Absent == [kind |-> "absent"]
Given(p) == p.kind # "absent"

Anonymous == "ANONYMOUS_INPUT_NAME"
NoValues == [x \in {} |-> x]

AllowedLayouts == {"NCHW", "NHWC"}
ToUpper == [nchw |-> "NCHW", nhwc |-> "NHWC", NCHW |-> "NCHW", NHWC |-> "NHWC", other |-> "OTHER"]

DefaultVersionPolicy == [kind |-> "latest", num |-> 1]
DefaultMaxSequenceNumber == 500

(***************************************************************************)
(* The parsers.                                                            *)
(***************************************************************************)

\* setBatchingParams and extractBatchingParams: a text that is no number is ignored.
ExtractBatchingParams(p) ==
  CASE p.kind = "auto" -> [mode |-> "AUTO", size |-> 0]
    [] p.kind = "number" -> [mode |-> "FIXED", size |-> p.n]
    [] OTHER -> [mode |-> "FIXED", size |-> 0]

\* parseShape; a shape is [kind: auto, fixed or bad, dims].
ShapeParses(s) == s.kind # "bad"

\* The shapes of an entry: one text for the only input, or a map.  A shape that does
\* not parse is left out, and so is one with the name of the anonymous input.
ParseShapes(p) ==
  CASE p.kind = "text" -> IF ShapeParses(p.shape) THEN [i \in {Anonymous} |-> p.shape] ELSE NoValues
    [] p.kind = "map" ->
         [i \in {j \in DOMAIN p.shapes : j # Anonymous /\ ShapeParses(p.shapes[j])} |-> p.shapes[i]]
    [] OTHER -> NoValues

\* parseShapeParameter of the command line: one bad shape refuses all.
ShapeParameterParses(p) ==
  CASE p.kind = "text" -> ShapeParses(p.shape)
    [] p.kind = "map" -> \A i \in DOMAIN p.shapes : ShapeParses(p.shapes[i])
    [] OTHER -> p.kind = "absent"
ParseShapeParameter(p) ==
  CASE p.kind = "text" -> [i \in {Anonymous} |-> p.shape] [] p.kind = "map" -> p.shapes [] OTHER -> NoValues

\* parseLayoutParameter: upper case, and only allowed layouts.
LayoutParses(p) ==
  CASE p.kind = "text" -> ToUpper[p.layout] \in AllowedLayouts
    [] p.kind = "map" -> \A i \in DOMAIN p.layouts : ToUpper[p.layouts[i]] \in AllowedLayouts
    [] OTHER -> p.kind = "absent"
ParseLayout(p) == IF p.kind = "text" THEN ToUpper[p.layout] ELSE ""
ParseLayouts(p) ==
  IF p.kind = "map" THEN [i \in DOMAIN p.layouts |-> ToUpper[p.layouts[i]]] ELSE NoValues

\* parsePluginConfig and parseCustomLoaderOptionsConfig: the values before the first
\* bad one are kept.
ParseValues(p) == IF Given(p) THEN p.values ELSE NoValues

\* parseModelVersionPolicy: versions are numbers above 0.
PolicyParses(p) == p.kind # "bad"
ParsePolicy(p) ==
  CASE p.kind = "specific" -> [p EXCEPT !.versions = {v \in @ : v > 0}]
    [] p.kind \in {"all", "latest"} -> p
    [] OTHER -> DefaultVersionPolicy

\* Both shape and batch size: the batch size is ignored.
Normalise(c) ==
  IF (c.batchingMode # "FIXED" \/ c.batchSize # 0) /\ c.shapes # NoValues
    THEN [c EXCEPT !.batchingMode = "FIXED", !.batchSize = 0] ELSE c

Value(p, default) == IF Given(p) THEN p.value ELSE default

\* What an entry and the command line have in common.
Config(e, shapes) ==
  LET batching == ExtractBatchingParams(e.batch)
  IN  Normalise([name |-> e.name, basePath |-> e.basePath, targetDevice |-> Value(e.targetDevice, "CPU"),
                 batchingMode |-> batching.mode, batchSize |-> batching.size,
                 nireq |-> Value(e.nireq, 0), shapes |-> shapes, layout |-> ParseLayout(e.layout),
                 layouts |-> ParseLayouts(e.layout), pluginConfig |-> ParseValues(e.plugin),
                 stateful |-> Value(e.stateful, FALSE), lowLatency |-> Value(e.lowLatency, FALSE),
                 idleCleanup |-> Value(e.idleCleanup, TRUE),
                 maxSequenceNumber |-> Value(e.maxSequence, DefaultMaxSequenceNumber),
                 policy |-> ParsePolicy(e.policy), loader |-> ParseValues(e.loader)])

\* parseNode.  Only layouts and the parameters of stateful models refuse an entry: the
\* statuses of shape, plugin configuration and version policy are not kept.
ParseNodeAccepts(e) ==
  /\ LayoutParses(e.layout)
  /\ ~ Value(e.stateful, FALSE) =>
       ~ Given(e.lowLatency) /\ ~ Given(e.idleCleanup) /\ ~ Given(e.maxSequence)
  /\ e.maxSequence.kind # "bad"
ParseNode(e) == Config(e, ParseShapes(e.shape))

\* startFromConfig refuses everything it cannot parse.
ParametersParse(e) ==
  e.plugin.kind # "bad" /\ PolicyParses(e.policy) /\ ShapeParameterParses(e.shape) /\ LayoutParses(e.layout)
ParseParameters(e) == Config(e, ParseShapeParameter(e.shape))

(***************************************************************************)
(* What configurations are compared and asked for.                         *)
(***************************************************************************)
Compared == {"name", "stateful", "idleCleanup", "maxSequenceNumber", "lowLatency", "basePath",
             "targetDevice", "batchingMode", "batchSize", "nireq", "pluginConfig", "layout", "layouts"}

IsShapeConfigurationEqual(c, d) ==
  /\ Cardinality(DOMAIN c.shapes) = Cardinality(DOMAIN d.shapes)
  /\ DOMAIN c.shapes # {} => c.shapes = d.shapes

IsCustomLoaderConfigChanged(c, d) ==
  \/ Cardinality(DOMAIN c.loader) # Cardinality(DOMAIN d.loader)
  \/ DOMAIN c.loader # {} /\ c.loader # d.loader

IsReloadRequired(c, d) ==
  \/ \E f \in Compared : c[f] # d[f]
  \/ ~ IsShapeConfigurationEqual(c, d)
  \/ IsCustomLoaderConfigChanged(c, d)

IsDynamicParameterEnabled(c) ==
  c.batchingMode = "AUTO" \/ \E i \in DOMAIN c.shapes : c.shapes[i].kind = "auto"

IsCustomLoaderRequired(c) == DOMAIN c.loader # {}
LoaderName(c) == c.loader["loader_name"]

(***************************************************************************)
(* Config::validate (src/src/config.cpp): the options of the server.       *)
(* ModelEntry is what they say about a single model.                       *)
(***************************************************************************)
MaxPortNumber == 65535
MaxRestWorkers == 10000
DefaultPort == 9178
WithinIfGiven(p, low, high) == Given(p) => p.value \in low .. high

ModelParametersGiven(e) ==
  \E p \in {"batch", "shape", "nireq", "policy", "targetDevice", "plugin"} : Given(e[p])

ValidOptions(o) ==
  LET e == o.modelEntry
      restPort == Value(o.restPort, 0)
  IN  /\ o.configPath => ~ o.modelName /\ ~ o.modelPath /\ ~ ModelParametersGiven(e)
      /\ ~ o.configPath => o.modelName /\ o.modelPath
      /\ WithinIfGiven(o.grpcWorkers, 1, o.cores)
      /\ WithinIfGiven(o.restWorkers, 2, MaxRestWorkers)
      /\ Given(o.restWorkers) /\ o.restWorkers.value # 4 * o.cores => restPort # 0
      /\ WithinIfGiven(o.port, 0, MaxPortNumber) /\ WithinIfGiven(o.restPort, 0, MaxPortNumber)
      /\ Value(o.port, DefaultPort) # restPort
      /\ o.bindAddresses.kind # "bad" /\ o.cpuExtension.kind # "bad" /\ o.logLevel.kind # "bad"
      /\ Given(e.lowLatency) \/ Given(e.maxSequence) \/ Given(e.idleCleanup) => Given(e.stateful)
=============================================================================
