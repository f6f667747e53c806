---------------------------- MODULE MCConfigReload ----------------------------
(***************************************************************************)
(* ConfigReload for TLC: the files and command lines of the run.           *)
(***************************************************************************)
EXTENDS ConfigReload

ModelEntry(name, base) ==
  [name |-> name, basePath |-> base, targetDevice |-> Absent, batch |-> Absent, nireq |-> Absent,
   shape |-> Absent, layout |-> Absent, plugin |-> Absent, stateful |-> Absent, lowLatency |-> Absent,
   idleCleanup |-> Absent, maxSequence |-> Absent, policy |-> Absent, loader |-> Absent]

Auto == [kind |-> "auto"]
Flag(b) == [kind |-> "flag", value |-> b]
Is(n) == [kind |-> "number", value |-> n]
List(S) == [kind |-> "list", of |-> S]

M == ModelEntry("m", "base")
Dynamic == [M EXCEPT !.batch = Auto]
Broken == [M EXCEPT !.layout = [kind |-> "text", layout |-> "other"]]
WithLoader == [M EXCEPT !.loader = [kind |-> "map", values |-> ("loader_name" :> "l")]]
Stateful == [ModelEntry("s", "base") EXCEPT !.stateful = Flag(TRUE)]

Pipe(uses, library) == [name |-> "p", uses |-> uses, library |-> library, nodesParse |-> TRUE]
Loader == [name |-> "l", opens |-> TRUE]
Library(path) == [name |-> "lib", path |-> path, opens |-> TRUE]

File(ms, ps) ==
  [kind |-> "json", loaders |-> Absent, models |-> ms, libraries |-> Absent, pipelines |-> ps]

Piped == [File(<<M>>, <<Pipe({"m"}, "lib")>>) EXCEPT !.libraries = List({Library("a")})]
Ungated == File(<<Dynamic>>, <<>>)
Invalid == [File(<<Broken>>, <<[Pipe({"m"}, "") EXCEPT !.nodesParse = FALSE], Pipe({"m"}, "")>>) EXCEPT
             !.libraries = List({[Library("b") EXCEPT !.opens = FALSE]})]
Loaded == [File(<<WithLoader, ModelEntry("p", "base")>>, <<Pipe({"m"}, ""), Pipe({"m"}, "")>>) EXCEPT
             !.loaders = List({Loader})]
Unloaded == [File(<<WithLoader, M, Stateful>>, <<>>) EXCEPT !.loaders = List({[Loader EXCEPT !.opens = FALSE]})]

MCContents ==
  [piped |-> Piped, ungated |-> Ungated, invalid |-> Invalid, loaded |-> Loaded, unloaded |-> Unloaded,
   missing |-> [kind |-> "missing"], garbled |-> [kind |-> "garbled"], badschema |-> [kind |-> "invalid"]]

NoOptions ==
  [configPath |-> TRUE, modelName |-> FALSE, modelPath |-> FALSE, cores |-> 4, grpcWorkers |-> Absent,
   restWorkers |-> Absent, port |-> Absent, restPort |-> Is(8000), pollWait |-> Absent,
   bindAddresses |-> Absent, cpuExtension |-> Absent, logLevel |-> Absent, modelEntry |-> M]

MCOptions ==
  [file |-> NoOptions, sameport |-> [NoOptions EXCEPT !.restPort = Is(9178)],
   single |-> [NoOptions EXCEPT !.configPath = FALSE, !.modelName = TRUE, !.modelPath = TRUE,
                                !.pollWait = Is(0)]]
=============================================================================
