---------------------------- MODULE MCModelStorage ----------------------------
(***************************************************************************)
(* ModelStorage for TLC: storages and base paths of the run.               *)
(***************************************************************************)
EXTENDS ModelStorage

MCFiles == {"x.xml", "x.bin"}
MCAccepted == MCFiles \cup {"mapping"}

Model(dir) == {Append(dir, f) : f \in MCFiles}

\* Two versions, the first with two levels of directories; a directory that is no
\* version, beside a file that is not accepted.
Deep == Model(<<"m", "1">>) \cup {<<"m", "1", "a", "mapping">>, <<"m", "1", "a", "b", "mapping">>}
Plain == Model(<<"m", "2">>) \cup {<<"m", "2", "notes">>, <<"m", "old", "x.xml">>}
Elsewhere == Model(<<"n", "1">>)

\* With the missing file of its first version, S3 lists neither the second version nor
\* the directory of the first on one page.
Crowded == {<<"m", "1", "x.bin">>, <<"m", "1", "notes">>, <<"m", "1", "mapping">>,
            <<"m", "1", "a", "mapping">>} \cup Model(<<"m", "2">>)

MCTrees ==
  {Deep \cup Plain \cup Elsewhere, Model(<<"m", "1">>) \cup Model(<<"m", "2">>), Plain, Crowded}
MCUploads == {<<"m", "1", "x.xml">>, <<"m", "2", "a", "mapping">>}

At(fs, dir) == [fs |-> fs, dir |-> dir, escaped |-> FALSE]
MCBases == {At(fs, <<"m">>) : fs \in FileSystems}
             \cup {At("s3", <<"n">>), At("az", <<>>), [At("gcs", <<"m">>) EXCEPT !.escaped = TRUE]}
=============================================================================
