------------------------ MODULE NodeSessionMetadata ------------------------
(***************************************************************************)
(* src/src/nodesessionmetadata.cpp: where in the nest of demultiplexers a  *)
(* session of a pipeline node is.  A metadata is the sequence of levels,   *)
(* outermost first (sessionsLevels with its details); a level has the name *)
(* of the demultiplexing node, the index of the shard and the number of    *)
(* shards.  A session key is what remains of it when the levels a node     *)
(* gathers from are collapsed.                                             *)
(***************************************************************************)
EXTENDS Integers, Sequences, FiniteSets, SequencesExt

Level(name, id, size) == [name |-> name, id |-> id, size |-> size]

\* generateSubsessions; it throws for a name that was used on the way.
CanGenerate(meta, name) == \A i \in DOMAIN meta : meta[i].name # name

GenerateSubsessions(meta, name, size) ==
  {Append(meta, Level(name, id, size)) : id \in 0 .. size - 1}

\* The innermost levels, as many as are collapsed.
Collapsed(meta, names) ==
  SubSeq(meta, Len(meta) - Cardinality(names) + 1, Len(meta))

\* Sessions are collapsed in LIFO order; otherwise getSessionKey,
\* getCollapsedSessionMetadata or getShardId throws.
CanCollapse(meta, names) ==
  /\ Cardinality(names) <= Len(meta)
  /\ {Collapsed(meta, names)[i].name : i \in 1 .. Cardinality(names)} = names

SessionKey(meta, names) == SubSeq(meta, 1, Len(meta) - Cardinality(names))

\* collapsedSessionSizes, multiplied.
CollapsedSize(meta, names) ==
  FoldLeft(LAMBDA acc, level : acc * level.size, 1, Collapsed(meta, names))

\* Mutant: the outermost level varies fastest.
ShardIdOuterFirst(meta, names) ==
  FoldLeft(LAMBDA acc, level : [id     |-> acc.id + acc.factor * level.id,
                                factor |-> acc.factor * level.size],
           [id |-> 0, factor |-> 1],
           Collapsed(meta, names)).id

\* getShardId: from the innermost level outwards.
ShardId(meta, names) ==
  FoldLeft(LAMBDA acc, level : [id     |-> acc.id + acc.factor * level.id,
                                factor |-> acc.factor * level.size],
           [id |-> 0, factor |-> 1],
           Reverse(Collapsed(meta, names))).id

(***************************************************************************)
(* Reference: where a shard belongs in a tensor whose leading dimensions   *)
(* are the sizes of the collapsed levels.                                  *)
(***************************************************************************)

\* The index tuples before those of this shard, in row-major order.
RowMajorPosition(meta, names) ==
  LET levels == Collapsed(meta, names)
      n == Len(levels)
      Indices == {t \in [1 .. n -> 0 .. CollapsedSize(meta, names)] :
                    \A i \in 1 .. n : t[i] < levels[i].size}
      Before(t) == \E i \in 1 .. n : /\ t[i] < levels[i].id
                                     /\ \A j \in 1 .. i - 1 : t[j] = levels[j].id
  IN Cardinality({t \in Indices : Before(t)})
=============================================================================
