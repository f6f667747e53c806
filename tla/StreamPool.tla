----------------------------- MODULE StreamPool -----------------------------
(***************************************************************************)
(* What the pool of inference streams of a loaded model promises to the    *)
(* guards that use it, with no ring, mutex or promise: a guard asks for a  *)
(* stream, is granted one nobody holds, and gives it back.                 *)
(* InferRequestsQueue (src/src/ovinferrequestsqueue.cpp) implements it.    *)
(***************************************************************************)
EXTENDS Integers

CONSTANTS Guards,    \* the guard objects that hold streams
          nireq      \* number of parallel infer requests of the model

VARIABLES asked,     \* the guards that asked for a stream and have none yet
          held       \* the stream each guard owns, -1 when it owns none

poolVars == <<asked, held>>

Streams == 0 .. nireq - 1

NoStream == -1

PoolInit ==
  /\ asked = {}
  /\ held = [g \in Guards |-> NoStream]

Ask(g) ==
  /\ g \notin asked
  /\ held[g] = NoStream
  /\ asked' = asked \cup {g}
  /\ UNCHANGED held

\* Only a stream that no guard owns may be granted.
Grant(g, s) ==
  /\ g \in asked
  /\ \A h \in Guards : held[h] # s
  /\ asked' = asked \ {g}
  /\ held' = [held EXCEPT ![g] = s]

GiveBack(g) ==
  /\ held[g] # NoStream
  /\ held' = [held EXCEPT ![g] = NoStream]
  /\ UNCHANGED asked

PoolNext ==
  \E g \in Guards :
    \/ Ask(g)
    \/ \E s \in Streams : Grant(g, s)
    \/ GiveBack(g)

PoolSpec == PoolInit /\ [][PoolNext]_poolVars
=============================================================================
