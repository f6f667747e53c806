----------------------- MODULE PipelineExecutionProofs -----------------------
(***************************************************************************)
(* Proofs about the execution of a pipeline, for any validated graphs, any *)
(* number of streams and any other users of them.                          *)
(*                                                                         *)
(* Two inductive invariants that need each other.  IInv is about streams,  *)
(* events and inferences; it holds as long as no session is started twice. *)
(* CountingInv is about inputs: a session waits for exactly the results    *)
(* that the sessions before it have not handed on, so that what is ready   *)
(* was not started.  How many results those are rests on inductions over   *)
(* the levels of demultiplexers, and that the exit node is reached on one  *)
(* over the graph.                                                         *)
(***************************************************************************)
EXTENDS PipelineExecution, FiniteSetTheorems, SequenceTheorems, WellFoundedInduction, TLAPS

(***************************************************************************)
(* Sequences without repetitions.                                          *)
(***************************************************************************)
LEMMA Appended ==
  ASSUME NEW S, NEW s \in Seq(S), NEW e \in S
  PROVE  /\ Append(s, e) \in Seq(S) /\ Range(Append(s, e)) = Range(s) \cup {e}
         /\ IsInjective(s) /\ e \notin Range(s) => IsInjective(Append(s, e))
         /\ Len(Append(s, e)) = Len(s) + 1 /\ Append(s, e)[Len(s) + 1] = e
         /\ \A i \in DOMAIN s : Append(s, e)[i] = s[i]
         /\ DOMAIN Append(s, e) = DOMAIN s \cup {Len(s) + 1}
<1> DEFINE t == Append(s, e)
<1>1. /\ t \in Seq(S) /\ Len(t) = Len(s) + 1 /\ Len(s) \in Nat /\ DOMAIN s = 1 .. Len(s) /\ DOMAIN t = 1 .. Len(s) + 1
      /\ t[Len(s) + 1] = e /\ \A i \in 1 .. Len(s) : t[i] = s[i]
  OBVIOUS
<1> HIDE DEF t
<1>2. DOMAIN t = DOMAIN s \cup {Len(s) + 1}
  BY <1>1
<1>3. Range(t) = Range(s) \cup {e}
  <2>1. ASSUME NEW x \in Range(t) PROVE x \in Range(s) \cup {e}
    <3>1. PICK i \in DOMAIN t : x = t[i]
      BY DEF Range
    <3> QED
      BY <1>1, <1>2, <3>1 DEF Range
  <2>2. ASSUME NEW x \in Range(s) PROVE x \in Range(t)
    <3>1. PICK i \in DOMAIN s : x = s[i]
      BY DEF Range
    <3>2. i \in DOMAIN t /\ t[i] = x
      BY <1>1, <1>2, <3>1
    <3> QED
      BY <3>2 DEF Range
  <2>3. e \in Range(t)
    BY <1>1, <1>2 DEF Range
  <2> QED
    BY <2>1, <2>2, <2>3
<1>4. ASSUME IsInjective(s), e \notin Range(s) PROVE IsInjective(t)
  <2> SUFFICES ASSUME NEW a \in DOMAIN t, NEW b \in DOMAIN t, t[a] = t[b] PROVE a = b
    BY DEF IsInjective
  <2>1. \A i \in DOMAIN s : s[i] # e
    BY <1>4 DEF Range
  <2> QED
    BY <1>1, <1>2, <1>4, <2>1 DEF IsInjective
<1> QED
  BY <1>1, <1>2, <1>3, <1>4 DEF t

LEMMA HeadTaken ==
  ASSUME NEW S, NEW s \in Seq(S), s # <<>>
  PROVE  /\ Tail(s) \in Seq(S) /\ Head(s) \in Range(s) /\ Head(s) \in S /\ Range(Tail(s)) \subseteq Range(s)
         /\ Head(s) = s[1] /\ 1 \in DOMAIN s
         /\ \A i \in DOMAIN Tail(s) : i + 1 \in DOMAIN s /\ Tail(s)[i] = s[i + 1]
         /\ IsInjective(s) => IsInjective(Tail(s)) /\ Range(Tail(s)) = Range(s) \ {Head(s)}
<1> DEFINE t == Tail(s)
<1>1. /\ t \in Seq(S) /\ Len(t) = Len(s) - 1 /\ Len(s) \in Nat \ {0} /\ DOMAIN s = 1 .. Len(s) /\ DOMAIN t = 1 .. Len(s) - 1
      /\ \A i \in 1 .. Len(s) - 1 : t[i] = s[i + 1]
      /\ Head(s) = s[1] /\ s[1] \in S
  OBVIOUS
<1> HIDE DEF t
<1>2. 1 \in DOMAIN s /\ \A i \in DOMAIN t : i + 1 \in DOMAIN s /\ t[i] = s[i + 1] /\ i \in Nat
  BY <1>1
<1>3. Range(t) \subseteq Range(s) /\ s[1] \in Range(s)
  BY <1>2 DEF Range
<1>4. ASSUME IsInjective(s) PROVE IsInjective(t)
  <2> SUFFICES ASSUME NEW a \in DOMAIN t, NEW b \in DOMAIN t, t[a] = t[b] PROVE a = b
    BY DEF IsInjective
  <2>1. a + 1 = b + 1
    BY <1>2, <1>4 DEF IsInjective
  <2> QED
    BY <1>2, <2>1
<1>5. ASSUME IsInjective(s) PROVE Range(t) = Range(s) \ {s[1]}
  <2>1. ASSUME NEW x \in Range(t) PROVE x # s[1]
    <3>1. PICK i \in DOMAIN t : x = s[i + 1]
      BY <1>2 DEF Range
    <3>2. x = s[1] => i + 1 = 1
      BY <1>2, <1>5, <3>1 DEF IsInjective
    <3> QED
      BY <1>1, <3>2
  <2>2. ASSUME NEW x \in Range(s), x # s[1] PROVE x \in Range(t)
    <3>1. PICK i \in DOMAIN s : x = s[i]
      BY DEF Range
    <3>2. i - 1 \in DOMAIN t /\ t[i - 1] = x
      BY <1>1, <2>2, <3>1
    <3> QED
      BY <3>2 DEF Range
  <2> QED
    BY <1>3, <2>1, <2>2
<1> QED
  BY <1>1, <1>2, <1>3, <1>4, <1>5 DEF t

LEMMA Removed ==
  ASSUME NEW S, NEW s \in Seq(S), NEW k \in DOMAIN s, IsInjective(s)
  PROVE  /\ RemoveAt(s, k) \in Seq(S) /\ IsInjective(RemoveAt(s, k)) /\ s[k] \notin Range(RemoveAt(s, k))
         /\ Range(RemoveAt(s, k)) \subseteq Range(s)
         /\ \A i \in DOMAIN RemoveAt(s, k) :
              \/ i < k /\ i \in DOMAIN s /\ RemoveAt(s, k)[i] = s[i]
              \/ i >= k /\ i + 1 \in DOMAIN s /\ RemoveAt(s, k)[i] = s[i + 1]
<1> DEFINE a == SubSeq(s, 1, k - 1)
           b == SubSeq(s, k + 1, Len(s))
           t == a \o b
<1>0. Len(s) \in Nat /\ k \in 1 .. Len(s) /\ DOMAIN s = 1 .. Len(s)
  OBVIOUS
<1>1. a \in Seq(S) /\ Len(a) = k - 1 /\ \A i \in 1 .. k - 1 : a[i] = s[i]
  BY <1>0
<1>2. b \in Seq(S) /\ Len(b) = Len(s) - k /\ \A i \in 1 .. Len(s) - k : b[i] = s[k + i]
  BY <1>0
<1>3. t = RemoveAt(s, k)
  BY DEF RemoveAt
<1> HIDE DEF a, b
<1>4. /\ t \in Seq(S) /\ Len(t) = Len(s) - 1 /\ DOMAIN t = 1 .. Len(s) - 1
      /\ \A i \in 1 .. Len(s) - 1 : t[i] = IF i <= k - 1 THEN a[i] ELSE b[i - (k - 1)]
  <2>1. /\ t \in Seq(S) /\ Len(t) = Len(a) + Len(b)
        /\ \A i \in 1 .. Len(a) + Len(b) : t[i] = IF i <= Len(a) THEN a[i] ELSE b[i - Len(a)]
    BY <1>1, <1>2, ConcatProperties
  <2>2. Len(a) + Len(b) = Len(s) - 1
    BY <1>0, <1>1, <1>2
  <2> HIDE DEF t
  <2>3. DOMAIN t = 1 .. Len(t)
    BY <2>1
  <2> QED
    BY <1>1, <2>1, <2>2, <2>3
<1> HIDE DEF t
<1>5. \A i \in DOMAIN t : \/ i < k /\ i \in DOMAIN s /\ t[i] = s[i]
                          \/ i >= k /\ i + 1 \in DOMAIN s /\ t[i] = s[i + 1]
  <2> SUFFICES ASSUME NEW i \in DOMAIN t
               PROVE  \/ i < k /\ i \in DOMAIN s /\ t[i] = s[i]
                      \/ i >= k /\ i + 1 \in DOMAIN s /\ t[i] = s[i + 1]
    OBVIOUS
  <2>1. CASE i < k
    <3>1. i \in 1 .. k - 1 /\ i \in 1 .. Len(s) - 1 /\ i <= k - 1
      BY <1>0, <1>4, <2>1
    <3>2. t[i] = a[i] /\ a[i] = s[i]
      BY <1>1, <1>4, <3>1
    <3>3. i \in DOMAIN s
      BY <1>0, <3>1
    <3>4. t[i] = s[i]
      BY <3>2
    <3> QED
      BY <2>1, <3>3, <3>4
  <2>2. CASE i >= k
    <3>1. i - (k - 1) \in 1 .. Len(s) - k /\ k + (i - (k - 1)) = i + 1
      BY <1>0, <1>4, <2>2
    <3>2. t[i] = b[i - (k - 1)] /\ b[i - (k - 1)] = s[k + (i - (k - 1))]
      BY <1>0, <1>2, <1>4, <2>2, <3>1
    <3> QED
      BY <1>0, <1>4, <2>2, <3>1, <3>2
  <2> QED
    BY <1>0, <1>4, <2>1, <2>2
<1>6. IsInjective(t)
  <2> SUFFICES ASSUME NEW i \in DOMAIN t, NEW j \in DOMAIN t, t[i] = t[j] PROVE i = j
    BY DEF IsInjective
  <2>1. i \in Nat /\ j \in Nat /\ k \in Nat
    BY <1>0, <1>4
  <2> QED
    BY <1>5, <2>1 DEF IsInjective
<1>7. s[k] \notin Range(t)
  <2> SUFFICES ASSUME NEW i \in DOMAIN t PROVE t[i] # s[k]
    BY DEF Range
  <2>1. i \in Nat /\ k \in Nat
    BY <1>0, <1>4
  <2> QED
    BY <1>5, <2>1 DEF IsInjective
<1>8. Range(t) \subseteq Range(s)
  BY <1>5 DEF Range
<1> QED
  BY <1>3, <1>4, <1>5, <1>6, <1>7, <1>8

\* A sequence over a set is one over a larger set.
LEMMA LargerSet ==
  ASSUME NEW S, NEW T, S \subseteq T, NEW s \in Seq(S)
  PROVE  s \in Seq(T)
OBVIOUS

LEMMA MembersOf ==
  ASSUME NEW S, NEW s \in Seq(S)
  PROVE  /\ Range(s) \subseteq S /\ (\A i \in DOMAIN s : s[i] \in Range(s)) /\ (s = <<>> => Range(s) = {})
         /\ Len(s) \in Nat /\ DOMAIN s = 1 .. Len(s)
BY DEF Range

(***************************************************************************)
(* Finite sets.                                                            *)
(***************************************************************************)
LEMMA OneMore ==
  ASSUME NEW S, IsFiniteSet(S), NEW x
  PROVE  /\ IsFiniteSet(S \cup {x}) /\ Cardinality(S) \in Nat
         /\ x \notin S => Cardinality(S \cup {x}) = Cardinality(S) + 1
BY FS_AddElement, FS_CardinalityType

LEMMA OneLess ==
  ASSUME NEW S, IsFiniteSet(S), NEW x
  PROVE  /\ IsFiniteSet(S \ {x}) /\ Cardinality(S) \in Nat
         /\ x \in S => Cardinality(S \ {x}) = Cardinality(S) - 1
BY FS_RemoveElement, FS_CardinalityType

(***************************************************************************)
(* Sessions.                                                               *)
(***************************************************************************)
Fields == {"remaining", "inputs", "used", "stream", "infer"}
StreamStates == {"none", "asked", "granted", "taken", "disarmed"}
InferStates == {"none", "running", "callback", "done"}

SessionsOK(ss) ==
  \A s \in DOMAIN ss :
    /\ s = <<s[1], s[2]>> /\ DOMAIN ss[s] = Fields
    /\ ss[s].stream \in StreamStates /\ ss[s].infer \in InferStates

\* The sessions that have a stream.
HeldIn(ss) == {s \in DOMAIN ss : ss[s].stream \in {"granted", "taken"}}

\* One session has changed.
Changed(ss, tt, s, stream, infer) ==
  /\ DOMAIN tt = DOMAIN ss /\ s \in DOMAIN ss
  /\ DOMAIN tt[s] = Fields /\ tt[s].stream = stream /\ tt[s].infer = infer
  /\ \A x \in DOMAIN ss : x # s => tt[x] = ss[x]

LEMMA StreamChanged ==
  ASSUME NEW ss, SessionsOK(ss), NEW s \in DOMAIN ss, NEW stream
  PROVE  Changed(ss, [ss EXCEPT ![s].stream = stream], s, stream, ss[s].infer)
<1> DEFINE r == [ss[s] EXCEPT !.stream = stream]
           tt == [ss EXCEPT ![s] = r]
<1>1. DOMAIN ss[s] = Fields
  BY DEF SessionsOK
<1>2. DOMAIN r = Fields /\ r.stream = stream /\ r.infer = ss[s].infer
  BY <1>1 DEF Fields
<1>3. tt = [ss EXCEPT ![s].stream = stream]
  OBVIOUS
<1> HIDE DEF r
<1>4. DOMAIN tt = DOMAIN ss /\ tt[s] = r /\ \A x \in DOMAIN ss : x # s => tt[x] = ss[x]
  OBVIOUS
<1> HIDE DEF tt
<1>5. Changed(ss, tt, s, stream, ss[s].infer)
  BY <1>2, <1>4 DEF Changed
<1> QED
  BY <1>3, <1>5

LEMMA InferChanged ==
  ASSUME NEW ss, SessionsOK(ss), NEW s \in DOMAIN ss, NEW infer
  PROVE  Changed(ss, [ss EXCEPT ![s].infer = infer], s, ss[s].stream, infer)
<1> DEFINE r == [ss[s] EXCEPT !.infer = infer]
           tt == [ss EXCEPT ![s] = r]
<1>1. DOMAIN ss[s] = Fields
  BY DEF SessionsOK
<1>2. DOMAIN r = Fields /\ r.infer = infer /\ r.stream = ss[s].stream
  BY <1>1 DEF Fields
<1>3. tt = [ss EXCEPT ![s].infer = infer]
  OBVIOUS
<1> HIDE DEF r
<1>4. DOMAIN tt = DOMAIN ss /\ tt[s] = r /\ \A x \in DOMAIN ss : x # s => tt[x] = ss[x]
  OBVIOUS
<1> HIDE DEF tt
<1>5. Changed(ss, tt, s, ss[s].stream, infer)
  BY <1>2, <1>4 DEF Changed
<1> QED
  BY <1>3, <1>5

LEMMA UsedChanged ==
  ASSUME NEW ss, SessionsOK(ss), NEW s \in DOMAIN ss, NEW used
  PROVE  Changed(ss, [ss EXCEPT ![s].used = used], s, ss[s].stream, ss[s].infer)
<1> DEFINE r == [ss[s] EXCEPT !.used = used]
           tt == [ss EXCEPT ![s] = r]
<1>1. DOMAIN ss[s] = Fields
  BY DEF SessionsOK
<1>2. DOMAIN r = Fields /\ r.infer = ss[s].infer /\ r.stream = ss[s].stream
  BY <1>1 DEF Fields
<1>3. tt = [ss EXCEPT ![s].used = used]
  OBVIOUS
<1> HIDE DEF r
<1>4. DOMAIN tt = DOMAIN ss /\ tt[s] = r /\ \A x \in DOMAIN ss : x # s => tt[x] = ss[x]
  OBVIOUS
<1> HIDE DEF tt
<1>5. Changed(ss, tt, s, ss[s].stream, ss[s].infer)
  BY <1>2, <1>4 DEF Changed
<1> QED
  BY <1>3, <1>5

\* Use of a session.
LEMMA UseChanges ==
  ASSUME SessionsOK(sessions), NEW s \in DOMAIN sessions, NEW stream, NEW infer, Use(s, stream, infer)
  PROVE  Changed(sessions, sessions', s, stream, infer)
<1> DEFINE u == [sessions[s] EXCEPT !.used = TRUE, !.stream = stream, !.infer = infer]
<1>1. DOMAIN sessions[s] = Fields
  BY DEF SessionsOK
<1>2. DOMAIN u = Fields /\ u.stream = stream /\ u.infer = infer
  BY <1>1 DEF Fields
<1>3. sessions' = [sessions EXCEPT ![s] = u]
  BY DEF Use
<1> HIDE DEF u
<1>4. DOMAIN sessions' = DOMAIN sessions /\ sessions'[s] = u /\ \A x \in DOMAIN sessions : x # s => sessions'[x] = sessions[x]
  BY <1>3
<1> QED
  BY <1>2, <1>4 DEF Changed

LEMMA ChangedOK ==
  ASSUME NEW ss, NEW tt, SessionsOK(ss), NEW s, NEW stream \in StreamStates, NEW infer \in InferStates,
         Changed(ss, tt, s, stream, infer)
  PROVE  /\ SessionsOK(tt)
         /\ stream \in {"granted", "taken"} => HeldIn(tt) = HeldIn(ss) \cup {s}
         /\ stream \notin {"granted", "taken"} => HeldIn(tt) = HeldIn(ss) \ {s}
<1>1. SessionsOK(tt)
  BY DEF SessionsOK, Changed
<1>2. \A x \in DOMAIN ss : x # s => (x \in HeldIn(tt) <=> x \in HeldIn(ss))
  BY DEF HeldIn, Changed
<1>3. s \in HeldIn(tt) <=> stream \in {"granted", "taken"}
  BY DEF HeldIn, Changed
<1>4. HeldIn(tt) \subseteq DOMAIN ss /\ HeldIn(ss) \subseteq DOMAIN ss
  BY DEF HeldIn, Changed
<1> QED
  BY <1>1, <1>2, <1>3, <1>4

(***************************************************************************)
(* Node::setInputs.                                                        *)
(***************************************************************************)

\* Sessions stay as they are; new ones have no stream and do not run.
Grows(ss, tt) ==
  /\ SessionsOK(tt) /\ DOMAIN ss \subseteq DOMAIN tt
  /\ \A s \in DOMAIN ss : tt[s].stream = ss[s].stream /\ tt[s].infer = ss[s].infer
  /\ \A s \in DOMAIN tt \ DOMAIN ss : tt[s].stream = "none" /\ tt[s].infer = "none"

LEMMA NewSessionIsIdle ==
  ASSUME NEW n, NEW meta
  PROVE  /\ DOMAIN NewSession(n, meta) = Fields
         /\ NewSession(n, meta).stream = "none" /\ NewSession(n, meta).infer = "none"
BY DEF NewSession, Fields

LEMMA TouchedGrows ==
  ASSUME NEW ss, SessionsOK(ss), NEW ns, NEW metas
  PROVE  Grows(ss, Touched(ss, ns, metas))
<1> DEFINE tt == Touched(ss, ns, metas)
           keys == {Key(p[1], p[2]) : p \in ns \X metas}
<1>1. /\ DOMAIN tt = DOMAIN ss \cup keys
      /\ \A x \in DOMAIN ss : tt[x] = ss[x]
      /\ \A x \in keys : x \notin DOMAIN ss => tt[x] = NewSession(x[1], CHOOSE m \in metas : Key(x[1], m) = x)
  BY DEF Touched
<1>2. \A x \in keys : x = <<x[1], x[2]>>
  BY DEF Key
<1> HIDE DEF tt, keys
<1>3. \A x \in DOMAIN tt \ DOMAIN ss : DOMAIN tt[x] = Fields /\ tt[x].stream = "none" /\ tt[x].infer = "none"
  BY <1>1, NewSessionIsIdle
<1>4. SessionsOK(tt)
  BY <1>1, <1>2, <1>3 DEF SessionsOK, StreamStates, InferStates
<1> QED
  BY <1>1, <1>3, <1>4 DEF Grows, tt

LEMMA SetInputsGrows ==
  ASSUME NEW ss, SessionsOK(ss), NEW ns, NEW from, NEW metas
  PROVE  Grows(ss, SetInputs(ss, ns, from, metas))
<1> DEFINE t == Touched(ss, ns, metas)
           u == SetInputs(ss, ns, from, metas)
<1>1. Grows(ss, t)
  BY TouchedGrows
<1>2. DOMAIN u = DOMAIN t
  BY DEF SetInputs
<1>3. \A x \in DOMAIN t : DOMAIN u[x] = Fields /\ u[x].stream = t[x].stream /\ u[x].infer = t[x].infer
  <2> SUFFICES ASSUME NEW x \in DOMAIN t
               PROVE  DOMAIN u[x] = Fields /\ u[x].stream = t[x].stream /\ u[x].infer = t[x].infer
    OBVIOUS
  <2> DEFINE r == t[x]
  <2>1. DOMAIN r = Fields
    BY <1>1 DEF Grows, SessionsOK
  <2>2. \E a, b : u[x] = [r EXCEPT !.remaining = a, !.inputs = b]
    BY DEF SetInputs
  <2>3. PICK a, b : u[x] = [r EXCEPT !.remaining = a, !.inputs = b]
    BY <2>2
  <2> HIDE DEF r, u
  <2>4. DOMAIN u[x] = Fields /\ u[x].stream = r.stream /\ u[x].infer = r.infer
    BY <2>1, <2>3 DEF Fields
  <2> QED
    BY <2>4 DEF r
<1> HIDE DEF t, u
<1>4. SessionsOK(u)
  BY <1>1, <1>2, <1>3 DEF SessionsOK, Grows
<1>5. Grows(ss, u)
  BY <1>1, <1>2, <1>3, <1>4 DEF Grows
<1> QED
  BY <1>5 DEF u

LEMMA GrowsFurther ==
  ASSUME NEW ss, NEW tt, NEW uu, Grows(ss, tt), Grows(tt, uu)
  PROVE  Grows(ss, uu)
<1>1. SessionsOK(uu) /\ DOMAIN ss \subseteq DOMAIN uu
  BY DEF Grows
<1>2. \A s \in DOMAIN ss : uu[s].stream = ss[s].stream /\ uu[s].infer = ss[s].infer
  BY DEF Grows
<1>3. ASSUME NEW s \in DOMAIN uu \ DOMAIN ss PROVE uu[s].stream = "none" /\ uu[s].infer = "none"
  <2>1. CASE s \in DOMAIN tt
    BY <2>1 DEF Grows
  <2>2. CASE s \notin DOMAIN tt
    BY <2>2 DEF Grows
  <2> QED
    BY <2>1, <2>2
<1> QED
  BY <1>1, <1>2, <1>3 DEF Grows

(***************************************************************************)
(* The streams.                                                            *)
(***************************************************************************)
Served(w, oth) == {o \in Others : oth[o] = "asked" /\ <<o>> \notin Range(w)}

Asked(ss, w, oth) ==
  /\ IsInjective(w)
  /\ \A i \in DOMAIN w :
       \/ w[i] \in DOMAIN ss /\ ss[w[i]].stream = "asked"
       \/ \E o \in Others : w[i] = <<o>> /\ oth[o] = "asked"

\* Sessions stay as they are, but for one that is granted a stream.
Follows(ss, tt) ==
  /\ DOMAIN tt = DOMAIN ss
  /\ \A s \in DOMAIN ss :
       /\ tt[s].infer = ss[s].infer
       /\ tt[s].stream = ss[s].stream \/ (ss[s].stream = "asked" /\ tt[s].stream = "granted")

\* No session is another user.
LEMMA SessionsAreNoUsers ==
  ASSUME NEW ss, SessionsOK(ss), NEW s \in DOMAIN ss, NEW o
  PROVE  s # <<o>>
<1>1. s = <<s[1], s[2]>>
  BY DEF SessionsOK
<1>2. \A a, b, c : <<a, b>> # <<c>>
  <2> SUFFICES ASSUME NEW a, NEW b, NEW c, <<a, b>> = <<c>> PROVE FALSE
    OBVIOUS
  <2>1. Len(<<a, b>>) = 2 /\ Len(<<c>>) = 1
    OBVIOUS
  <2> QED
    BY <2>1
<1> QED
  BY <1>1, <1>2

LEMMA SameUser ==
  ASSUME NEW o, NEW p, <<o>> = <<p>>
  PROVE  o = p
<1>1. <<o>>[1] = o /\ <<p>>[1] = p
  OBVIOUS
<1> QED
  BY <1>1

\* Another user is not a session: one case or the other.
LEMMA HeadGranted ==
  ASSUME NEW ss, SessionsOK(ss), NEW W, NEW w \in Seq(W), w # <<>>, NEW oth, Asked(ss, w, oth),
         NEW h \in DOMAIN ss, h = Head(w), IsFiniteSet(HeldIn(ss)),
         NEW tt, Changed(ss, tt, h, "granted", ss[h].infer)
  PROVE  /\ SessionsOK(tt) /\ Follows(ss, tt) /\ Asked(tt, Tail(w), oth)
         /\ IsFiniteSet(HeldIn(tt)) /\ Cardinality(HeldIn(tt)) = Cardinality(HeldIn(ss)) + 1
         /\ Served(Tail(w), oth) = Served(w, oth)
<1>1. /\ Tail(w) \in Seq(W) /\ h = w[1] /\ 1 \in DOMAIN w
      /\ \A i \in DOMAIN Tail(w) : i + 1 \in DOMAIN w /\ Tail(w)[i] = w[i + 1]
      /\ IsInjective(Tail(w)) /\ Range(Tail(w)) = Range(w) \ {h}
  BY HeadTaken DEF Asked
<1>2. ss[h].stream = "asked"
  BY <1>1, SessionsAreNoUsers DEF Asked
<1>3. Changed(ss, tt, h, "granted", ss[h].infer)
  OBVIOUS
<1>4. ss[h].infer \in InferStates /\ "granted" \in StreamStates
  BY DEF SessionsOK, StreamStates
<1>5. SessionsOK(tt) /\ HeldIn(tt) = HeldIn(ss) \cup {h}
  <2> DEFINE f == ss[h].infer
             g == "granted"
  <2>1. f \in InferStates /\ g \in StreamStates /\ g \in {"granted", "taken"} /\ Changed(ss, tt, h, g, f)
    BY <1>3, <1>4
  <2> HIDE DEF f, g
  <2> QED
    BY <2>1, ChangedOK, Zenon
<1>6. h \notin HeldIn(ss)
  BY <1>2 DEF HeldIn
<1>7. IsFiniteSet(HeldIn(tt)) /\ Cardinality(HeldIn(tt)) = Cardinality(HeldIn(ss)) + 1
  <2> DEFINE H == HeldIn(ss)
  <2>1. IsFiniteSet(H) /\ h \notin H /\ HeldIn(tt) = H \cup {h}
    BY <1>5, <1>6
  <2> HIDE DEF H
  <2>2. IsFiniteSet(H \cup {h}) /\ Cardinality(H \cup {h}) = Cardinality(H) + 1
    BY <2>1, OneMore
  <2> QED
    BY <2>1, <2>2 DEF H
<1>8. Follows(ss, tt)
  BY <1>2, <1>3 DEF Changed, Follows
<1>9. Asked(tt, Tail(w), oth)
  <2> SUFFICES ASSUME NEW i \in DOMAIN Tail(w)
               PROVE  \/ Tail(w)[i] \in DOMAIN tt /\ tt[Tail(w)[i]].stream = "asked"
                      \/ \E o \in Others : Tail(w)[i] = <<o>> /\ oth[o] = "asked"
    BY <1>1 DEF Asked
  <2>1. Tail(w)[i] # h
    BY <1>1 DEF Range
  <2>2. i + 1 \in DOMAIN w /\ Tail(w)[i] = w[i + 1]
    BY <1>1
  <2>3. CASE w[i + 1] \in DOMAIN ss /\ ss[w[i + 1]].stream = "asked"
    BY <1>3, <2>1, <2>2, <2>3 DEF Changed
  <2>4. CASE \E o \in Others : w[i + 1] = <<o>> /\ oth[o] = "asked"
    BY <2>2, <2>4
  <2> QED
    BY <2>2, <2>3, <2>4 DEF Asked
<1>10. Served(Tail(w), oth) = Served(w, oth)
  BY <1>1, SessionsAreNoUsers DEF Served
<1> QED
  BY <1>5, <1>7, <1>8, <1>9, <1>10

LEMMA UserServed ==
  ASSUME NEW ss, SessionsOK(ss), NEW W, NEW w \in Seq(W), w # <<>>, NEW oth, Asked(ss, w, oth),
         NEW p \in Others, Head(w) = <<p>>
  PROVE  /\ Asked(ss, Tail(w), oth)
         /\ Cardinality(Served(Tail(w), oth)) = Cardinality(Served(w, oth)) + 1
<1>1. /\ Tail(w) \in Seq(W) /\ Head(w) = w[1] /\ 1 \in DOMAIN w /\ Head(w) \in Range(w)
      /\ \A i \in DOMAIN Tail(w) : i + 1 \in DOMAIN w /\ Tail(w)[i] = w[i + 1]
      /\ IsInjective(Tail(w)) /\ Range(Tail(w)) = Range(w) \ {Head(w)}
  BY HeadTaken DEF Asked
<1>2. Asked(ss, Tail(w), oth)
  BY <1>1 DEF Asked
<1>3. oth[p] = "asked"
  BY <1>1, SessionsAreNoUsers, SameUser DEF Asked
<1>4. Served(Tail(w), oth) = Served(w, oth) \cup {p} /\ p \notin Served(w, oth)
  BY <1>1, <1>3, SameUser DEF Served
<1>5. IsFiniteSet(Served(w, oth))
  BY UsersAssumption, FS_Subset DEF Served
<1> QED
  BY <1>2, <1>4, <1>5, OneMore

\* returnStream: one more stream is idle, with a session or with another user.
LEMMA StreamComesBack ==
  ASSUME NEW ss, SessionsOK(ss), NEW W, waiting \in Seq(W), Asked(ss, waiting, other'),
         IsFiniteSet(HeldIn(ss)), idle \in Nat, ReturnStream(ss)
  PROVE  /\ SessionsOK(sessions') /\ Follows(ss, sessions') /\ waiting' \in Seq(W) /\ idle' \in Nat
         /\ Asked(sessions', waiting', other') /\ IsFiniteSet(HeldIn(sessions'))
         /\ idle' + Cardinality(HeldIn(sessions')) + Cardinality(Served(waiting', other'))
              = idle + Cardinality(HeldIn(ss)) + Cardinality(Served(waiting, other')) + 1
<1>0. Cardinality(HeldIn(ss)) \in Nat /\ Cardinality(Served(waiting, other')) \in Nat
  <2>1. IsFiniteSet(Served(waiting, other'))
    BY UsersAssumption, FS_Subset DEF Served
  <2> QED
    BY <2>1, FS_CardinalityType
<1>a. Follows(ss, ss)
  BY DEF Follows
<1>1. CASE waiting = <<>> /\ sessions' = ss /\ idle' = idle + 1 /\ UNCHANGED waiting
  BY <1>0, <1>1, <1>a
<1>2. CASE /\ waiting # <<>> /\ Head(waiting) \in DOMAIN ss
           /\ sessions' = [ss EXCEPT ![Head(waiting)].stream = "granted"] /\ waiting' = Tail(waiting) /\ UNCHANGED idle
  <2>1. /\ SessionsOK(sessions') /\ Follows(ss, sessions') /\ Asked(sessions', waiting', other')
        /\ IsFiniteSet(HeldIn(sessions')) /\ Cardinality(HeldIn(sessions')) = Cardinality(HeldIn(ss)) + 1
        /\ Served(waiting', other') = Served(waiting, other')
    <3> DEFINE w == waiting
               h == Head(waiting)
               tt == sessions'
               oth == other'
    <3>1. h \in DOMAIN ss /\ h = Head(w) /\ w \in Seq(W) /\ w # <<>> /\ Asked(ss, w, oth) /\ waiting' = Tail(w)
      BY <1>2
    <3>2. Changed(ss, tt, h, "granted", ss[h].infer)
      <4>1. Changed(ss, [ss EXCEPT ![h].stream = "granted"], h, "granted", ss[h].infer)
        BY <3>1, StreamChanged
      <4> QED
        BY <1>2, <4>1
    <3> HIDE DEF w, h, tt, oth
    <3>3. /\ SessionsOK(tt) /\ Follows(ss, tt) /\ Asked(tt, Tail(w), oth)
          /\ IsFiniteSet(HeldIn(tt)) /\ Cardinality(HeldIn(tt)) = Cardinality(HeldIn(ss)) + 1
          /\ Served(Tail(w), oth) = Served(w, oth)
      BY <3>1, <3>2, HeadGranted, Zenon
    <3> QED
      BY <3>1, <3>3 DEF w, tt, oth
  <2>2. waiting' \in Seq(W)
    BY <1>2, HeadTaken
  <2> QED
    BY <1>0, <1>2, <2>1, <2>2
<1>3. CASE /\ waiting # <<>> /\ Head(waiting) \in {<<o>> : o \in Others}
           /\ sessions' = ss /\ waiting' = Tail(waiting) /\ UNCHANGED idle
  <2>1. PICK p \in Others : Head(waiting) = <<p>>
    BY <1>3
  <2>2. /\ Asked(sessions', waiting', other')
        /\ Cardinality(Served(waiting', other')) = Cardinality(Served(waiting, other')) + 1
    BY <1>3, <2>1, UserServed
  <2>3. waiting' \in Seq(W)
    BY <1>3, HeadTaken
  <2> QED
    BY <1>0, <1>3, <1>a, <2>2, <2>3
<1> QED
  BY <1>1, <1>2, <1>3 DEF ReturnStream

\* A session that does not wait changes.
LEMMA StillAsked ==
  ASSUME NEW ss, NEW tt, NEW s, NEW stream, NEW infer, NEW w, NEW oth, Asked(ss, w, oth),
         Changed(ss, tt, s, stream, infer), ss[s].stream = "asked" => stream = "asked"
  PROVE  Asked(tt, w, oth)
BY DEF Asked, Changed

(***************************************************************************)
(* What the invariant says of sessions and streams, in these terms.        *)
(***************************************************************************)
Waiters == started \cup {<<o>> : o \in Others}

Counted(ss, w, oth, i) ==
  i \in Nat /\ i + Cardinality(HeldIn(ss)) + Cardinality(Served(w, oth)) = nireq

LEMMA SessionsTyped ==
  ASSUME TypeOK
  PROVE  SessionsOK(sessions)
BY DEF TypeOK, SessionsOK, Fields, StreamStates, InferStates

LEMMA Facts ==
  ASSUME IInv
  PROVE  /\ SessionsOK(sessions) /\ Asked(sessions, waiting, other) /\ Counted(sessions, waiting, other, idle)
         /\ HeldIn(sessions) \subseteq started /\ IsFiniteSet(HeldIn(sessions)) /\ waiting \in Seq(Waiters)
<1>1. SessionsOK(sessions)
  BY SessionsTyped DEF IInv
<1>2. Asked(sessions, waiting, other)
  BY DEF IInv, WaitersAsked, Asked
<1>3. Counted(sessions, waiting, other, idle)
  BY DEF IInv, TypeOK, StreamsReturned, Held, OthersServed, Counted, HeldIn, Served
<1>4. HeldIn(sessions) \subseteq started
  BY DEF IInv, UnstartedIsIdle, HeldIn
<1>5. IsFiniteSet(started) /\ waiting \in Seq(Waiters)
  BY DEF IInv, TypeOK, Waiters
<1>6. IsFiniteSet(HeldIn(sessions))
  BY <1>4, <1>5, FS_Subset
<1> QED
  BY <1>1, <1>2, <1>3, <1>4, <1>5, <1>6

\* The invariant after a step, from its parts.
LEMMA FactsNext ==
  ASSUME TypeOK', UnstartedIsIdle', ReportedOnce', DeferredWaits', FinishedIsQuiet',
         Asked(sessions', waiting', other'), Counted(sessions', waiting', other', idle')
  PROVE  IInv'
<1>1. WaitersAsked'
  BY DEF WaitersAsked, Asked
<1>2. StreamsReturned'
  BY DEF StreamsReturned, Held, OthersServed, Counted, HeldIn, Served
<1> QED
  BY <1>1, <1>2 DEF IInv

\* Steps that change neither sessions nor streams.
LEMMA PoolUnchanged ==
  ASSUME IInv, UNCHANGED <<sessions, started, poolVars>>
  PROVE  /\ SessionsOK(sessions') /\ UnstartedIsIdle'
         /\ Asked(sessions', waiting', other') /\ Counted(sessions', waiting', other', idle')
<1>1. sessions' = sessions /\ waiting' = waiting /\ other' = other /\ idle' = idle /\ started' = started
  BY DEF poolVars
<1>2. UnstartedIsIdle'
  BY <1>1 DEF IInv, UnstartedIsIdle
<1> QED
  BY <1>1, <1>2, Facts

\* Release of the stream of session s: ss are the other sessions.
LEMMA ReleaseCounted ==
  ASSUME IInv, NEW s \in DOMAIN sessions, NEW ss, SessionsOK(ss), Asked(ss, waiting, other),
         HeldIn(ss) = HeldIn(sessions) \ {s}, other' = other, Release(s, ss)
  PROVE  /\ SessionsOK(sessions') /\ Follows(ss, sessions') /\ waiting' \in Seq(Waiters) /\ idle' \in Nat
         /\ Asked(sessions', waiting', other') /\ Counted(sessions', waiting', other', idle')
<1>0. /\ Counted(sessions, waiting, other, idle) /\ IsFiniteSet(HeldIn(sessions))
      /\ waiting \in Seq(Waiters) /\ idle \in Nat
  BY Facts DEF Counted
<1>1. CASE sessions[s].stream \in {"none", "disarmed"} /\ sessions' = ss /\ UNCHANGED <<idle, waiting>>
  <2>1. s \notin HeldIn(sessions)
    BY <1>1 DEF HeldIn
  <2>2. HeldIn(ss) = HeldIn(sessions)
    BY <2>1
  <2>3. Counted(sessions', waiting', other', idle')
    BY <1>0, <1>1, <2>2 DEF Counted, Served
  <2>4. Follows(ss, ss)
    BY DEF Follows
  <2> QED
    BY <1>0, <1>1, <2>3, <2>4
<1>2. CASE sessions[s].stream \in {"granted", "taken"} /\ ReturnStream(ss)
  <2>1. s \in HeldIn(sessions)
    BY <1>2 DEF HeldIn
  <2>2. /\ IsFiniteSet(HeldIn(ss)) /\ Cardinality(HeldIn(ss)) = Cardinality(HeldIn(sessions)) - 1
        /\ Cardinality(HeldIn(sessions)) \in Nat
    BY <1>0, <2>1, OneLess
  <2>3. Asked(ss, waiting, other')
    OBVIOUS
  <2>4. /\ SessionsOK(sessions') /\ Follows(ss, sessions') /\ waiting' \in Seq(Waiters) /\ idle' \in Nat
        /\ Asked(sessions', waiting', other') /\ IsFiniteSet(HeldIn(sessions'))
        /\ idle' + Cardinality(HeldIn(sessions')) + Cardinality(Served(waiting', other'))
             = idle + Cardinality(HeldIn(ss)) + Cardinality(Served(waiting, other')) + 1
    BY <1>0, <1>2, <2>2, <2>3, StreamComesBack
  <2>5. Served(waiting, other') = Served(waiting, other) /\ Cardinality(Served(waiting, other)) \in Nat
    <3>1. IsFiniteSet(Served(waiting, other))
      BY UsersAssumption, FS_Subset DEF Served
    <3> QED
      BY <3>1, FS_CardinalityType
  <2>6. Counted(sessions', waiting', other', idle')
    BY <1>0, <2>2, <2>4, <2>5 DEF Counted
  <2> QED
    BY <2>4, <2>6
<1> QED
  BY <1>1, <1>2 DEF Release

(***************************************************************************)
(* The event loop, where it touches neither sessions nor streams.          *)
(***************************************************************************)
LEMMA AllFinished ==
  ASSUME TypeOK, NEW fin, fin \subseteq started, BreakIfAllFinished(fin)
  PROVE  pc' \in {"loop", "returned"} /\ (pc' = "returned" => fin = started)
<1>1. IsFiniteSet(started)
  BY DEF TypeOK
<1>2. Cardinality(fin) = Cardinality(started) => fin = started
  BY <1>1, FS_Subset
<1> QED
  BY <1>2 DEF BreakIfAllFinished

LEMMA PullFinishedStep ==
  ASSUME IInv, PullFinished
  PROVE  IInv'
<1> DEFINE h == Head(events)
<1>0. pc = "loop" /\ ~ error /\ pc' = "fetch" /\ current' = h /\ finished' = finished \cup {h} /\ events' = Tail(events)
  BY DEF PullFinished
<1>1. /\ events' \in Seq(started) /\ h \in Range(events) /\ h \in started
      /\ IsInjective(events') /\ Range(events') = Range(events) \ {h}
  BY HeadTaken DEF PullFinished, IInv, TypeOK, ReportedOnce
<1> HIDE DEF h
<1>2. /\ SessionsOK(sessions') /\ UnstartedIsIdle'
      /\ Asked(sessions', waiting', other') /\ Counted(sessions', waiting', other', idle')
  BY PoolUnchanged DEF PullFinished
<1>3. TypeOK'
  BY <1>0, <1>1 DEF IInv, TypeOK, PullFinished, poolVars
<1>4. ReportedOnce'
  BY <1>0, <1>1 DEF IInv, ReportedOnce, PullFinished
<1>5. DeferredWaits'
  BY <1>0, <1>1 DEF IInv, DeferredWaits, PullFinished
<1>6. FinishedIsQuiet'
  <2>1. h \in DOMAIN sessions
    BY <1>1 DEF IInv, ReportedOnce
  <2> QED
    BY <1>0, <2>1 DEF IInv, FinishedIsQuiet, PullFinished
<1> QED
  BY <1>2, <1>3, <1>4, <1>5, <1>6, FactsNext

\* Steps that move the loop on, at most to its return.
LEMMA LoopMoves ==
  ASSUME IInv, UNCHANGED <<sessions, events, started, finished, deferred, error, poolVars>>,
         pc # "fetch", pc' \notin {"entry", "fetch"}, TypeOK',
         pc' = "retry" => \A i \in DOMAIN deferred : deferred[i] \in Range(events) \cup finished => i < position',
         pc' = "disarm" => \A i \in DOMAIN deferred : deferred[i] \notin Range(events),
         pc' = "returned" => finished = started
  PROVE  IInv'
<1>1. /\ UnstartedIsIdle' /\ Asked(sessions', waiting', other') /\ Counted(sessions', waiting', other', idle')
  BY PoolUnchanged DEF poolVars
<1>2. ReportedOnce'
  BY DEF IInv, ReportedOnce
<1>3. DeferredWaits'
  BY DEF IInv, DeferredWaits
<1>4. FinishedIsQuiet'
  BY DEF IInv, FinishedIsQuiet
<1> QED
  BY <1>1, <1>2, <1>3, <1>4, FactsNext

LEMMA StartNodeStep ==
  ASSUME IInv, NEW n \in todo, StartNode(n)
  PROVE  IInv'
<1>1. TypeOK'
  BY DEF IInv, TypeOK, StartNode, ReadySessions, poolVars
<1> QED
  BY <1>1, LoopMoves DEF StartNode

LEMMA StartsDoneStep ==
  ASSUME IInv, StartsDone
  PROVE  IInv'
<1>1. pc' \in {"loop", "returned"} /\ (pc' = "returned" => finished = started)
  BY AllFinished DEF IInv, TypeOK, StartsDone
<1>2. TypeOK'
  BY <1>1 DEF IInv, TypeOK, StartsDone, poolVars
<1> QED
  BY <1>1, <1>2, LoopMoves DEF StartsDone

LEMMA TimeoutStep ==
  ASSUME IInv, Timeout
  PROVE  IInv'
<1>1. pc' \in {"retry", "disarm"} /\ (pc' = "retry" => ~ error)
  BY DEF Timeout
<1>2. TypeOK'
  BY <1>1 DEF IInv, TypeOK, Timeout, poolVars
<1>3. Range(events) = {}
  BY DEF Timeout, Range
<1>4. pc' = "retry" => \A i \in DOMAIN deferred : deferred[i] \notin Range(events) \cup finished
  BY <1>1 DEF IInv, DeferredWaits
<1> QED
  BY <1>1, <1>2, <1>3, <1>4, LoopMoves DEF Timeout

LEMMA RetriesDoneStep ==
  ASSUME IInv, RetriesDone
  PROVE  IInv'
<1>1. TypeOK'
  BY DEF IInv, TypeOK, RetriesDone, poolVars
<1> QED
  BY <1>1, LoopMoves DEF RetriesDone

LEMMA DisarmTimeoutStep ==
  ASSUME IInv, DisarmTimeout
  PROVE  IInv'
<1>1. TypeOK'
  BY DEF IInv, TypeOK, DisarmTimeout, AtDeferred, poolVars
<1>2. pc = "disarm" /\ pc' = "disarm"
  BY DEF DisarmTimeout, AtDeferred
<1>3. \A i \in DOMAIN deferred : deferred[i] \notin Range(events)
  BY <1>2 DEF IInv, DeferredWaits
<1> QED
  BY <1>1, <1>2, <1>3, LoopMoves DEF DisarmTimeout

LEMMA DisarmsDoneStep ==
  ASSUME IInv, DisarmsDone
  PROVE  IInv'
<1>1. pc' \in {"loop", "returned"} /\ (pc' = "returned" => finished = started)
  BY AllFinished DEF IInv, TypeOK, DisarmsDone
<1>2. TypeOK'
  BY <1>1 DEF IInv, TypeOK, DisarmsDone, poolVars
<1> QED
  BY <1>1, <1>2, LoopMoves DEF DisarmsDone

(***************************************************************************)
(* Sessions that give their stream back.                                   *)
(***************************************************************************)
LEMMA PullAfterErrorStep ==
  ASSUME IInv, PullAfterError
  PROVE  IInv'
<1> DEFINE h == Head(events)
           ss == [sessions EXCEPT ![h].stream = "none"]
<1>0. pc = "loop" /\ error /\ error' = error /\ finished' = finished \cup {h} /\ events' = Tail(events)
      /\ Release(h, ss) /\ other' = other /\ BreakIfAllFinished(finished \cup {h})
      /\ UNCHANGED <<started, deferred, batch, position>>
  BY DEF PullAfterError
<1>1. /\ events' \in Seq(started) /\ h \in Range(events) /\ h \in started
      /\ IsInjective(events') /\ Range(events') = Range(events) \ {h}
  BY HeadTaken DEF PullAfterError, IInv, TypeOK, ReportedOnce
<1> HIDE DEF h
<1>2. h \in DOMAIN sessions /\ h \notin finished /\ sessions[h].infer # "running"
  BY <1>1 DEF IInv, ReportedOnce
<1>3. sessions[h].stream # "asked"
  BY <1>0 DEF Release
<1>4. SessionsOK(sessions) /\ Asked(sessions, waiting, other)
  BY Facts
<1>5. Changed(sessions, ss, h, "none", sessions[h].infer)
  BY <1>2, <1>4, StreamChanged
<1> HIDE DEF ss
<1>6. SessionsOK(ss) /\ HeldIn(ss) = HeldIn(sessions) \ {h}
  <2> DEFINE f == sessions[h].infer
             g == "none"
  <2>1. f \in InferStates /\ g \in StreamStates /\ g \notin {"granted", "taken"} /\ Changed(sessions, ss, h, g, f)
    BY <1>2, <1>4, <1>5 DEF SessionsOK, StreamStates
  <2> HIDE DEF f, g
  <2> QED
    BY <1>4, <2>1, ChangedOK, Zenon
<1>7. Asked(ss, waiting, other)
  BY <1>3, <1>4, <1>5, StillAsked
<1>8. /\ SessionsOK(sessions') /\ Follows(ss, sessions') /\ waiting' \in Seq(Waiters) /\ idle' \in Nat
      /\ Asked(sessions', waiting', other') /\ Counted(sessions', waiting', other', idle')
  BY <1>0, <1>2, <1>6, <1>7, ReleaseCounted
<1>9. /\ DOMAIN sessions' = DOMAIN sessions /\ sessions'[h].stream = "none"
      /\ \A s \in DOMAIN sessions :
           /\ sessions'[s].infer = sessions[s].infer
           /\ sessions[s].stream \in {"none", "disarmed"} => sessions'[s].stream \in {"none", "disarmed"}
           /\ sessions[s].stream = "none" => sessions'[s].stream = "none"
  BY <1>2, <1>5, <1>8 DEF Changed, Follows
<1>10. pc' \in {"loop", "returned"} /\ (pc' = "returned" => finished' = started)
  BY <1>0, <1>1, AllFinished DEF IInv, TypeOK
<1>11. TypeOK'
  <2>1. finished' \subseteq started' /\ deferred' \in Seq(started') /\ IsFiniteSet(started') /\ events' \in Seq(started')
    BY <1>0, <1>1 DEF IInv, TypeOK
  <2>2. waiting' \in Seq(started' \cup {<<o>> : o \in Others})
    BY <1>0, <1>8 DEF Waiters
  <2>3. error' \in BOOLEAN /\ position' \in Nat /\ other' \in [Others -> {"out", "asked"}] /\ batch' = {}
    BY <1>0 DEF IInv, TypeOK
  <2> QED
    BY <1>8, <1>10, <2>1, <2>2, <2>3 DEF TypeOK, SessionsOK, Fields, StreamStates, InferStates
<1>12. UnstartedIsIdle'
  BY <1>0, <1>9 DEF IInv, UnstartedIsIdle
<1>13. ReportedOnce'
  BY <1>0, <1>1, <1>2, <1>9 DEF IInv, ReportedOnce
<1>14. DeferredWaits'
  BY <1>0, <1>1, <1>9, <1>10 DEF IInv, DeferredWaits
<1>15. FinishedIsQuiet'
  BY <1>0, <1>2, <1>9, <1>10 DEF IInv, FinishedIsQuiet
<1> QED
  BY <1>8, <1>11, <1>12, <1>13, <1>14, <1>15, FactsNext

\* fetchResults erases the session; the results, the response and where the
\* loop goes next do not matter here.
LEMMA SessionErased ==
  ASSUME IInv, pc = "fetch", EraseCurrent, other' = other, error' \in BOOLEAN,
         UNCHANGED <<events, started, finished, deferred, batch, position>>,
         pc' \in {"propagate", "loop", "returned"}, pc' = "returned" => finished = started
  PROVE  IInv'
<1> DEFINE ss == Restrict(sessions, DOMAIN sessions \ {current})
<1>0. Release(current, ss) /\ ~ error /\ current \in finished /\ current \in DOMAIN sessions
  BY DEF EraseCurrent, IInv, FinishedIsQuiet
<1>1. DOMAIN ss = DOMAIN sessions \ {current} /\ \A s \in DOMAIN ss : ss[s] = sessions[s]
  BY DEF Restrict
<1> HIDE DEF ss
<1>2. SessionsOK(sessions) /\ Asked(sessions, waiting, other)
  BY Facts
<1>3. SessionsOK(ss) /\ HeldIn(ss) = HeldIn(sessions) \ {current}
  BY <1>1, <1>2 DEF SessionsOK, HeldIn
<1>4. Asked(ss, waiting, other)
  <2>1. sessions[current].stream # "asked"
    BY <1>0 DEF Release
  <2> QED
    BY <1>1, <1>2, <2>1 DEF Asked
<1>5. /\ SessionsOK(sessions') /\ Follows(ss, sessions') /\ waiting' \in Seq(Waiters) /\ idle' \in Nat
      /\ Asked(sessions', waiting', other') /\ Counted(sessions', waiting', other', idle')
  BY <1>0, <1>3, <1>4, ReleaseCounted
<1>6. /\ DOMAIN sessions' = DOMAIN sessions \ {current}
      /\ \A s \in DOMAIN sessions' :
           /\ sessions'[s].infer = sessions[s].infer
           /\ sessions[s].stream \in {"none", "disarmed"} => sessions'[s].stream \in {"none", "disarmed"}
           /\ sessions[s].stream = "none" => sessions'[s].stream = "none"
  BY <1>1, <1>5 DEF Follows
<1>7. TypeOK'
  <2>1. waiting' \in Seq(started' \cup {<<o>> : o \in Others})
    BY <1>5 DEF Waiters
  <2>2. /\ finished' \subseteq started' /\ deferred' \in Seq(started') /\ IsFiniteSet(started') /\ events' \in Seq(started')
        /\ position' \in Nat /\ other' \in [Others -> {"out", "asked"}] /\ batch' = {}
    BY DEF IInv, TypeOK
  <2> QED
    BY <1>5, <2>1, <2>2 DEF TypeOK, SessionsOK, Fields, StreamStates, InferStates
<1>8. UnstartedIsIdle'
  BY <1>6 DEF IInv, UnstartedIsIdle
<1>9. ReportedOnce'
  BY <1>0, <1>6 DEF IInv, ReportedOnce
<1>10. DeferredWaits'
  BY <1>0, <1>6 DEF IInv, DeferredWaits
<1>11. FinishedIsQuiet'
  BY <1>0, <1>6 DEF IInv, FinishedIsQuiet
<1> QED
  BY <1>5, <1>7, <1>8, <1>9, <1>10, <1>11, FactsNext

LEMMA FetchResultsStep ==
  ASSUME IInv, FetchResults
  PROVE  IInv'
<1>1. error' \in BOOLEAN
  BY DEF FetchResults, IInv, TypeOK
<1> QED
  BY <1>1, SessionErased DEF FetchResults

LEMMA FetchResultsFailsStep ==
  ASSUME IInv, FetchResultsFails
  PROVE  IInv'
<1>1. pc' \in {"loop", "returned"} /\ (pc' = "returned" => finished = started)
  BY AllFinished DEF FetchResultsFails, IInv, TypeOK
<1> QED
  BY <1>1, SessionErased DEF FetchResultsFails


\* A deferred session is looked at.
LEMMA AtPosition ==
  ASSUME IInv, NEW l \in {"retry", "disarm"}, AtDeferred(l)
  PROVE  /\ position \in DOMAIN deferred /\ deferred \in Seq(started) /\ IsInjective(deferred)
         /\ deferred[position] \in started /\ deferred[position] \in DOMAIN sessions
         /\ sessions[deferred[position]].infer = "none"
<1>1. deferred \in Seq(started) /\ position \in Nat /\ position <= Len(deferred) /\ position > 0 /\ IsInjective(deferred)
  BY DEF IInv, TypeOK, AtDeferred, DeferredWaits
<1>2. position \in DOMAIN deferred
  BY <1>1
<1> QED
  BY <1>1, <1>2 DEF IInv, DeferredWaits

\* tryDisarm.
LEMMA DisarmReleases ==
  ASSUME IInv, NEW d \in DOMAIN sessions, other' = other,
         \/ sessions[d].stream = "none" /\ UNCHANGED <<sessions, idle, waiting>>
         \/ sessions[d].stream = "granted" /\ ReturnStream([sessions EXCEPT ![d].stream = "disarmed"])
  PROVE  /\ SessionsOK(sessions') /\ waiting' \in Seq(Waiters) /\ idle' \in Nat
         /\ Asked(sessions', waiting', other') /\ Counted(sessions', waiting', other', idle')
         /\ DOMAIN sessions' = DOMAIN sessions /\ sessions'[d].stream \in {"none", "disarmed"}
         /\ \A s \in DOMAIN sessions :
              /\ sessions'[s].infer = sessions[s].infer
              /\ sessions[s].stream \in {"none", "disarmed"} => sessions'[s].stream \in {"none", "disarmed"}
              /\ sessions[s].stream = "none" => sessions'[s].stream = "none"
<1>0. /\ SessionsOK(sessions) /\ Asked(sessions, waiting, other) /\ waiting \in Seq(Waiters) /\ idle \in Nat
      /\ Counted(sessions, waiting, other, idle)
  BY Facts DEF Counted
<1>1. CASE sessions[d].stream = "none" /\ UNCHANGED <<sessions, idle, waiting>>
  BY <1>0, <1>1
<1>2. CASE sessions[d].stream = "granted" /\ ReturnStream([sessions EXCEPT ![d].stream = "disarmed"])
  <2> DEFINE ss == [sessions EXCEPT ![d].stream = "disarmed"]
  <2>1. Changed(sessions, ss, d, "disarmed", sessions[d].infer)
    BY <1>0, StreamChanged
  <2>2. Release(d, ss)
    BY <1>2 DEF Release
  <2> HIDE DEF ss
  <2>3. SessionsOK(ss) /\ HeldIn(ss) = HeldIn(sessions) \ {d}
    <3> DEFINE f == sessions[d].infer
               g == "disarmed"
    <3>1. f \in InferStates /\ g \in StreamStates /\ g \notin {"granted", "taken"} /\ Changed(sessions, ss, d, g, f)
      BY <1>0, <2>1 DEF SessionsOK, StreamStates
    <3> HIDE DEF f, g
    <3> QED
      BY <1>0, <3>1, ChangedOK, Zenon
  <2>4. Asked(ss, waiting, other)
    BY <1>0, <1>2, <2>1, StillAsked
  <2>5. /\ SessionsOK(sessions') /\ Follows(ss, sessions') /\ waiting' \in Seq(Waiters) /\ idle' \in Nat
        /\ Asked(sessions', waiting', other') /\ Counted(sessions', waiting', other', idle')
    BY <2>2, <2>3, <2>4, ReleaseCounted
  <2>6. /\ DOMAIN sessions' = DOMAIN sessions /\ sessions'[d].stream \in {"none", "disarmed"}
        /\ \A s \in DOMAIN sessions :
             /\ sessions'[s].infer = sessions[s].infer
             /\ sessions[s].stream \in {"none", "disarmed"} => sessions'[s].stream \in {"none", "disarmed"}
             /\ sessions[s].stream = "none" => sessions'[s].stream = "none"
    BY <1>2, <2>1, <2>5 DEF Changed, Follows
  <2> QED
    BY <2>5, <2>6
<1> QED
  BY <1>1, <1>2

LEMMA DisarmStep ==
  ASSUME IInv, Disarm
  PROVE  IInv'
<1> DEFINE d == deferred[position]
<1>0. /\ AtDeferred("disarm") /\ pc = "disarm" /\ pc' = "disarm" /\ finished' = finished \cup {d}
      /\ deferred' = RemoveAt(deferred, position) /\ other' = other
      /\ UNCHANGED <<events, started, error, batch, position>>
  BY DEF Disarm, AtDeferred
<1>1. /\ position \in DOMAIN deferred /\ deferred \in Seq(started) /\ IsInjective(deferred)
      /\ d \in started /\ d \in DOMAIN sessions /\ sessions[d].infer = "none"
  BY <1>0, AtPosition
<1>2. d \notin Range(events)
  BY <1>0, <1>1 DEF IInv, DeferredWaits
<1>3. /\ deferred' \in Seq(started) /\ IsInjective(deferred') /\ d \notin Range(deferred') /\ Range(deferred') \subseteq Range(deferred)
      /\ \A i \in DOMAIN deferred' : \E j \in DOMAIN deferred : deferred'[i] = deferred[j]
      /\ \A i \in DOMAIN deferred' : deferred'[i] # d
  <2>1. /\ deferred' \in Seq(started) /\ IsInjective(deferred') /\ d \notin Range(deferred')
        /\ Range(deferred') \subseteq Range(deferred)
        /\ \A i \in DOMAIN deferred' : \/ i < position /\ i \in DOMAIN deferred /\ deferred'[i] = deferred[i]
                                       \/ i >= position /\ i + 1 \in DOMAIN deferred /\ deferred'[i] = deferred[i + 1]
    BY <1>0, <1>1, Removed
  <2> QED
    BY <2>1 DEF Range
<1>4. /\ SessionsOK(sessions') /\ waiting' \in Seq(Waiters) /\ idle' \in Nat
      /\ Asked(sessions', waiting', other') /\ Counted(sessions', waiting', other', idle')
      /\ DOMAIN sessions' = DOMAIN sessions /\ sessions'[d].stream \in {"none", "disarmed"}
      /\ \A s \in DOMAIN sessions :
           /\ sessions'[s].infer = sessions[s].infer
           /\ sessions[s].stream \in {"none", "disarmed"} => sessions'[s].stream \in {"none", "disarmed"}
           /\ sessions[s].stream = "none" => sessions'[s].stream = "none"
  BY <1>0, <1>1, DisarmReleases DEF Disarm
<1> HIDE DEF d
<1>5. TypeOK'
  <2>1. waiting' \in Seq(started' \cup {<<o>> : o \in Others})
    BY <1>0, <1>4 DEF Waiters
  <2>2. /\ finished' \subseteq started' /\ deferred' \in Seq(started') /\ IsFiniteSet(started') /\ events' \in Seq(started')
        /\ position' \in Nat /\ position' > 0 /\ error' \in BOOLEAN
        /\ other' \in [Others -> {"out", "asked"}] /\ batch' = {}
    BY <1>0, <1>1, <1>3 DEF IInv, TypeOK
  <2> QED
    BY <1>0, <1>4, <2>1, <2>2 DEF TypeOK, SessionsOK, Fields, StreamStates, InferStates
<1>6. UnstartedIsIdle'
  BY <1>0, <1>4 DEF IInv, UnstartedIsIdle
<1>7. ReportedOnce'
  BY <1>0, <1>1, <1>2, <1>3, <1>4 DEF IInv, ReportedOnce
<1>8. DeferredWaits'
  <2> SUFFICES ASSUME NEW i \in DOMAIN deferred'
               PROVE  /\ deferred'[i] \in DOMAIN sessions' /\ sessions'[deferred'[i]].infer = "none"
                      /\ deferred'[i] \in Range(events') \cup finished' => error'
                      /\ deferred'[i] \notin Range(events')
    BY <1>0, <1>3 DEF DeferredWaits
  <2>1. PICK j \in DOMAIN deferred : deferred'[i] = deferred[j]
    BY <1>3
  <2>2. deferred[j] # d
    BY <1>3, <2>1
  <2> QED
    BY <1>0, <1>4, <2>1, <2>2 DEF IInv, DeferredWaits
<1>9. FinishedIsQuiet'
  BY <1>0, <1>1, <1>4 DEF IInv, FinishedIsQuiet
<1> QED
  BY <1>4, <1>5, <1>6, <1>7, <1>8, <1>9, FactsNext

(***************************************************************************)
(* Results are handed on.                                                  *)
(***************************************************************************)
LEMMA SessionsGrow ==
  ASSUME IInv, pc = "propagate", pc' = "start", Grows(sessions, sessions'), error' \in BOOLEAN, error => error',
         UNCHANGED <<events, started, finished, deferred, batch, position, poolVars>>
  PROVE  IInv'
<1>0. waiting' = waiting /\ other' = other /\ idle' = idle
  BY DEF poolVars
<1>1. SessionsOK(sessions) /\ Asked(sessions, waiting, other) /\ Counted(sessions, waiting, other, idle)
  BY Facts
<1>2. SessionsOK(sessions') /\ DOMAIN sessions \subseteq DOMAIN sessions'
  BY DEF Grows
<1>3. HeldIn(sessions') = HeldIn(sessions)
  BY DEF Grows, HeldIn
<1>4. Asked(sessions', waiting', other')
  BY <1>0, <1>1 DEF Grows, Asked
<1>5. Counted(sessions', waiting', other', idle')
  BY <1>0, <1>1, <1>3 DEF Counted
<1>6. TypeOK'
  BY <1>0, <1>2 DEF IInv, TypeOK, SessionsOK, Fields, StreamStates, InferStates
<1>7. UnstartedIsIdle'
  BY DEF Grows, IInv, UnstartedIsIdle
<1>8. ReportedOnce'
  BY DEF Grows, IInv, ReportedOnce
<1>9. DeferredWaits'
  BY DEF Grows, IInv, DeferredWaits
<1>10. FinishedIsQuiet'
  BY DEF Grows, IInv, FinishedIsQuiet
<1> QED
  BY <1>4, <1>5, <1>6, <1>7, <1>8, <1>9, <1>10, FactsNext

LEMMA PropagateStep ==
  ASSUME IInv, Propagate
  PROVE  IInv'
<1>1. SessionsOK(sessions)
  BY Facts
<1>2. Grows(sessions, sessions')
  BY <1>1, SetInputsGrows DEF Propagate
<1>3. error' \in BOOLEAN /\ error' = error
  BY DEF Propagate, IInv, TypeOK
<1> QED
  BY <1>2, <1>3, SessionsGrow DEF Propagate

LEMMA PropagateFailsStep ==
  ASSUME IInv, PropagateFails
  PROVE  IInv'
<1>1. SessionsOK(sessions)
  BY Facts
<1>2. PICK before, ns, n, good, bad :
        LET ss == SetInputs(SetInputs(sessions, before, current[1], results), ns, current[1], good)
        IN \/ sessions' = Touched(ss, {n}, {bad})
           \/ sessions' = SetInputs(ss, {n}, current[1], {bad})
  BY DEF PropagateFails
<1> DEFINE tt == SetInputs(sessions, before, current[1], results)
           ss == SetInputs(tt, ns, current[1], good)
<1>3. Grows(sessions, tt) /\ SessionsOK(tt)
  BY <1>1, SetInputsGrows DEF Grows
<1> HIDE DEF tt
<1>4. Grows(tt, ss) /\ SessionsOK(ss)
  BY <1>3, SetInputsGrows DEF Grows
<1>5. sessions' = Touched(ss, {n}, {bad}) \/ sessions' = SetInputs(ss, {n}, current[1], {bad})
  BY <1>2 DEF tt
<1> HIDE DEF ss
<1>6. Grows(ss, sessions')
  BY <1>4, <1>5, TouchedGrows, SetInputsGrows
<1>7. Grows(sessions, sessions')
  BY <1>3, <1>4, <1>6, GrowsFurther
<1>8. error' = TRUE
  BY DEF PropagateFails
<1> QED
  BY <1>7, <1>8, SessionsGrow DEF PropagateFails

(***************************************************************************)
(* Sessions that are started.                                              *)
(***************************************************************************)

\* One session has changed and the pool follows.
LEMMA ChangedPool ==
  ASSUME IInv, NEW s \in DOMAIN sessions, NEW stream \in StreamStates, NEW infer \in InferStates,
         Changed(sessions, sessions', s, stream, infer), other' = other
  PROVE  /\ SessionsOK(sessions')
         /\ /\ stream = sessions[s].stream \/ (sessions[s].stream \in {"granted", "taken"} /\ stream = "taken")
            /\ UNCHANGED <<idle, waiting>>
            => Asked(sessions', waiting', other') /\ Counted(sessions', waiting', other', idle')
         /\ /\ sessions[s].stream = "none" /\ stream = "taken" /\ idle > 0 /\ idle' = idle - 1 /\ UNCHANGED waiting
            => Asked(sessions', waiting', other') /\ Counted(sessions', waiting', other', idle')
         /\ /\ sessions[s].stream = "none" /\ stream = "asked" /\ waiting' = Append(waiting, s) /\ UNCHANGED idle
            => Asked(sessions', waiting', other') /\ Counted(sessions', waiting', other', idle')
<1>0. /\ SessionsOK(sessions) /\ Asked(sessions, waiting, other) /\ Counted(sessions, waiting, other, idle)
      /\ IsFiniteSet(HeldIn(sessions)) /\ waiting \in Seq(Waiters)
      /\ Cardinality(HeldIn(sessions)) \in Nat /\ Cardinality(Served(waiting, other)) \in Nat
  <2>1. IsFiniteSet(Served(waiting, other))
    BY UsersAssumption, FS_Subset DEF Served
  <2> QED
    BY <2>1, Facts, FS_CardinalityType
<1>1. /\ SessionsOK(sessions')
      /\ stream \in {"granted", "taken"} => HeldIn(sessions') = HeldIn(sessions) \cup {s}
      /\ stream \notin {"granted", "taken"} => HeldIn(sessions') = HeldIn(sessions) \ {s}
  BY <1>0, ChangedOK, Zenon
<1>2. s \in HeldIn(sessions) <=> sessions[s].stream \in {"granted", "taken"}
  BY DEF HeldIn
<1>3. ASSUME stream = sessions[s].stream \/ (sessions[s].stream \in {"granted", "taken"} /\ stream = "taken"),
             UNCHANGED <<idle, waiting>>
      PROVE  Asked(sessions', waiting', other') /\ Counted(sessions', waiting', other', idle')
  <2>1. HeldIn(sessions') = HeldIn(sessions)
    BY <1>1, <1>2, <1>3
  <2>2. Counted(sessions', waiting', other', idle')
    BY <1>0, <1>3, <2>1 DEF Counted
  <2>3. Asked(sessions', waiting, other)
    BY <1>0, <1>3, StillAsked
  <2> QED
    BY <1>3, <2>2, <2>3
<1>4. ASSUME sessions[s].stream = "none", stream = "taken", idle > 0, idle' = idle - 1, UNCHANGED waiting
      PROVE  Asked(sessions', waiting', other') /\ Counted(sessions', waiting', other', idle')
  <2>1. Cardinality(HeldIn(sessions')) = Cardinality(HeldIn(sessions)) + 1
    BY <1>0, <1>1, <1>2, <1>4, OneMore
  <2>2. Counted(sessions', waiting', other', idle')
    BY <1>0, <1>4, <2>1 DEF Counted
  <2>3. Asked(sessions', waiting, other)
    BY <1>0, <1>4, StillAsked
  <2> QED
    BY <1>4, <2>2, <2>3
<1>5. ASSUME sessions[s].stream = "none", stream = "asked", waiting' = Append(waiting, s), UNCHANGED idle
      PROVE  Asked(sessions', waiting', other') /\ Counted(sessions', waiting', other', idle')
  <2>1. HeldIn(sessions') = HeldIn(sessions)
    BY <1>1, <1>2, <1>5
  <2>2. waiting \in Seq(Waiters \cup {s})
    BY <1>0, LargerSet
  <2>3. s \notin Range(waiting)
    BY <1>0, <1>5, SessionsAreNoUsers DEF Asked, Range
  <2>4. /\ IsInjective(waiting') /\ Range(waiting') = Range(waiting) \cup {s} /\ waiting'[Len(waiting) + 1] = s
        /\ DOMAIN waiting' = DOMAIN waiting \cup {Len(waiting) + 1}
        /\ \A i \in DOMAIN waiting : waiting'[i] = waiting[i]
    BY <1>0, <1>5, <2>2, <2>3, Appended DEF Asked
  <2>5. Served(waiting', other') = Served(waiting, other)
    BY <1>0, <2>4, SessionsAreNoUsers DEF Served
  <2>6. Counted(sessions', waiting', other', idle')
    BY <1>0, <1>5, <2>1, <2>5 DEF Counted
  <2>7. Asked(sessions', waiting, other)
    BY <1>0, <1>5, StillAsked
  <2>8. s \in DOMAIN sessions' /\ sessions'[s].stream = "asked"
    BY <1>5 DEF Changed
  <2>9. Asked(sessions', waiting', other')
    <3> SUFFICES ASSUME NEW i \in DOMAIN waiting'
                 PROVE  \/ waiting'[i] \in DOMAIN sessions' /\ sessions'[waiting'[i]].stream = "asked"
                        \/ \E o \in Others : waiting'[i] = <<o>> /\ other'[o] = "asked"
      BY <2>4 DEF Asked
    <3>1. CASE i \in DOMAIN waiting
      BY <2>4, <2>7, <3>1 DEF Asked
    <3>2. CASE i = Len(waiting) + 1
      BY <2>4, <2>8, <3>2
    <3> QED
      BY <2>4, <3>1, <3>2
  <2> QED
    BY <2>6, <2>9
<1> QED
  BY <1>1, <1>3, <1>4, <1>5

\* A session is counted as started; it reports, runs or is deferred.
LEMMA StartCounted ==
  ASSUME IInv, NEW s \in DOMAIN sessions, s \notin started, NEW stream \in StreamStates, NEW infer \in InferStates,
         Changed(sessions, sessions', s, stream, infer), SessionsOK(sessions'),
         Asked(sessions', waiting', other'), Counted(sessions', waiting', other', idle'),
         waiting' \in Seq(started' \cup {<<o>> : o \in Others}),
         pc = "start", pc' = "start", started' = started \cup {s}, batch' \subseteq batch,
         UNCHANGED <<finished, position, other>>, error' \in BOOLEAN, error => error',
         \/ events' = events /\ deferred' = deferred
         \/ events' = Append(events, s) /\ deferred' = deferred /\ infer = "none"
         \/ events' = events /\ deferred' = Append(deferred, s) /\ infer = "none"
  PROVE  IInv'
<1>0. DOMAIN sessions' = DOMAIN sessions /\ sessions'[s].stream = stream /\ sessions'[s].infer = infer
      /\ \A x \in DOMAIN sessions : x # s => sessions'[x] = sessions[x]
  BY DEF Changed
<1>1. /\ finished \subseteq started /\ events \in Seq(started') /\ deferred \in Seq(started')
      /\ s \notin Range(events) /\ s \notin finished /\ s \notin Range(deferred) /\ IsFiniteSet(started')
      /\ Range(events) \subseteq started /\ Range(deferred) \subseteq started
  <2>1. /\ finished \subseteq started /\ IsFiniteSet(started)
        /\ events \in Seq(started) /\ deferred \in Seq(started)
    BY DEF IInv, TypeOK
  <2>2. Range(events) \subseteq started /\ Range(deferred) \subseteq started
    BY <2>1, MembersOf
  <2>3. IsFiniteSet(started')
    BY <2>1, OneMore
  <2> QED
    BY <2>1, <2>2, <2>3, LargerSet
<1>2. /\ events' \in Seq(started') /\ IsInjective(events')
      /\ Range(events') = Range(events) \/ (Range(events') = Range(events) \cup {s} /\ infer = "none")
  <2>1. IsInjective(events)
    BY DEF IInv, ReportedOnce
  <2>2. s \in started'
    OBVIOUS
  <2>3. CASE events' = events
    BY <1>1, <2>1, <2>3
  <2>4. CASE events' = Append(events, s) /\ infer = "none"
    BY <1>1, <2>1, <2>2, <2>4, Appended
  <2> QED
    BY <2>3, <2>4
<1>3. /\ deferred' \in Seq(started') /\ IsInjective(deferred')
      /\ Range(deferred') = Range(deferred) \/ (Range(deferred') = Range(deferred) \cup {s} /\ infer = "none" /\ events' = events)
      /\ \A i \in DOMAIN deferred' : (i \in DOMAIN deferred /\ deferred'[i] = deferred[i])
                                     \/ (deferred'[i] = s /\ infer = "none" /\ events' = events)
  <2>1. IsInjective(deferred)
    BY DEF IInv, DeferredWaits
  <2>2. s \in started'
    OBVIOUS
  <2>3. CASE deferred' = deferred
    BY <1>1, <2>1, <2>3
  <2>4. CASE deferred' = Append(deferred, s) /\ infer = "none" /\ events' = events
    <3> DEFINE n == Len(deferred) + 1
    <3>1. /\ deferred' \in Seq(started') /\ IsInjective(deferred') /\ Range(deferred') = Range(deferred) \cup {s}
          /\ deferred'[n] = s /\ DOMAIN deferred' = DOMAIN deferred \cup {n}
          /\ \A i \in DOMAIN deferred : deferred'[i] = deferred[i]
      BY <1>1, <2>1, <2>2, <2>4, Appended
    <3> HIDE DEF n
    <3> QED
      BY <2>4, <3>1
  <2> QED
    BY <2>3, <2>4
<1>4. TypeOK'
  <2>1. /\ finished' \subseteq started' /\ position' \in Nat /\ other' \in [Others -> {"out", "asked"}]
        /\ batch' \subseteq DOMAIN sessions' /\ idle' \in Nat
    BY <1>0, <1>1 DEF IInv, TypeOK, Counted
  <2> QED
    BY <1>1, <1>2, <1>3, <2>1 DEF TypeOK, SessionsOK, Fields, StreamStates, InferStates
<1>5. UnstartedIsIdle'
  BY <1>0 DEF IInv, UnstartedIsIdle
<1>6. ReportedOnce'
  <2>1. Range(events') \subseteq DOMAIN sessions' /\ Range(events') \cap finished' = {}
    BY <1>0, <1>1, <1>2 DEF IInv, ReportedOnce
  <2>2. ASSUME NEW x \in DOMAIN sessions', sessions'[x].infer = "running"
        PROVE  x \notin Range(events') \cup finished' \cup Range(deferred')
    <3>1. CASE x = s
      BY <1>0, <1>1, <1>2, <1>3, <2>2, <3>1
    <3>2. CASE x # s
      BY <1>0, <1>2, <1>3, <2>2, <3>2 DEF IInv, ReportedOnce
    <3> QED
      BY <3>1, <3>2
  <2> QED
    BY <1>2, <2>1, <2>2 DEF ReportedOnce
<1>7. DeferredWaits'
  <2> SUFFICES ASSUME NEW i \in DOMAIN deferred'
               PROVE  /\ deferred'[i] \in DOMAIN sessions' /\ sessions'[deferred'[i]].infer = "none"
                      /\ deferred'[i] \in Range(events') \cup finished' => error'
    BY <1>3 DEF DeferredWaits
  <2>1. CASE deferred'[i] = s /\ infer = "none" /\ events' = events
    BY <1>0, <1>1, <2>1
  <2>2. CASE i \in DOMAIN deferred /\ deferred'[i] = deferred[i]
    <3>1. deferred[i] # s
      BY <1>1, <2>2 DEF Range
    <3> QED
      BY <1>0, <1>2, <2>2, <3>1 DEF IInv, DeferredWaits
  <2> QED
    BY <1>3, <2>1, <2>2
<1>8. FinishedIsQuiet'
  BY <1>0, <1>1 DEF IInv, FinishedIsQuiet
<1> QED
  BY <1>4, <1>5, <1>6, <1>7, <1>8, FactsNext

LEMMA StartSessionStep ==
  ASSUME IInv, StartedOnce, NEW s \in batch, StartSession(s)
  PROVE  IInv'
<1>0. /\ pc = "start" /\ pc' = "start" /\ started' = started \cup {s} /\ other' = other
      /\ UNCHANGED <<finished, position>>
  BY DEF StartSession
<1>1. s \in DOMAIN sessions /\ s \notin started /\ sessions[s].stream = "none" /\ sessions[s].infer = "none"
  BY DEF IInv, TypeOK, StartedOnce, UnstartedIsIdle
<1>2. error' \in BOOLEAN /\ (error => error') /\ batch' \subseteq batch
  <2>1. error \in BOOLEAN /\ (error' = error \/ error' = TRUE)
    BY DEF StartSession, IInv, TypeOK
  <2>2. batch' = {} \/ batch' = batch \ {s}
    BY DEF StartSession
  <2> QED
    BY <2>1, <2>2
<1>3. /\ SessionsOK(sessions) /\ waiting \in Seq(started' \cup {<<o>> : o \in Others})
      /\ DOMAIN sessions[s] = Fields
  <2>1. waiting \in Seq(started \cup {<<o>> : o \in Others}) /\ SessionsOK(sessions)
    BY Facts DEF IInv, TypeOK
  <2>2. started \cup {<<o>> : o \in Others} \subseteq started' \cup {<<o>> : o \in Others}
    BY <1>0
  <2> QED
    BY <1>1, <2>1, <2>2, LargerSet DEF SessionsOK
<1>4. /\ "none" \in StreamStates /\ "taken" \in StreamStates /\ "asked" \in StreamStates
      /\ "none" \in InferStates /\ "running" \in InferStates
  BY DEF StreamStates, InferStates
<1>5. CASE ExecuteExit(s) /\ UNCHANGED deferred
  <2>1. Changed(sessions, sessions', s, "none", "none")
    BY <1>1, <1>3, <1>5 DEF Changed, ExecuteExit
  <2>2. /\ SessionsOK(sessions') /\ Asked(sessions', waiting', other') /\ Counted(sessions', waiting', other', idle')
    BY <1>0, <1>1, <1>4, <1>5, <2>1, ChangedPool DEF ExecuteExit
  <2> QED
    BY <1>0, <1>1, <1>2, <1>3, <1>4, <1>5, <2>1, <2>2, StartCounted DEF ExecuteExit, Report
<1>6. CASE ExecuteCustom(s) /\ UNCHANGED deferred
  <2>1. Changed(sessions, sessions', s, "none", "none")
    BY <1>1, <1>3, <1>6, UseChanges DEF ExecuteCustom
  <2>2. /\ SessionsOK(sessions') /\ Asked(sessions', waiting', other') /\ Counted(sessions', waiting', other', idle')
    BY <1>0, <1>1, <1>4, <1>6, <2>1, ChangedPool DEF ExecuteCustom
  <2> QED
    BY <1>0, <1>1, <1>2, <1>3, <1>4, <1>6, <2>1, <2>2, StartCounted DEF ExecuteCustom, Report
<1>7. CASE GetIdleStream(s) /\ ExecuteInference(s) /\ UNCHANGED deferred
  <2>1. Changed(sessions, sessions', s, "taken", "running")
    BY <1>1, <1>3, <1>7, UseChanges DEF ExecuteInference
  <2>2. /\ SessionsOK(sessions') /\ Asked(sessions', waiting', other') /\ Counted(sessions', waiting', other', idle')
    BY <1>0, <1>1, <1>4, <1>7, <2>1, ChangedPool DEF GetIdleStream
  <2> QED
    BY <1>0, <1>1, <1>2, <1>3, <1>4, <1>7, <2>1, <2>2, StartCounted DEF ExecuteInference, GetIdleStream
<1>8. CASE PrepareFails(s) /\ UNCHANGED deferred
  <2>1. Changed(sessions, sessions', s, "none", "none")
    <3>1. PICK used \in BOOLEAN : sessions' = [sessions EXCEPT ![s].used = used]
      BY <1>8 DEF PrepareFails
    <3>2. Changed(sessions, [sessions EXCEPT ![s].used = used], s, sessions[s].stream, sessions[s].infer)
      BY <1>1, <1>3, UsedChanged
    <3> QED
      BY <1>1, <3>1, <3>2
  <2>2. /\ SessionsOK(sessions') /\ Asked(sessions', waiting', other') /\ Counted(sessions', waiting', other', idle')
    BY <1>0, <1>1, <1>4, <1>8, <2>1, ChangedPool DEF PrepareFails
  <2> QED
    BY <1>0, <1>1, <1>2, <1>3, <1>4, <1>8, <2>1, <2>2, StartCounted DEF PrepareFails, Report
<1>9. CASE GetIdleStream(s) /\ InferenceRefused(s) /\ UNCHANGED deferred
  <2>1. Changed(sessions, sessions', s, "taken", "none")
    BY <1>1, <1>3, <1>9, UseChanges DEF InferenceRefused
  <2>2. /\ SessionsOK(sessions') /\ Asked(sessions', waiting', other') /\ Counted(sessions', waiting', other', idle')
    BY <1>0, <1>1, <1>4, <1>9, <2>1, ChangedPool DEF GetIdleStream
  <2> QED
    BY <1>0, <1>1, <1>2, <1>3, <1>4, <1>9, <2>1, <2>2, StartCounted DEF InferenceRefused, GetIdleStream, Report
<1>10. CASE ExecuteDefers(s) /\ deferred' = Append(deferred, s)
  <2>1. Changed(sessions, sessions', s, "asked", "none")
    BY <1>1, <1>3, <1>10, UseChanges DEF ExecuteDefers
  <2>2. /\ SessionsOK(sessions') /\ Asked(sessions', waiting', other') /\ Counted(sessions', waiting', other', idle')
    BY <1>0, <1>1, <1>4, <1>10, <2>1, ChangedPool DEF ExecuteDefers
  <2>3. waiting' \in Seq(started' \cup {<<o>> : o \in Others})
    BY <1>0, <1>3, <1>10, Appended DEF ExecuteDefers
  <2> QED
    BY <1>0, <1>1, <1>2, <1>3, <1>4, <1>10, <2>1, <2>2, <2>3, StartCounted DEF ExecuteDefers
<1> QED
  BY <1>5, <1>6, <1>7, <1>8, <1>9, <1>10 DEF StartSession

(***************************************************************************)
(* Deferred sessions that are tried again.                                 *)
(***************************************************************************)

\* The stream is there and the inference starts.
LEMMA RetryRuns ==
  ASSUME IInv, AtDeferred("retry"), pc' = "retry", NEW d, d = deferred[position], TryGetId(d), ExecuteInference(d),
         deferred' = RemoveAt(deferred, position), other' = other,
         UNCHANGED <<events, started, finished, error, batch, position>>
  PROVE  IInv'
<1>0. pc = "retry" /\ UNCHANGED <<idle, waiting>> /\ sessions[d].stream \in {"granted", "taken"}
  BY DEF AtDeferred, TryGetId
<1>1. /\ position \in DOMAIN deferred /\ deferred \in Seq(started) /\ IsInjective(deferred)
      /\ d \in started /\ d \in DOMAIN sessions /\ sessions[d].infer = "none"
  BY AtPosition
<1>2. d \notin Range(events) \cup finished
  BY <1>0, <1>1 DEF IInv, TypeOK, DeferredWaits
<1>3. SessionsOK(sessions) /\ waiting \in Seq(started' \cup {<<o>> : o \in Others}) /\ idle' \in Nat
  BY <1>0, SessionsTyped DEF IInv, TypeOK
<1>4. Changed(sessions, sessions', d, "taken", "running")
  BY <1>1, <1>3, UseChanges DEF ExecuteInference
<1>5. SessionsOK(sessions') /\ Asked(sessions', waiting', other') /\ Counted(sessions', waiting', other', idle')
  <2>1. "taken" \in StreamStates /\ "running" \in InferStates
    BY DEF StreamStates, InferStates
  <2> QED
    BY <1>0, <1>1, <1>4, <2>1, ChangedPool
<1>6. DOMAIN sessions' = DOMAIN sessions /\ sessions'[d].infer = "running"
      /\ \A x \in DOMAIN sessions : x # d => sessions'[x] = sessions[x]
  BY <1>4 DEF Changed
<1>7. /\ deferred' \in Seq(started) /\ IsInjective(deferred') /\ d \notin Range(deferred')
      /\ Range(deferred') \subseteq Range(deferred)
      /\ \A i \in DOMAIN deferred' : \/ i < position /\ i \in DOMAIN deferred /\ deferred'[i] = deferred[i]
                                     \/ i >= position /\ i + 1 \in DOMAIN deferred /\ deferred'[i] = deferred[i + 1]
  BY <1>1, Removed
<1>8. TypeOK'
  <2>1. /\ finished' \subseteq started' /\ IsFiniteSet(started') /\ events' \in Seq(started')
        /\ position' \in Nat /\ position' > 0 /\ error' \in BOOLEAN
        /\ other' \in [Others -> {"out", "asked"}] /\ batch' = {}
    BY <1>0 DEF IInv, TypeOK
  <2> QED
    BY <1>0, <1>3, <1>5, <1>7, <2>1 DEF TypeOK, SessionsOK, Fields, StreamStates, InferStates
<1>9. UnstartedIsIdle'
  BY <1>1, <1>6 DEF IInv, UnstartedIsIdle
<1>10. ReportedOnce'
  BY <1>2, <1>6, <1>7 DEF IInv, ReportedOnce
<1>11. DeferredWaits'
  <2> SUFFICES ASSUME NEW i \in DOMAIN deferred'
               PROVE  /\ deferred'[i] \in DOMAIN sessions' /\ sessions'[deferred'[i]].infer = "none"
                      /\ deferred'[i] \in Range(events') \cup finished' => error' /\ i < position'
    BY <1>7 DEF DeferredWaits
  <2>1. deferred'[i] # d
    BY <1>7 DEF Range
  <2>2. PICK j \in DOMAIN deferred : deferred'[i] = deferred[j] /\ (j = i \/ (i >= position /\ j = i + 1))
    BY <1>7
  <2>3. /\ deferred[j] \in DOMAIN sessions /\ sessions[deferred[j]].infer = "none"
        /\ deferred[j] \in Range(events) \cup finished => error /\ j < position
    BY <1>0 DEF IInv, DeferredWaits
  <2>4. i \in Nat /\ position \in Nat
    <3>1. deferred' \in Seq(started) /\ position \in Nat
      BY <1>7 DEF IInv, TypeOK
    <3> QED
      BY <3>1, MembersOf
  <2>5. j < position => i < position
    BY <2>2, <2>4
  <2> QED
    BY <1>6, <2>1, <2>2, <2>3, <2>5
<1>12. FinishedIsQuiet'
  BY <1>0, <1>2, <1>6 DEF IInv, FinishedIsQuiet
<1> QED
  BY <1>5, <1>8, <1>9, <1>10, <1>11, <1>12, FactsNext

\* The stream is there, but the inference cannot be started: the session reports
\* and stays in the list.
LEMMA RetryRefused ==
  ASSUME IInv, AtDeferred("retry"), pc' = "retry", NEW d, d = deferred[position], TryGetId(d), InferenceRefused(d),
         error' = TRUE, position' = position + 1, other' = other,
         UNCHANGED <<started, finished, deferred, batch>>
  PROVE  IInv'
<1>0. /\ pc = "retry" /\ UNCHANGED <<idle, waiting>> /\ sessions[d].stream \in {"granted", "taken"}
      /\ events' = Append(events, d)
  BY DEF AtDeferred, TryGetId, InferenceRefused, Report
<1>1. /\ position \in DOMAIN deferred /\ deferred \in Seq(started) /\ IsInjective(deferred)
      /\ d \in started /\ d \in DOMAIN sessions /\ sessions[d].infer = "none"
  BY AtPosition
<1>2. d \notin Range(events) \cup finished
  BY <1>0, <1>1 DEF IInv, TypeOK, DeferredWaits
<1>3. SessionsOK(sessions) /\ waiting \in Seq(started' \cup {<<o>> : o \in Others}) /\ idle' \in Nat
  BY <1>0, SessionsTyped DEF IInv, TypeOK
<1>4. Changed(sessions, sessions', d, "taken", "none")
  BY <1>1, <1>3, UseChanges DEF InferenceRefused
<1>5. SessionsOK(sessions') /\ Asked(sessions', waiting', other') /\ Counted(sessions', waiting', other', idle')
  <2>1. "taken" \in StreamStates /\ "none" \in InferStates
    BY DEF StreamStates, InferStates
  <2> QED
    BY <1>0, <1>1, <1>4, <2>1, ChangedPool
<1>6. DOMAIN sessions' = DOMAIN sessions /\ sessions'[d].infer = "none"
      /\ \A x \in DOMAIN sessions : x # d => sessions'[x] = sessions[x]
  BY <1>4 DEF Changed
<1>7. events' \in Seq(started) /\ IsInjective(events') /\ Range(events') = Range(events) \cup {d}
  <2>1. events \in Seq(started) /\ IsInjective(events) /\ d \in started /\ d \notin Range(events)
    BY <1>1, <1>2 DEF IInv, TypeOK, ReportedOnce
  <2> QED
    BY <1>0, <2>1, Appended
<1>8. TypeOK'
  <2>1. /\ finished' \subseteq started' /\ IsFiniteSet(started') /\ deferred' \in Seq(started')
        /\ position' \in Nat /\ position' > 0 /\ error' \in BOOLEAN
        /\ other' \in [Others -> {"out", "asked"}] /\ batch' = {}
    BY <1>0 DEF IInv, TypeOK
  <2> QED
    BY <1>0, <1>3, <1>5, <1>7, <2>1 DEF TypeOK, SessionsOK, Fields, StreamStates, InferStates
<1>9. UnstartedIsIdle'
  BY <1>1, <1>6 DEF IInv, UnstartedIsIdle
<1>10. ReportedOnce'
  BY <1>1, <1>2, <1>6, <1>7 DEF IInv, ReportedOnce
<1>11. DeferredWaits'
  <2> SUFFICES ASSUME NEW i \in DOMAIN deferred
               PROVE  /\ deferred[i] \in DOMAIN sessions' /\ sessions'[deferred[i]].infer = "none"
                      /\ deferred[i] \in Range(events') \cup finished' => i < position'
    BY <1>1 DEF DeferredWaits
  <2>1. i \in Nat /\ position \in Nat
    BY <1>1, MembersOf DEF IInv, TypeOK
  <2>2. deferred[i] \in Range(events') \cup finished' => i <= position
    <3>1. deferred[i] = d => i = position
      BY <1>1 DEF IsInjective
    <3>2. deferred[i] \in Range(events) \cup finished => i < position
      BY <1>0 DEF IInv, DeferredWaits
    <3> QED
      BY <1>7, <2>1, <3>1, <3>2
  <2>3. deferred[i] \in DOMAIN sessions /\ sessions[deferred[i]].infer = "none"
    BY DEF IInv, DeferredWaits
  <2> QED
    BY <1>6, <2>1, <2>2, <2>3
<1>12. FinishedIsQuiet'
  BY <1>0, <1>2, <1>6 DEF IInv, FinishedIsQuiet
<1> QED
  BY <1>5, <1>8, <1>9, <1>10, <1>11, <1>12, FactsNext

LEMMA RetryStep ==
  ASSUME IInv, Retry
  PROVE  IInv'
<1> DEFINE d == deferred[position]
<1>0. /\ AtDeferred("retry") /\ pc = "retry" /\ pc' = "retry" /\ other' = other
      /\ UNCHANGED <<started, finished, batch>>
  BY DEF Retry, AtDeferred
<1>1. CASE TryGetId(d) /\ ExecuteInference(d) /\ deferred' = RemoveAt(deferred, position) /\ UNCHANGED <<position, error>>
  BY <1>0, <1>1, RetryRuns DEF ExecuteInference
<1>2. CASE DefersAgain(d) /\ position' = position + 1 /\ UNCHANGED <<deferred, error>>
  <2>1. UNCHANGED <<sessions, events, started, finished, deferred, error, poolVars>>
    BY <1>0, <1>2 DEF DefersAgain, poolVars
  <2>2. TypeOK'
    BY <1>0, <1>2, <2>1 DEF IInv, TypeOK, poolVars
  <2>3. \A i \in DOMAIN deferred : deferred[i] \in Range(events) \cup finished => i < position'
    <3> SUFFICES ASSUME NEW i \in DOMAIN deferred, deferred[i] \in Range(events) \cup finished PROVE i < position'
      OBVIOUS
    <3>1. i < position
      BY <1>0 DEF IInv, DeferredWaits
    <3>2. i \in Nat /\ position \in Nat
      BY MembersOf DEF IInv, TypeOK
    <3> QED
      BY <1>2, <3>1, <3>2
  <2> QED
    BY <1>0, <2>1, <2>2, <2>3, LoopMoves
<1>3. CASE TryGetId(d) /\ InferenceRefused(d) /\ error' = TRUE /\ position' = position + 1 /\ UNCHANGED deferred
  BY <1>0, <1>3, RetryRefused
<1> QED
  BY <1>1, <1>2, <1>3 DEF Retry

(***************************************************************************)
(* The other threads.                                                      *)
(***************************************************************************)
LEMMA CallbackPushesStep ==
  ASSUME IInv, NEW s \in DOMAIN sessions, CallbackPushes(s)
  PROVE  IInv'
<1>0. /\ sessions[s].infer = "running" /\ sessions' = [sessions EXCEPT ![s].infer = "callback"]
      /\ events' = Append(events, s) /\ other' = other /\ UNCHANGED <<idle, waiting>>
      /\ UNCHANGED <<started, finished, deferred, error, pc, current, batch, position>>
  BY DEF CallbackPushes, Report, loopVars, poolVars
<1>1. /\ s \notin Range(events) \cup finished \cup Range(deferred) /\ s \in started
  BY <1>0 DEF IInv, ReportedOnce, UnstartedIsIdle
<1>2. SessionsOK(sessions)
  BY Facts
<1>3. Changed(sessions, sessions', s, sessions[s].stream, "callback")
  <2>1. Changed(sessions, [sessions EXCEPT ![s].infer = "callback"], s, sessions[s].stream, "callback")
    BY <1>2, InferChanged
  <2> QED
    BY <1>0, <2>1
<1>4. SessionsOK(sessions') /\ Asked(sessions', waiting', other') /\ Counted(sessions', waiting', other', idle')
  <2>1. sessions[s].stream \in StreamStates /\ "callback" \in InferStates
    BY <1>2 DEF SessionsOK, InferStates
  <2> QED
    BY <1>0, <1>3, <2>1, ChangedPool
<1>5. /\ DOMAIN sessions' = DOMAIN sessions /\ sessions'[s].infer = "callback" /\ sessions'[s].stream = sessions[s].stream
      /\ \A x \in DOMAIN sessions : x # s => sessions'[x] = sessions[x]
  BY <1>3 DEF Changed
<1>6. events' \in Seq(started) /\ IsInjective(events') /\ Range(events') = Range(events) \cup {s}
  <2>1. events \in Seq(started) /\ IsInjective(events)
    BY DEF IInv, TypeOK, ReportedOnce
  <2> QED
    BY <1>0, <1>1, <2>1, Appended
<1>7. TypeOK'
  BY <1>0, <1>4, <1>5, <1>6 DEF IInv, TypeOK, SessionsOK, Fields, StreamStates, InferStates
<1>8. UnstartedIsIdle'
  BY <1>0, <1>1, <1>5 DEF IInv, UnstartedIsIdle
<1>9. ReportedOnce'
  BY <1>0, <1>1, <1>5, <1>6 DEF IInv, ReportedOnce
<1>10. DeferredWaits'
  <2>1. \A i \in DOMAIN deferred : deferred[i] # s
    BY <1>1 DEF Range
  <2> QED
    BY <1>0, <1>5, <1>6, <2>1 DEF IInv, DeferredWaits
<1>11. FinishedIsQuiet'
  BY <1>0, <1>1, <1>5 DEF IInv, FinishedIsQuiet
<1> QED
  BY <1>4, <1>7, <1>8, <1>9, <1>10, <1>11, FactsNext

LEMMA CallbackReturnsStep ==
  ASSUME IInv, NEW s \in DOMAIN sessions, CallbackReturns(s)
  PROVE  IInv'
<1>0. /\ sessions[s].infer = "callback" /\ sessions' = [sessions EXCEPT ![s].infer = "done"]
      /\ other' = other /\ UNCHANGED <<idle, waiting>>
      /\ UNCHANGED <<events, started, finished, deferred, error, pc, current, batch, position>>
  BY DEF CallbackReturns, loopVars, poolVars
<1>2. SessionsOK(sessions)
  BY Facts
<1>3. Changed(sessions, sessions', s, sessions[s].stream, "done")
  <2>1. Changed(sessions, [sessions EXCEPT ![s].infer = "done"], s, sessions[s].stream, "done")
    BY <1>2, InferChanged
  <2> QED
    BY <1>0, <2>1
<1>4. SessionsOK(sessions') /\ Asked(sessions', waiting', other') /\ Counted(sessions', waiting', other', idle')
  <2>1. sessions[s].stream \in StreamStates /\ "done" \in InferStates
    BY <1>2 DEF SessionsOK, InferStates
  <2> QED
    BY <1>0, <1>3, <2>1, ChangedPool
<1>5. /\ DOMAIN sessions' = DOMAIN sessions /\ sessions'[s].infer = "done" /\ sessions'[s].stream = sessions[s].stream
      /\ \A x \in DOMAIN sessions : x # s => sessions'[x] = sessions[x]
  BY <1>3 DEF Changed
<1>7. TypeOK'
  BY <1>0, <1>4, <1>5 DEF IInv, TypeOK, SessionsOK, Fields, StreamStates, InferStates
<1>8. UnstartedIsIdle'
  BY <1>0, <1>5 DEF IInv, UnstartedIsIdle
<1>9. ReportedOnce'
  BY <1>0, <1>5 DEF IInv, ReportedOnce
<1>10. DeferredWaits'
  <2>1. \A i \in DOMAIN deferred : deferred[i] # s
    BY <1>0 DEF IInv, DeferredWaits
  <2> QED
    BY <1>0, <1>5, <2>1 DEF IInv, DeferredWaits
<1>11. FinishedIsQuiet'
  BY <1>0, <1>5 DEF IInv, FinishedIsQuiet
<1> QED
  BY <1>4, <1>7, <1>8, <1>9, <1>10, <1>11, FactsNext

\* A step of the pool leaves the rest of the invariant as it is.
LEMMA PoolMoves ==
  ASSUME IInv, Follows(sessions, sessions'), SessionsOK(sessions'),
         Asked(sessions', waiting', other'), Counted(sessions', waiting', other', idle'),
         waiting' \in Seq(Waiters), other' \in [Others -> {"out", "asked"}], UNCHANGED <<events, loopVars>>
  PROVE  IInv'
<1>0. UNCHANGED <<events, started, finished, deferred, error, pc, current, batch, position>>
  BY DEF loopVars
<1>1. DOMAIN sessions' = DOMAIN sessions
      /\ \A s \in DOMAIN sessions :
           /\ sessions'[s].infer = sessions[s].infer
           /\ sessions[s].stream \in {"none", "disarmed"} => sessions'[s].stream = sessions[s].stream
  BY DEF Follows
<1>2. TypeOK'
  <2>1. waiting' \in Seq(started' \cup {<<o>> : o \in Others}) /\ idle' \in Nat
    BY <1>0 DEF Waiters, Counted
  <2> QED
    BY <1>0, <1>1, <2>1 DEF IInv, TypeOK, SessionsOK, Fields, StreamStates, InferStates
<1>3. UnstartedIsIdle'
  BY <1>0, <1>1 DEF IInv, UnstartedIsIdle
<1>4. ReportedOnce'
  BY <1>0, <1>1 DEF IInv, ReportedOnce
<1>5. DeferredWaits'
  BY <1>0, <1>1 DEF IInv, DeferredWaits
<1>6. FinishedIsQuiet'
  BY <1>0, <1>1 DEF IInv, FinishedIsQuiet
<1> QED
  BY <1>2, <1>3, <1>4, <1>5, <1>6, FactsNext

LEMMA OtherAsksStep ==
  ASSUME IInv, NEW o \in Others, OtherAsks(o)
  PROVE  IInv'
<1>0. other[o] = "out" /\ sessions' = sessions /\ UNCHANGED <<events, loopVars>>
  BY DEF OtherAsks
<1>1. /\ SessionsOK(sessions) /\ Asked(sessions, waiting, other) /\ Counted(sessions, waiting, other, idle)
      /\ waiting \in Seq(Waiters) /\ IsFiniteSet(HeldIn(sessions))
  BY Facts
<1>2. /\ other' \in [Others -> {"out", "asked"}] /\ other'[o] = "asked"
      /\ \A p \in Others : p # o => other'[p] = other[p]
  BY DEF OtherAsks, IInv, TypeOK
<1>3. <<o>> \notin Range(waiting)
  BY <1>0, <1>1, SessionsAreNoUsers, SameUser DEF Asked, Range
<1>4. Follows(sessions, sessions') /\ SessionsOK(sessions')
  BY <1>0, <1>1 DEF Follows
<1>5. Asked(sessions', waiting, other')
  BY <1>0, <1>1, <1>2 DEF Asked
<1>6. IsFiniteSet(Served(waiting, other)) /\ Cardinality(HeldIn(sessions)) \in Nat
  BY <1>1, UsersAssumption, FS_Subset, FS_CardinalityType DEF Served
<1>7. CASE idle > 0 /\ idle' = idle - 1 /\ UNCHANGED waiting
  <2>1. Served(waiting, other') = Served(waiting, other) \cup {o} /\ o \notin Served(waiting, other)
    BY <1>0, <1>2, <1>3 DEF Served
  <2>2. /\ Cardinality(Served(waiting, other')) = Cardinality(Served(waiting, other)) + 1
        /\ Cardinality(Served(waiting, other)) \in Nat
    BY <1>6, <2>1, OneMore
  <2>3. Counted(sessions', waiting', other', idle')
    BY <1>0, <1>1, <1>6, <1>7, <2>2 DEF Counted
  <2> QED
    BY <1>0, <1>1, <1>2, <1>4, <1>5, <1>7, <2>3, PoolMoves
<1>8. CASE waiting' = Append(waiting, <<o>>) /\ UNCHANGED idle
  <2>0. <<o>> \in Waiters
    BY DEF Waiters
  <2>1. /\ waiting' \in Seq(Waiters) /\ IsInjective(waiting') /\ Range(waiting') = Range(waiting) \cup {<<o>>}
        /\ waiting'[Len(waiting) + 1] = <<o>> /\ DOMAIN waiting' = DOMAIN waiting \cup {Len(waiting) + 1}
        /\ \A i \in DOMAIN waiting : waiting'[i] = waiting[i]
    BY <1>1, <1>3, <1>8, <2>0, Appended DEF Asked
  <2>2. Served(waiting', other') = Served(waiting, other)
    BY <1>0, <1>2, <2>1, SameUser DEF Served
  <2>3. Counted(sessions', waiting', other', idle')
    BY <1>0, <1>1, <1>8, <2>2 DEF Counted
  <2>4. Asked(sessions', waiting', other')
    <3> SUFFICES ASSUME NEW i \in DOMAIN waiting'
                 PROVE  \/ waiting'[i] \in DOMAIN sessions' /\ sessions'[waiting'[i]].stream = "asked"
                        \/ \E p \in Others : waiting'[i] = <<p>> /\ other'[p] = "asked"
      BY <2>1 DEF Asked
    <3>1. CASE i \in DOMAIN waiting
      BY <1>5, <2>1, <3>1 DEF Asked
    <3>2. CASE i = Len(waiting) + 1
      BY <1>2, <2>1, <3>2
    <3> QED
      BY <2>1, <3>1, <3>2
  <2> QED
    BY <1>0, <1>2, <1>4, <2>1, <2>3, <2>4, PoolMoves
<1> QED
  BY <1>7, <1>8 DEF OtherAsks

LEMMA OtherReturnsStep ==
  ASSUME IInv, NEW o \in Others, OtherReturns(o)
  PROVE  IInv'
<1>0. other[o] = "asked" /\ <<o>> \notin Range(waiting) /\ ReturnStream(sessions) /\ UNCHANGED <<events, loopVars>>
  BY DEF OtherReturns
<1>1. /\ SessionsOK(sessions) /\ Asked(sessions, waiting, other) /\ Counted(sessions, waiting, other, idle)
      /\ waiting \in Seq(Waiters) /\ IsFiniteSet(HeldIn(sessions)) /\ idle \in Nat
  BY Facts DEF Counted
<1>2. /\ other' \in [Others -> {"out", "asked"}] /\ other'[o] = "out"
      /\ \A p \in Others : p # o => other'[p] = other[p]
  BY DEF OtherReturns, IInv, TypeOK
<1>3. Asked(sessions, waiting, other')
  <2> SUFFICES ASSUME NEW i \in DOMAIN waiting
               PROVE  \/ waiting[i] \in DOMAIN sessions /\ sessions[waiting[i]].stream = "asked"
                      \/ \E p \in Others : waiting[i] = <<p>> /\ other'[p] = "asked"
    BY <1>1 DEF Asked
  <2>1. waiting[i] # <<o>>
    BY <1>0 DEF Range
  <2> QED
    BY <1>1, <1>2, <2>1 DEF Asked
<1>4. /\ SessionsOK(sessions') /\ Follows(sessions, sessions') /\ waiting' \in Seq(Waiters) /\ idle' \in Nat
      /\ Asked(sessions', waiting', other')
      /\ idle' + Cardinality(HeldIn(sessions')) + Cardinality(Served(waiting', other'))
           = idle + Cardinality(HeldIn(sessions)) + Cardinality(Served(waiting, other')) + 1
  BY <1>0, <1>1, <1>3, StreamComesBack
<1>5. Served(waiting, other') = Served(waiting, other) \ {o} /\ o \in Served(waiting, other)
  BY <1>0, <1>2 DEF Served
<1>6. IsFiniteSet(Served(waiting, other)) /\ Cardinality(HeldIn(sessions)) \in Nat
  BY <1>1, UsersAssumption, FS_Subset, FS_CardinalityType DEF Served
<1>7. /\ Cardinality(Served(waiting, other')) = Cardinality(Served(waiting, other)) - 1
      /\ Cardinality(Served(waiting, other)) \in Nat
  BY <1>5, <1>6, OneLess
<1>8. Counted(sessions', waiting', other', idle')
  BY <1>1, <1>4, <1>6, <1>7 DEF Counted
<1> QED
  BY <1>0, <1>2, <1>4, <1>8, PoolMoves

(***************************************************************************)
(* The start, and every step.                                              *)
(***************************************************************************)
LEMMA InitHolds ==
  ASSUME Init
  PROVE  IInv
<1>0. /\ sessions = <<>> /\ events = <<>> /\ deferred = <<>> /\ waiting = <<>> /\ idle = nireq
      /\ started = {} /\ finished = {} /\ batch = {} /\ error = FALSE /\ pc = "entry" /\ position = 0
      /\ other = [o \in Others |-> "out"]
  BY DEF Init
<1>1. DOMAIN <<>> = {} /\ (\A S : <<>> \in Seq(S)) /\ IsFiniteSet({})
  BY FS_EmptySet
<1>2. TypeOK
  BY <1>0, <1>1, UsersAssumption DEF TypeOK
<1>3. Range(<<>>) = {} /\ IsInjective(<<>>)
  BY <1>1 DEF Range, IsInjective
<1>4. UnstartedIsIdle /\ ReportedOnce /\ DeferredWaits /\ WaitersAsked /\ FinishedIsQuiet
  BY <1>0, <1>1, <1>3 DEF UnstartedIsIdle, ReportedOnce, DeferredWaits, WaitersAsked, FinishedIsQuiet
<1>5. StreamsReturned
  <2>1. Held = {} /\ OthersServed = {}
    BY <1>0, <1>1 DEF Held, OthersServed
  <2> QED
    BY <1>0, <2>1, FS_EmptySet, UsersAssumption DEF StreamsReturned
<1> QED
  BY <1>2, <1>4, <1>5 DEF IInv

LEMMA ExecuteEntryStep ==
  ASSUME IInv, ExecuteEntry
  PROVE  IInv'
<1> DEFINE e == EntrySession
<1>0. /\ pc = "entry" /\ pc' = "loop" /\ started' = {e} /\ events' = Append(events, e) /\ DOMAIN sessions' = {e}
      /\ sessions'[e] = NewSession(graph.entry, <<>>)
      /\ UNCHANGED <<finished, deferred, error, batch, position>> /\ UNCHANGED <<idle, waiting, other>>
  BY DEF ExecuteEntry, Report, poolVars
<1>1. e = <<e[1], e[2]>>
  BY DEF EntrySession
<1> HIDE DEF e
<1>2. /\ DOMAIN sessions' = {e} /\ DOMAIN sessions'[e] = Fields
      /\ sessions'[e].stream = "none" /\ sessions'[e].infer = "none"
  BY <1>0, NewSessionIsIdle
<1>3. /\ DOMAIN sessions = {} /\ started = {} /\ finished = {} /\ events \in Seq({}) /\ deferred \in Seq({})
      /\ waiting \in Seq(Waiters) /\ batch = {} /\ IsInjective(deferred)
  BY <1>0, Facts DEF IInv, TypeOK, DeferredWaits
<1>4. DOMAIN deferred = {} /\ Range(deferred) = {} /\ Range(events) = {} /\ deferred \in Seq({e}) /\ events \in Seq({e})
  <2>1. Range(deferred) = {} /\ Range(events) = {} /\ deferred \in Seq({e}) /\ events \in Seq({e})
    BY <1>3, MembersOf, LargerSet
  <2> QED
    BY <2>1 DEF Range
<1>5. events' \in Seq({e}) /\ IsInjective(events') /\ Range(events') = {e}
  <2>1. IsInjective(events)
    BY DEF IInv, ReportedOnce
  <2> QED
    BY <1>0, <1>4, <2>1, Appended
<1>6. SessionsOK(sessions')
  BY <1>1, <1>2 DEF SessionsOK, StreamStates, InferStates
<1>7. HeldIn(sessions') = {} /\ HeldIn(sessions) = {}
  BY <1>2, <1>3 DEF HeldIn
<1>8. Asked(sessions, waiting, other) /\ Counted(sessions, waiting, other, idle)
  BY Facts
<1>9. Asked(sessions', waiting', other')
  BY <1>0, <1>3, <1>8 DEF Asked
<1>10. Counted(sessions', waiting', other', idle')
  BY <1>0, <1>7, <1>8 DEF Counted
<1>11. TypeOK'
  <2>1. waiting' \in Seq(started' \cup {<<o>> : o \in Others})
    <3>1. Waiters \subseteq started' \cup {<<o>> : o \in Others}
      BY <1>3 DEF Waiters
    <3> QED
      BY <1>0, <1>3, <3>1, LargerSet
  <2>2. IsFiniteSet(started') /\ error' \in BOOLEAN /\ idle' \in Nat /\ position' \in Nat
        /\ other' \in [Others -> {"out", "asked"}]
    BY <1>0, FS_Singleton DEF IInv, TypeOK
  <2> QED
    BY <1>0, <1>3, <1>4, <1>5, <1>6, <2>1, <2>2 DEF TypeOK, SessionsOK, Fields, StreamStates, InferStates
<1>12. UnstartedIsIdle'
  BY <1>0, <1>2 DEF UnstartedIsIdle
<1>13. ReportedOnce'
  BY <1>0, <1>2, <1>3, <1>5 DEF ReportedOnce
<1>14. DeferredWaits'
  BY <1>0, <1>3, <1>4 DEF DeferredWaits
<1>15. FinishedIsQuiet'
  BY <1>0, <1>3 DEF FinishedIsQuiet
<1> QED
  BY <1>9, <1>10, <1>11, <1>12, <1>13, <1>14, <1>15, FactsNext

LEMMA Stutter ==
  ASSUME IInv, UNCHANGED vars
  PROVE  IInv'
<1>1. UNCHANGED <<sessions, events, started, finished, deferred, error, pc, current, batch, position>>
      /\ UNCHANGED <<idle, waiting, other>>
  BY DEF vars, loopVars, poolVars
<1>2. TypeOK' /\ UnstartedIsIdle' /\ ReportedOnce'
  BY <1>1 DEF IInv, TypeOK, UnstartedIsIdle, ReportedOnce
<1>3. DeferredWaits' /\ FinishedIsQuiet'
  BY <1>1 DEF IInv, DeferredWaits, FinishedIsQuiet
<1>4. Asked(sessions', waiting', other') /\ Counted(sessions', waiting', other', idle')
  BY <1>1, Facts
<1> QED
  BY <1>2, <1>3, <1>4, FactsNext

LEMMA NextHolds ==
  ASSUME IInv, StartedOnce, [Next]_vars
  PROVE  IInv'
<1>1. CASE Loop
  BY <1>1, ExecuteEntryStep, PullFinishedStep, PullAfterErrorStep, FetchResultsStep, FetchResultsFailsStep,
     PropagateStep, PropagateFailsStep, StartNodeStep, StartSessionStep, StartsDoneStep, TimeoutStep, RetryStep,
     RetriesDoneStep, DisarmStep, DisarmTimeoutStep, DisarmsDoneStep DEF Loop
<1>2. CASE Callbacks
  BY <1>2, CallbackPushesStep, CallbackReturnsStep DEF Callbacks
<1>3. CASE OtherUsers
  BY <1>3, OtherAsksStep, OtherReturnsStep DEF OtherUsers
<1>4. CASE UNCHANGED vars
  BY <1>4, Stutter
<1> QED
  BY <1>1, <1>2, <1>3, <1>4 DEF Next

(***************************************************************************)
(* Induction.  A nonempty set of natural numbers has a least element, so   *)
(* that what holds of 0 and with n of n + 1 holds of all.                  *)
(***************************************************************************)
LEMMA LeastElement ==
  ASSUME NEW T, T \subseteq Nat, T # {}
  PROVE  \E x \in T : \A y \in T : x <= y
<1> DEFINE R == {ss \in Nat \X Nat : ss[1] < ss[2]}
<1>1. IsWellFoundedOn(R, Nat)
  BY NatLessThanWellFounded DEF OpToRel
<1>2. PICK x \in T : \A y \in T : ~ (<<y, x>> \in R)
  <2> HIDE DEF R
  <2> QED
    BY <1>1, WFMin
<1>3. ASSUME NEW y \in T PROVE x <= y
  <2>1. y \in Nat /\ x \in Nat /\ ~ (<<y, x>> \in R)
    BY <1>2
  <2>2. ~ (y < x)
    BY <2>1
  <2> QED
    BY <2>1, <2>2
<1> QED
  BY <1>3

LEMMA InductionTo ==
  ASSUME NEW n \in Nat, NEW S, 0 \in S, \A k \in 0 .. n - 1 : k \in S => k + 1 \in S
  PROVE  0 .. n \subseteq S
<1> SUFFICES ASSUME NEW a \in 0 .. n, a \notin S PROVE FALSE
  OBVIOUS
<1> DEFINE T == (0 .. n) \ S
<1>1. PICK x \in T : \A y \in T : x <= y
  <2>1. T \subseteq Nat /\ T # {}
    OBVIOUS
  <2> HIDE DEF T
  <2> QED
    BY <2>1, LeastElement
<1>2. x # 0 /\ x \in 1 .. n
  OBVIOUS
<1>3. x - 1 \in 0 .. n - 1 /\ x - 1 \notin T
  BY <1>1, <1>2
<1>4. x - 1 \in S
  BY <1>3
<1>5. (x - 1) + 1 \in S
  BY <1>3, <1>4
<1> QED
  BY <1>2, <1>5

(***************************************************************************)
(* The product that CollapsedSize is.                                      *)
(***************************************************************************)
ProductOf(seq, k, f) ==
  f = [s \in SUBSET (1 .. k) |-> IF s = {} THEN 1 ELSE f[s \ {Max(s)}] * seq[Max(s)].size]

LEMMA MaxOfPrefix ==
  ASSUME NEW k \in Nat, NEW s \in SUBSET (1 .. k + 1), k + 1 \in s
  PROVE  Max(s) = k + 1
<1>1. \A y \in s : k + 1 >= y
  OBVIOUS
<1>2. \A x \in s : (\A y \in s : x >= y) => x = k + 1
  OBVIOUS
<1> QED
  BY <1>1, <1>2 DEF Max

LEMMA ProductExists ==
  ASSUME NEW seq, NEW n \in Nat
  PROVE  \E f : ProductOf(seq, n, f)
<1> DEFINE S == {k \in 0 .. n : \E f : ProductOf(seq, k, f)}
<1>1. 0 \in S
  <2>1. ProductOf(seq, 0, [s \in SUBSET (1 .. 0) |-> 1])
    <3>1. \A s \in SUBSET (1 .. 0) : s = {}
      OBVIOUS
    <3> QED
      BY <3>1 DEF ProductOf
  <2> QED
    BY <2>1
<1>2. ASSUME NEW k \in 0 .. n - 1, k \in S PROVE k + 1 \in S
  <2>1. PICK f : ProductOf(seq, k, f)
    BY <1>2
  <2> DEFINE g == [s \in SUBSET (1 .. k + 1) |->
                     IF k + 1 \in s THEN f[s \ {k + 1}] * seq[k + 1].size ELSE f[s]]
  <2>2. ASSUME NEW s \in SUBSET (1 .. k + 1), k + 1 \in s
        PROVE  g[s] = g[s \ {Max(s)}] * seq[Max(s)].size
    <3>1. Max(s) = k + 1
      BY <2>2, MaxOfPrefix
    <3>2. s \ {k + 1} \in SUBSET (1 .. k + 1) /\ ~ (k + 1 \in s \ {k + 1})
      OBVIOUS
    <3>3. g[s \ {k + 1}] = f[s \ {k + 1}]
      BY <3>2
    <3> QED
      BY <2>2, <3>1, <3>3
  <2>3. ASSUME NEW s \in SUBSET (1 .. k + 1), k + 1 \notin s, s # {}
        PROVE  g[s] = g[s \ {Max(s)}] * seq[Max(s)].size
    <3>1. s \in SUBSET (1 .. k)
      BY <2>3
    <3>2. f[s] = f[s \ {Max(s)}] * seq[Max(s)].size
      BY <2>1, <2>3, <3>1 DEF ProductOf
    <3>3. s \ {Max(s)} \in SUBSET (1 .. k + 1) /\ k + 1 \notin s \ {Max(s)}
      BY <2>3
    <3>4. g[s \ {Max(s)}] = f[s \ {Max(s)}] /\ g[s] = f[s]
      BY <2>3, <3>3
    <3> QED
      BY <3>2, <3>4
  <2>4. g[{}] = 1
    <3>1. {} \in SUBSET (1 .. k + 1) /\ {} \in SUBSET (1 .. k)
      OBVIOUS
    <3>2. g[{}] = f[{}]
      BY <3>1
    <3>3. f[{}] = 1
      BY <2>1, <3>1 DEF ProductOf
    <3> QED
      BY <3>2, <3>3
  <2>5. g = [s \in SUBSET (1 .. k + 1) |-> IF s = {} THEN 1 ELSE g[s \ {Max(s)}] * seq[Max(s)].size]
    <3>1. \A s \in SUBSET (1 .. k + 1) :
            g[s] = IF s = {} THEN 1 ELSE g[s \ {Max(s)}] * seq[Max(s)].size
      <4> HIDE DEF g
      <4> QED
        BY <2>2, <2>3, <2>4
    <3>2. DOMAIN g = SUBSET (1 .. k + 1) /\ g = [s \in DOMAIN g |-> g[s]]
      OBVIOUS
    <3> HIDE DEF g
    <3> QED
      BY <3>1, <3>2
  <2>6. ProductOf(seq, k + 1, g)
    <3> HIDE DEF g
    <3> QED
      BY <2>5 DEF ProductOf
  <2>7. \E h : ProductOf(seq, k + 1, h)
    BY <2>6
  <2> QED
    BY <2>7
<1>3. 0 .. n \subseteq S
  <2> HIDE DEF S
  <2> QED
    BY <1>1, <1>2, InductionTo
<1>4. n \in S
  BY <1>3
<1> QED
  BY <1>4

\* CollapsedSize multiplies the sizes of the collapsed levels one after the other.
LEMMA CollapsedSizeIsProduct ==
  ASSUME NEW meta, NEW names, NEW n \in Nat, DOMAIN Collapsed(meta, names) = 1 .. n
  PROVE  \E f : /\ f[0] = 1 /\ f[n] = CollapsedSize(meta, names)
                /\ \A i \in 0 .. n - 1 : f[i + 1] = f[i] * Collapsed(meta, names)[i + 1].size
<1> DEFINE seq == Collapsed(meta, names)
<1>1. PICK h : ProductOf(seq, n, h)
  BY ProductExists
<1>2. \E g : ProductOf(seq, n, g) /\ CollapsedSize(meta, names) = g[1 .. n]
  <2> HIDE DEF seq
  <2>1. DOMAIN seq = 1 .. n
    BY DEF seq
  <2>2. CollapsedSize(meta, names) = FoldLeft(LAMBDA acc, level : acc * level.size, 1, seq)
    BY DEF CollapsedSize, seq
  <2>3. \E g : ProductOf(seq, n, g) /\ FoldLeft(LAMBDA acc, level : acc * level.size, 1, seq) = g[1 .. n]
    BY <1>1, <2>1 DEF ProductOf, FoldLeft, MapThenFoldSet
  <2> QED
    BY <2>2, <2>3
<1> HIDE DEF seq
<1>3. PICK g : ProductOf(seq, n, g) /\ CollapsedSize(meta, names) = g[1 .. n]
  BY <1>2
<1>4. g[{}] = 1
  BY <1>3 DEF ProductOf
<1>5. ASSUME NEW i \in 0 .. n - 1 PROVE g[1 .. i + 1] = g[1 .. i] * seq[i + 1].size
  <2>1. (1 .. i + 1) \in SUBSET (1 .. n) /\ (1 .. i + 1) # {} /\ (1 .. i + 1) \ {i + 1} = 1 .. i
    OBVIOUS
  <2>2. Max(1 .. i + 1) = i + 1
    BY MaxOfPrefix
  <2>3. g[1 .. i + 1] = g[(1 .. i + 1) \ {Max(1 .. i + 1)}] * seq[Max(1 .. i + 1)].size
    BY <1>3, <2>1 DEF ProductOf
  <2> QED
    BY <2>1, <2>2, <2>3
<1> DEFINE f == [i \in 0 .. n |-> g[1 .. i]]
<1>6. 1 .. 0 = {} /\ 0 \in 0 .. n /\ n \in 0 .. n
  OBVIOUS
<1>7. f[0] = 1 /\ f[n] = CollapsedSize(meta, names)
  BY <1>3, <1>4, <1>6
<1>8. \A i \in 0 .. n - 1 : f[i + 1] = f[i] * seq[i + 1].size
  BY <1>5
<1> HIDE DEF f
<1> QED
  BY <1>7, <1>8 DEF seq

(***************************************************************************)
(* The metadata below given demultiplexers, and how many of them have a    *)
(* given beginning.                                                        *)
(***************************************************************************)
LEMMA MetaForm ==
  ASSUME NEW names, NEW size, NEW m
  PROVE  m \in Metas(names, size) <=>
           /\ m = [i \in DOMAIN names |-> m[i]] /\ DOMAIN m = DOMAIN names
           /\ \A i \in DOMAIN names : m[i] \in LevelsOf(names[i], size)
<1>1. \A i \in DOMAIN names : LevelsOf(names[i], size) \subseteq UNION {LevelsOf(d, size) : d \in Range(names)}
  BY DEF Range
<1> QED
  BY <1>1 DEF Metas

LEMMA MetaIsSequence ==
  ASSUME NEW D, NEW names \in Seq(D), NEW size, NEW m \in Metas(names, size)
  PROVE  /\ m \in Seq(UNION {LevelsOf(d, size) : d \in Range(names)}) /\ Len(m) = Len(names)
         /\ DOMAIN m = 1 .. Len(names) /\ DOMAIN names = 1 .. Len(names) /\ Len(names) \in Nat
<1>1. DOMAIN names = 1 .. Len(names) /\ Len(names) \in Nat
  OBVIOUS
<1>2. m \in [1 .. Len(names) -> UNION {LevelsOf(d, size) : d \in Range(names)}]
  BY <1>1 DEF Metas
<1> QED
  BY <1>1, <1>2

LEMMA MetaPrefix ==
  ASSUME NEW D, NEW names \in Seq(D), NEW size, NEW m \in Metas(names, size), NEW c \in 0 .. Len(names)
  PROVE  /\ SubSeq(m, 1, c) \in Metas(SubSeq(names, 1, c), size)
         /\ SubSeq(m, 1, c) = [i \in 1 .. c |-> m[i]]
         /\ SubSeq(names, 1, c) \in Seq(D) /\ Len(SubSeq(names, 1, c)) = c
<1> DEFINE U == UNION {LevelsOf(d, size) : d \in Range(names)}
<1>1. m \in Seq(U) /\ Len(m) = Len(names) /\ Len(names) \in Nat /\ DOMAIN m = 1 .. Len(names) /\ DOMAIN names = 1 .. Len(names)
  BY MetaIsSequence
<1> HIDE DEF U
<1>2. SubSeq(m, 1, c) = [i \in 1 .. c |-> m[i]] /\ SubSeq(names, 1, c) = [i \in 1 .. c |-> names[i]]
  BY <1>1
<1>3. \A i \in 1 .. c : m[i] \in LevelsOf(names[i], size)
  BY <1>1, MetaForm
<1>4. SubSeq(names, 1, c) \in Seq(D) /\ Len(SubSeq(names, 1, c)) = c
  BY <1>1
<1> DEFINE a == SubSeq(m, 1, c)
           b == SubSeq(names, 1, c)
<1>5. a = [i \in DOMAIN b |-> a[i]] /\ DOMAIN a = DOMAIN b /\ \A i \in DOMAIN b : a[i] \in LevelsOf(b[i], size)
  BY <1>2, <1>3
<1> HIDE DEF a, b
<1>6. a \in Metas(b, size)
  BY <1>5, MetaForm
<1> QED
  BY <1>2, <1>4, <1>6 DEF a, b

\* One more level.
LEMMA MetaAppend ==
  ASSUME NEW D, NEW names \in Seq(D), NEW size, NEW m \in Metas(names, size), NEW d \in D,
         NEW l \in LevelsOf(d, size)
  PROVE  /\ Append(m, l) \in Metas(Append(names, d), size)
         /\ SubSeq(Append(m, l), 1, Len(names)) = m
         /\ Append(m, l)[Len(names) + 1] = l
<1> DEFINE V == UNION {LevelsOf(e, size) : e \in Range(names)}
           U == V \cup {l}
           a == Append(m, l)
           b == Append(names, d)
           n == Len(names)
<1>1. m \in Seq(V) /\ Len(m) = n /\ n \in Nat /\ DOMAIN m = 1 .. n /\ DOMAIN names = 1 .. n
  BY MetaIsSequence
<1>2. l \in U
  OBVIOUS
<1> HIDE DEF V
<1>22. m \in Seq(U)
  BY <1>1
<1> HIDE DEF U
<1>33. b \in Seq(D) /\ Len(b) = n + 1 /\ DOMAIN b = 1 .. n + 1 /\ b[n + 1] = d /\ \A i \in 1 .. n : b[i] = names[i]
  BY <1>1
<1>34. a \in Seq(U) /\ Len(a) = n + 1 /\ DOMAIN a = 1 .. n + 1 /\ a[n + 1] = l /\ \A i \in 1 .. n : a[i] = m[i]
  BY <1>1, <1>2, <1>22
<1>6. SubSeq(a, 1, n) = m
  BY <1>1, <1>2, <1>22
<1> HIDE DEF a, b
<1>3. a = [i \in 1 .. n + 1 |-> a[i]]
  BY <1>34
<1>4. \A i \in 1 .. n : m[i] \in LevelsOf(names[i], size)
  BY <1>1, MetaForm
<1>5. \A i \in 1 .. n + 1 : i = n + 1 \/ i \in 1 .. n
  BY <1>1
<1>66. \A i \in 1 .. n + 1 : a[i] \in LevelsOf(b[i], size)
  BY <1>33, <1>34, <1>4, <1>5
<1>7. a \in Metas(b, size)
  BY <1>3, <1>33, <1>34, <1>66, MetaForm
<1> QED
  BY <1>34, <1>6, <1>7 DEF a, b, n

\* The metadata of the first c levels that begin with k.
Beginning(names, size, k, c) ==
  {m \in Metas(SubSeq(names, 1, c), size) : SubSeq(m, 1, Len(k)) = k}

LEMMA OneBeginning ==
  ASSUME NEW D, NEW names \in Seq(D), NEW size, NEW j \in 0 .. Len(names),
         NEW k \in Metas(SubSeq(names, 1, j), size)
  PROVE  Beginning(names, size, k, j) = {k} /\ Len(k) = j
<1> DEFINE b == SubSeq(names, 1, j)
<1>1. b \in Seq(D) /\ Len(b) = j
  OBVIOUS
<1> HIDE DEF b
<1>2. ASSUME NEW m \in Metas(b, size) PROVE SubSeq(m, 1, j) = m /\ Len(m) = j
  <2> DEFINE U == UNION {LevelsOf(d, size) : d \in Range(b)}
  <2>1. m \in Seq(U) /\ Len(m) = j
    BY <1>1, MetaIsSequence
  <2> HIDE DEF U
  <2> QED
    BY <2>1
<1>3. k \in Metas(b, size)
  BY DEF b
<1>4. Len(k) = j /\ SubSeq(k, 1, j) = k
  BY <1>2, <1>3
<1>5. Beginning(names, size, k, j) = {m \in Metas(b, size) : SubSeq(m, 1, j) = k}
  BY <1>4 DEF Beginning, b
<1> QED
  BY <1>2, <1>3, <1>4, <1>5

LEMMA MoreLevels ==
  ASSUME NEW D, NEW names \in Seq(D), NEW size, NEW j \in 0 .. Len(names),
         NEW k \in Metas(SubSeq(names, 1, j), size), NEW c \in j .. Len(names) - 1,
         Shards(names[c + 1], size) \in Nat, IsFiniteSet(Beginning(names, size, k, c))
  PROVE  /\ IsFiniteSet(Beginning(names, size, k, c + 1))
         /\ Cardinality(Beginning(names, size, k, c + 1)) =
              Cardinality(Beginning(names, size, k, c)) * Shards(names[c + 1], size)
<1> DEFINE d == names[c + 1]
           w == Shards(d, size)
           A == Beginning(names, size, k, c)
           B == Beginning(names, size, k, c + 1)
           W == 0 .. w - 1
           na == SubSeq(names, 1, c)
           nb == SubSeq(names, 1, c + 1)
           f == [x \in A \X W |-> Append(x[1], Level(d, x[2], w))]
<1>0. c \in Nat /\ j \in Nat /\ j <= c /\ Len(names) \in Nat /\ c + 1 <= Len(names) /\ Len(k) = j /\ w \in Nat
  BY OneBeginning
<1>1. na \in Seq(D) /\ Len(na) = c /\ nb \in Seq(D) /\ Len(nb) = c + 1 /\ d \in D /\ nb = Append(na, d)
  BY <1>0
<1>2. SubSeq(nb, 1, c) = na
  BY <1>0, <1>1
<1> HIDE DEF na, nb, d, w, W
<1>3. \A x \in W : Level(d, x, w) \in LevelsOf(d, size)
  BY DEF LevelsOf, W, w
<1>4. ASSUME NEW m \in A, NEW x \in W
      PROVE  /\ Append(m, Level(d, x, w)) \in B
             /\ SubSeq(Append(m, Level(d, x, w)), 1, c) = m
             /\ Append(m, Level(d, x, w))[c + 1] = Level(d, x, w)
  <2> DEFINE l == Level(d, x, w)
             a == Append(m, l)
  <2>1. m \in Metas(na, size) /\ SubSeq(m, 1, j) = k
    BY <1>0 DEF Beginning, na
  <2> l \in LevelsOf(d, size)
    BY <1>3
  <2> HIDE DEF l
  <2>2. a \in Metas(nb, size) /\ SubSeq(a, 1, c) = m /\ a[c + 1] = l
    BY <1>1, <2>1, MetaAppend
  <2> HIDE DEF a
  <2>3. SubSeq(a, 1, j) = SubSeq(SubSeq(a, 1, c), 1, j)
    <3> DEFINE U == UNION {LevelsOf(e, size) : e \in Range(nb)}
    <3>1. a \in Seq(U) /\ Len(a) = c + 1
      BY <1>1, <2>2, MetaIsSequence
    <3> HIDE DEF U
    <3> QED
      BY <1>0, <3>1
  <2>4. a \in B
    BY <1>0, <2>1, <2>2, <2>3 DEF Beginning, nb
  <2> QED
    BY <2>2, <2>4 DEF a, l
<1>5. ASSUME NEW m \in B
      PROVE  \E y \in A \X W : m = Append(y[1], Level(d, y[2], w))
  <2> DEFINE a == SubSeq(m, 1, c)
             U == UNION {LevelsOf(e, size) : e \in Range(nb)}
  <2>1. m \in Metas(nb, size) /\ SubSeq(m, 1, j) = k
    BY <1>0 DEF Beginning, nb
  <2>2. a \in Metas(na, size)
    <3>1. c \in 0 .. Len(nb)
      BY <1>0, <1>1
    <3>2. SubSeq(m, 1, c) \in Metas(SubSeq(nb, 1, c), size)
      BY <1>1, <2>1, <3>1, MetaPrefix
    <3> QED
      BY <1>2, <3>2
  <2>3. m \in Seq(U) /\ Len(m) = c + 1 /\ DOMAIN nb = 1 .. c + 1
    BY <1>1, <2>1, MetaIsSequence
  <2>4. m[c + 1] \in LevelsOf(nb[c + 1], size) /\ nb[c + 1] = d
    <3>1. c + 1 \in DOMAIN nb
      BY <1>0, <2>3
    <3>2. nb[c + 1] = d
      BY <1>0, <1>1
    <3> QED
      BY <2>1, <3>1, <3>2, MetaForm
  <2>5. PICK x \in W : m[c + 1] = Level(d, x, w)
    BY <2>4 DEF LevelsOf, W, w
  <2> HIDE DEF U
  <2>6. m = Append(a, m[c + 1])
    BY <1>0, <2>3
  <2>7. SubSeq(a, 1, j) = SubSeq(m, 1, j)
    BY <1>0, <2>3
  <2>8. a \in A
    BY <1>0, <2>1, <2>2, <2>7 DEF Beginning, na
  <2> HIDE DEF a
  <2>9. <<a, x>> \in A \X W /\ m = Append(<<a, x>>[1], Level(d, <<a, x>>[2], w))
    BY <2>5, <2>6, <2>8
  <2> QED
    BY <2>9
<1> HIDE DEF A, B
<1>6. f \in [A \X W -> B]
  BY <1>4
<1>7. \A x, y \in A \X W : f[x] = f[y] => x = y
  <2> SUFFICES ASSUME NEW x \in A \X W, NEW y \in A \X W, f[x] = f[y] PROVE x = y
    OBVIOUS
  <2>1. x[1] = y[1] /\ Level(d, x[2], w) = Level(d, y[2], w)
    <3>1. x[1] \in A /\ x[2] \in W /\ y[1] \in A /\ y[2] \in W
      OBVIOUS
    <3>2. f[x] = Append(x[1], Level(d, x[2], w)) /\ f[y] = Append(y[1], Level(d, y[2], w))
      OBVIOUS
    <3> DEFINE u == x[1]
               v == y[1]
               lu == Level(d, x[2], w)
               lv == Level(d, y[2], w)
               p == Append(u, lu)
               q == Append(v, lv)
    <3>3. SubSeq(p, 1, c) = u /\ p[c + 1] = lu
      BY <1>4, <3>1
    <3>4. SubSeq(q, 1, c) = v /\ q[c + 1] = lv
      BY <1>4, <3>1
    <3>5. p = q
      BY <3>2
    <3> HIDE DEF f, p, q
    <3> QED
      BY <3>3, <3>4, <3>5
  <2>2. x[2] = y[2]
    BY <2>1 DEF Level
  <2> QED
    BY <2>1, <2>2
<1>8. \A m \in B : \E y \in A \X W : f[y] = m
  BY <1>5
<1>9. ExistsBijection(A \X W, B)
  <2> HIDE DEF f
  <2>1. f \in Bijection(A \X W, B)
    BY <1>6, <1>7, <1>8 DEF Bijection, Injection, Surjection, IsInjective
  <2> QED
    BY <2>1 DEF ExistsBijection
<1>10. IsFiniteSet(W) /\ Cardinality(W) = w
  <2>1. IsFiniteSet(0 .. w - 1) /\ Cardinality(0 .. w - 1) = IF 0 > w - 1 THEN 0 ELSE (w - 1) - 0 + 1
    <3>1. 0 \in Int /\ w - 1 \in Int
      BY <1>0
    <3> QED
      BY <3>1, FS_Interval
  <2> QED
    BY <1>0, <2>1 DEF W
<1>11. IsFiniteSet(A)
  BY DEF A
<1>12. IsFiniteSet(A \X W) /\ Cardinality(A \X W) = Cardinality(A) * w
  BY <1>10, <1>11, FS_Product
<1>13. IsFiniteSet(B) /\ Cardinality(B) = Cardinality(A) * w
  BY <1>9, <1>12, FS_Bijection
<1> QED
  BY <1>13 DEF A, B, d, w

(***************************************************************************)
(* A graph that passed validation: a node is below the same demultiplexers *)
(* on every way from the entry.                                            *)
(***************************************************************************)
LEMMA GraphFacts ==
  ASSUME graph \in Graphs
  PROVE  /\ IsFiniteSet(Nodes) /\ graph.entry \in Nodes /\ graph.exit \in Nodes
         /\ graph.next \in [Nodes -> SUBSET Nodes] /\ graph.gather \in [Nodes -> SUBSET Nodes]
         /\ graph.kind \in [Nodes -> {"entry", "dl", "custom", "exit"}]
         /\ graph.demultiply \in [Nodes -> Nat \cup {NoDemultiplexer}]
         /\ \A n \in Nodes : graph.kind[n] = "exit" <=> n = graph.exit
         /\ graph.next[graph.exit] = {} /\ graph.demultiply[graph.exit] = NoDemultiplexer
         /\ graph.gather[graph.entry] = {}
         /\ \A n \in Nodes : n = graph.entry <=> Previous(n) = {}
         /\ \A m, n \in Demultiplexers(graph) : graph.demultiply[m] = 0 => n = m
         /\ Previous(graph.entry) = {}
<1>1. Validated(graph)
  BY GraphsAssumption
<1>2. \A n \in Nodes : Previous(n) = {} <=> \A p \in Nodes : n \notin graph.next[p]
  BY DEF Previous
<1> QED
  BY <1>1, <1>2 DEF Validated, Nodes

LEMMA LevelsOK ==
  ASSUME graph \in Graphs
  PROVE  /\ LevelsFit(graph, Levels)
         /\ \A n \in Nodes : Levels[n] \in Seq(Demultiplexers(graph))
         /\ \A n \in Nodes : Leaving(graph, Levels, n) \in Seq(Demultiplexers(graph))
<1> DEFINE D == Demultiplexers(graph)
<1>1. \E levels \in LevelFunctions(graph) : LevelsFit(graph, levels)
  BY GraphsAssumption DEF Validated
<1>2. Levels \in LevelFunctions(graph) /\ LevelsFit(graph, Levels)
  BY <1>1 DEF Levels, LevelsIn
<1>3. SeqOf(D, Cardinality(D)) \subseteq Seq(D)
  <2> SUFFICES ASSUME NEW q \in SeqOf(D, Cardinality(D)) PROVE q \in Seq(D)
    OBVIOUS
  <2> HIDE DEF D
  <2>1. PICK k \in 0 .. Cardinality(D) : q \in [1 .. k -> D]
    BY DEF SeqOf
  <2>2. k \in Nat
    BY <2>1
  <2> QED
    BY <2>1, <2>2
<1>4. \A n \in Nodes : Levels[n] \in Seq(D)
  BY <1>2, <1>3 DEF LevelFunctions, Nodes
<1>5. ASSUME NEW n \in Nodes PROVE Leaving(graph, Levels, n) \in Seq(D)
  <2>1. graph.demultiply[n] # NoDemultiplexer => n \in D
    BY DEF Demultiplexers, Nodes
  <2>2. Levels[n] \in Seq(D)
    BY <1>4
  <2> HIDE DEF D
  <2> QED
    BY <2>1, <2>2 DEF Leaving
<1> QED
  BY <1>2, <1>4, <1>5

LEMMA ShardsOK ==
  ASSUME graph \in Graphs, NEW size \in Nat, NEW d \in Demultiplexers(graph)
  PROVE  Shards(d, size) \in Nat /\ (size # 0 => Shards(d, size) > 0)
<1>1. graph.demultiply[d] \in Nat
  BY GraphFacts DEF Demultiplexers, Nodes
<1> QED
  BY <1>1 DEF Shards

\* What a dependency p of node n hands on is below the levels of n and those n gathers.
LEMMA EdgeFacts ==
  ASSUME graph \in Graphs, NEW n \in Nodes, NEW p \in Previous(n)
  PROVE  LET out == Leaving(graph, Levels, p)
             g == Cardinality(graph.gather[n])
         IN  /\ p \in Nodes /\ n \in graph.next[p] /\ out \in Seq(Demultiplexers(graph)) /\ Len(out) \in Nat /\ g \in Nat
             /\ Len(out) - g \in 0 .. Len(out)
             /\ Levels[n] = SubSeq(out, 1, Len(out) - g)
             /\ {out[i] : i \in Len(out) - g + 1 .. Len(out)} = graph.gather[n]
             /\ \A q \in Previous(n) : Leaving(graph, Levels, q) = out
<1> DEFINE out == Leaving(graph, Levels, p)
           g == Cardinality(graph.gather[n])
<1>1. p \in Nodes /\ n \in graph.next[p]
  BY DEF Previous
<1>2. LevelsFit(graph, Levels) /\ out \in Seq(Demultiplexers(graph))
  BY <1>1, LevelsOK
<1>3. Len(out) \in Nat
  BY <1>2
<1>4. g \in Nat
  <2>1. graph.gather[n] \subseteq Nodes /\ IsFiniteSet(Nodes)
    BY GraphFacts
  <2> QED
    BY <2>1, FS_Subset, FS_CardinalityType
<1>5. /\ Len(out) - g >= 0 /\ Levels[n] = SubSeq(out, 1, Len(out) - g)
      /\ {out[i] : i \in Len(out) - g + 1 .. Len(out)} = graph.gather[n]
      /\ \A q \in Nodes : n \in graph.next[q] => Leaving(graph, Levels, q) = out
  BY <1>1, <1>2 DEF LevelsFit, Nodes
<1>6. \A q \in Previous(n) : Leaving(graph, Levels, q) = out
  BY <1>5 DEF Previous
<1> HIDE DEF out, g
<1>7. Len(out) - g \in 0 .. Len(out)
  BY <1>3, <1>4, <1>5
<1> QED
  BY <1>1, <1>2, <1>3, <1>4, <1>5, <1>6, <1>7 DEF out, g

\* The session a result goes to.
LEMMA KeyOf ==
  ASSUME graph \in Graphs, NEW size, NEW n \in Nodes, NEW p \in Previous(n),
         NEW m \in Metas(Leaving(graph, Levels, p), size)
  PROVE  LET kept == Len(Leaving(graph, Levels, p)) - Cardinality(graph.gather[n])
         IN  /\ Key(n, m) = <<n, SubSeq(m, 1, kept)>>
             /\ SubSeq(m, 1, kept) \in Metas(Levels[n], size)
             /\ Len(Levels[n]) = kept
             /\ Len(m) = Len(Leaving(graph, Levels, p))
<1> DEFINE out == Leaving(graph, Levels, p)
           kept == Len(out) - Cardinality(graph.gather[n])
           D == Demultiplexers(graph)
<1>1. out \in Seq(D) /\ kept \in 0 .. Len(out) /\ Levels[n] = SubSeq(out, 1, kept) /\ Len(out) \in Nat
  BY EdgeFacts
<1>2. m \in Metas(out, size)
  OBVIOUS
<1> HIDE DEF D
<1>3. Len(m) = Len(out)
  <2> HIDE DEF out
  <2> QED
    BY <1>1, <1>2, MetaIsSequence
<1>4. SubSeq(m, 1, kept) \in Metas(SubSeq(out, 1, kept), size) /\ Len(SubSeq(out, 1, kept)) = kept
  <2> HIDE DEF out, kept
  <2> QED
    BY <1>1, <1>2, MetaPrefix
<1>5. Key(n, m) = <<n, SubSeq(m, 1, kept)>>
  BY <1>3 DEF Key, SessionKey
<1> HIDE DEF out
<1> QED
  BY <1>1, <1>3, <1>4, <1>5 DEF out

\* The results that go to a session are those of every dependency that begin with its key.
LEMMA ExpectedForm ==
  ASSUME graph \in Graphs, NEW size, NEW n \in Nodes, NEW k, NEW p0 \in Previous(n), k \in Metas(Levels[n], size)
  PROVE  LET out == Leaving(graph, Levels, p0)
         IN Expected(<<n, k>>, size) = Previous(n) \X Beginning(out, size, k, Len(out))
<1> DEFINE out == Leaving(graph, Levels, p0)
           kept == Len(out) - Cardinality(graph.gather[n])
           D == Demultiplexers(graph)
           B == Beginning(out, size, k, Len(out))
<1>1. out \in Seq(D) /\ Len(out) \in Nat /\ kept \in 0 .. Len(out) /\ Levels[n] = SubSeq(out, 1, kept)
      /\ \A p \in Previous(n) : Leaving(graph, Levels, p) = out
  BY EdgeFacts
<1>2. Len(k) = kept
  <2> HIDE DEF out, kept, D
  <2> QED
    BY <1>1, OneBeginning
<1>3. SubSeq(out, 1, Len(out)) = out
  <2> HIDE DEF out
  <2> QED
    BY <1>1
<1>4. B = {m \in Metas(out, size) : SubSeq(m, 1, kept) = k}
  <2> HIDE DEF out, kept
  <2> QED
    BY <1>2, <1>3 DEF Beginning, B
<1>5. \A m \in Metas(out, size) : Key(n, m) = <<n, SubSeq(m, 1, kept)>>
  BY KeyOf
<1> HIDE DEF out, kept, D
<1>6. \A m \in Metas(out, size) : Key(n, m) = <<n, k>> <=> SubSeq(m, 1, kept) = k
  <2> SUFFICES ASSUME NEW m \in Metas(out, size) PROVE Key(n, m) = <<n, k>> <=> SubSeq(m, 1, kept) = k
    OBVIOUS
  <2> DEFINE a == SubSeq(m, 1, kept)
  <2>1. Key(n, m) = <<n, a>>
    BY <1>5
  <2> HIDE DEF a
  <2>2. Key(n, m) = <<n, k>> <=> a = k
    BY <2>1
  <2> QED
    BY <2>2 DEF a
<1>7. Expected(<<n, k>>, size) = {r \in UNION {{p} \X Metas(out, size) : p \in Previous(n)} : Key(n, r[2]) = <<n, k>>}
  BY <1>1 DEF Expected
<1>8. Expected(<<n, k>>, size) = {r \in Previous(n) \X Metas(out, size) : Key(n, r[2]) = <<n, k>>}
  BY <1>7
<1>9. Expected(<<n, k>>, size) = Previous(n) \X B
  <2>1. ASSUME NEW r, r \in Expected(<<n, k>>, size) PROVE r \in Previous(n) \X B
    <3>1. r \in Previous(n) \X Metas(out, size) /\ Key(n, r[2]) = <<n, k>>
      BY <1>8, <2>1
    <3> QED
      BY <1>4, <1>6, <3>1
  <2>2. ASSUME NEW r, r \in Previous(n) \X B PROVE r \in Expected(<<n, k>>, size)
    <3>1. r \in Previous(n) \X Metas(out, size) /\ SubSeq(r[2], 1, kept) = k
      BY <1>4, <2>2
    <3> QED
      BY <1>6, <1>8, <3>1
  <2> QED
    BY <2>1, <2>2
<1> QED
  BY <1>9 DEF out

\* How many results go to a session: what createNodeSession computes from any of them.
LEMMA BeginningCounted ==
  ASSUME NEW D, NEW names \in Seq(D), NEW size, \A d \in D : Shards(d, size) \in Nat,
         NEW j \in 0 .. Len(names), NEW k \in Metas(SubSeq(names, 1, j), size), NEW f,
         f[0] = 1, \A i \in 0 .. Len(names) - j - 1 : f[i + 1] = f[i] * Shards(names[j + i + 1], size)
  PROVE  /\ IsFiniteSet(Beginning(names, size, k, Len(names)))
         /\ Cardinality(Beginning(names, size, k, Len(names))) = f[Len(names) - j]
<1> DEFINE n == Len(names) - j
           S == {c \in 0 .. n : /\ IsFiniteSet(Beginning(names, size, k, j + c))
                                /\ Cardinality(Beginning(names, size, k, j + c)) = f[c]}
<1>0. n \in Nat /\ j \in Nat /\ Len(names) \in Nat /\ j + n = Len(names) /\ DOMAIN names = 1 .. Len(names)
  OBVIOUS
<1>1. 0 \in S
  <2>1. Beginning(names, size, k, j) = {k}
    BY OneBeginning
  <2>2. IsFiniteSet({k}) /\ Cardinality({k}) = 1
    BY FS_Singleton
  <2>3. j + 0 = j /\ 0 \in 0 .. n
    BY <1>0
  <2> QED
    BY <2>1, <2>2, <2>3
<1>2. ASSUME NEW c \in 0 .. n - 1, c \in S PROVE c + 1 \in S
  <2>1. j + c \in j .. Len(names) - 1 /\ (j + c) + 1 \in 1 .. Len(names) /\ c \in 0 .. Len(names) - j - 1
        /\ j + (c + 1) = (j + c) + 1 /\ j + c + 1 = (j + c) + 1 /\ c + 1 \in 0 .. n
    BY <1>0
  <2>2. names[(j + c) + 1] \in D
    BY <1>0, <2>1
  <2>3. /\ IsFiniteSet(Beginning(names, size, k, (j + c) + 1))
        /\ Cardinality(Beginning(names, size, k, (j + c) + 1)) =
             Cardinality(Beginning(names, size, k, j + c)) * Shards(names[(j + c) + 1], size)
    <3>1. IsFiniteSet(Beginning(names, size, k, j + c)) /\ Shards(names[(j + c) + 1], size) \in Nat
      BY <1>2, <2>2
    <3> DEFINE e == j + c
    <3>2. e \in j .. Len(names) - 1
      BY <2>1
    <3> HIDE DEF e
    <3> QED
      BY <3>1, <3>2, MoreLevels DEF e
  <2>4. f[c + 1] = f[c] * Shards(names[(j + c) + 1], size)
    BY <2>1
  <2>5. Cardinality(Beginning(names, size, k, j + c)) = f[c]
    BY <1>2
  <2> QED
    BY <2>1, <2>3, <2>4, <2>5
<1>3. 0 .. n \subseteq S
  <2> HIDE DEF S, n
  <2> QED
    BY <1>0, <1>1, <1>2, InductionTo
<1>4. n \in S
  <2> HIDE DEF S, n
  <2> QED
    BY <1>0, <1>3
<1>5. IsFiniteSet(Beginning(names, size, k, j + n)) /\ Cardinality(Beginning(names, size, k, j + n)) = f[n]
  BY <1>4
<1> QED
  BY <1>0, <1>5

\* As many results begin like m as the product of the sizes of the levels of m that are collapsed.
LEMMA BeginningSized ==
  ASSUME graph \in Graphs, NEW size \in Nat, NEW n \in Nodes, NEW p \in Previous(n),
         NEW m \in Metas(Leaving(graph, Levels, p), size)
  PROVE  LET out == Leaving(graph, Levels, p)
             B == Beginning(out, size, SubSeq(m, 1, Len(out) - Cardinality(graph.gather[n])), Len(out))
         IN  IsFiniteSet(B) /\ Cardinality(B) = CollapsedSize(m, graph.gather[n])
<1> DEFINE out == Leaving(graph, Levels, p)
           g == graph.gather[n]
           kept == Len(out) - Cardinality(g)
           D == Demultiplexers(graph)
           k == SubSeq(m, 1, kept)
           B == Beginning(out, size, k, Len(out))
           levels == Collapsed(m, g)
<1>1. /\ out \in Seq(D) /\ kept \in 0 .. Len(out) /\ Levels[n] = SubSeq(out, 1, kept) /\ Len(out) \in Nat
      /\ Cardinality(g) \in Nat
  BY EdgeFacts
<1>2. Key(n, m) = <<n, k>> /\ k \in Metas(Levels[n], size) /\ Len(m) = Len(out)
  BY KeyOf
<1>4. \A d \in D : Shards(d, size) \in Nat
  BY ShardsOK
<1>5. m \in Metas(out, size)
  OBVIOUS
<1> HIDE DEF out, D
<1>6. /\ DOMAIN levels = 1 .. Cardinality(g)
      /\ \A i \in 1 .. Cardinality(g) : levels[i] = m[kept + i]
  <2> DEFINE U == UNION {LevelsOf(d, size) : d \in Range(out)}
  <2>1. m \in Seq(U)
    BY <1>1, <1>5, MetaIsSequence
  <2> DEFINE a == Len(out) - Cardinality(g) + 1
             b == Len(out)
  <2>2. levels = SubSeq(m, a, b)
    BY <1>2 DEF Collapsed
  <2>3. a \in 1 .. b + 1 /\ b \in Nat /\ Len(m) = b /\ a \in Nat /\ b - a + 1 = Cardinality(g) /\ kept = a - 1
    BY <1>1, <1>2
  <2> HIDE DEF U, a, b, levels, kept
  <2>4. /\ DOMAIN SubSeq(m, a, b) = 1 .. b - a + 1
        /\ \A i \in 1 .. b - a + 1 : SubSeq(m, a, b)[i] = m[a + i - 1]
    BY <2>1, <2>3
  <2>5. \A i \in 1 .. Cardinality(g) : a + i - 1 = kept + i
    BY <1>1, <2>3
  <2> QED
    BY <2>2, <2>3, <2>4, <2>5
<1> HIDE DEF levels
<1>7. ASSUME NEW i \in 1 .. Cardinality(g) PROVE levels[i].size = Shards(out[kept + i], size)
  <2>1. kept + i \in DOMAIN out
    BY <1>1
  <2>2. m[kept + i] \in LevelsOf(out[kept + i], size)
    BY <1>5, <2>1, MetaForm
  <2> QED
    <3>1. levels[i] \in LevelsOf(out[kept + i], size)
      BY <1>6, <2>2
    <3> HIDE DEF kept
    <3> QED
      BY <3>1 DEF LevelsOf, Level
<1>8. PICK f : /\ f[0] = 1 /\ f[Cardinality(g)] = CollapsedSize(m, g)
               /\ \A i \in 0 .. Cardinality(g) - 1 : f[i + 1] = f[i] * levels[i + 1].size
  <2> DEFINE c == Cardinality(g)
  <2>1. c \in Nat /\ DOMAIN Collapsed(m, g) = 1 .. c
    BY <1>1, <1>6 DEF levels
  <2> HIDE DEF g, c
  <2>2. \E f : /\ f[0] = 1 /\ f[c] = CollapsedSize(m, g)
               /\ \A i \in 0 .. c - 1 : f[i + 1] = f[i] * Collapsed(m, g)[i + 1].size
    BY <2>1, CollapsedSizeIsProduct
  <2> QED
    BY <2>2 DEF levels, c
<1>9. \A i \in 0 .. Len(out) - kept - 1 : f[i + 1] = f[i] * Shards(out[kept + i + 1], size)
  <2> SUFFICES ASSUME NEW i \in 0 .. Len(out) - kept - 1 PROVE f[i + 1] = f[i] * Shards(out[kept + i + 1], size)
    OBVIOUS
  <2>1. i \in 0 .. Cardinality(g) - 1 /\ i + 1 \in 1 .. Cardinality(g) /\ kept + (i + 1) = kept + i + 1
    BY <1>1
  <2> HIDE DEF levels, kept
  <2> QED
    BY <1>7, <1>8, <2>1
<1>10. IsFiniteSet(B) /\ Cardinality(B) = f[Len(out) - kept]
  <2>1. k \in Metas(SubSeq(out, 1, kept), size)
    BY <1>1, <1>2
  <2> HIDE DEF k, kept
  <2> QED
    BY <1>1, <1>4, <1>8, <1>9, <2>1, BeginningCounted
<1>11. Len(out) - kept = Cardinality(g)
  BY <1>1
<1> QED
  BY <1>8, <1>10, <1>11 DEF B, out

LEMMA ExpectedCounted ==
  ASSUME graph \in Graphs, NEW size \in Nat, NEW n \in Nodes, NEW p \in Previous(n),
         NEW m \in Metas(Leaving(graph, Levels, p), size)
  PROVE  /\ IsFiniteSet(Expected(Key(n, m), size))
         /\ Cardinality(Expected(Key(n, m), size)) =
              Cardinality(Previous(n)) * CollapsedSize(m, graph.gather[n])
<1> DEFINE out == Leaving(graph, Levels, p)
           g == graph.gather[n]
           k == SubSeq(m, 1, Len(out) - Cardinality(g))
           B == Beginning(out, size, k, Len(out))
<1>1. Key(n, m) = <<n, k>> /\ k \in Metas(Levels[n], size)
  BY KeyOf
<1>2. Expected(<<n, k>>, size) = Previous(n) \X B
  <2> HIDE DEF k
  <2> QED
    BY <1>1, ExpectedForm
<1>3. IsFiniteSet(B) /\ Cardinality(B) = CollapsedSize(m, g)
  BY BeginningSized
<1>4. IsFiniteSet(Previous(n))
  BY GraphFacts, FS_Subset DEF Previous
<1> HIDE DEF B, g
<1>5. IsFiniteSet(Previous(n) \X B) /\ Cardinality(Previous(n) \X B) = Cardinality(Previous(n)) * Cardinality(B)
  BY <1>3, <1>4, FS_Product
<1> QED
  BY <1>1, <1>2, <1>3, <1>5 DEF g

(***************************************************************************)
(* The metadata of sessions and of their results.                          *)
(***************************************************************************)
LEMMA NoLevels ==
  ASSUME NEW D, NEW names \in Seq(D), NEW size
  PROVE  /\ Metas(<<>>, size) = {<<>>}
         /\ <<>> \in Metas(names, size) => names = <<>>
<1>1. ASSUME NEW m PROVE m \in Metas(<<>>, size) <=> m = <<>>
  <2>2. m \in Metas(<<>>, size) <=> m = [i \in {} |-> m[i]] /\ DOMAIN m = {}
    <3> DEFINE e == <<>>
    <3>1. DOMAIN e = {}
      OBVIOUS
    <3> HIDE DEF e
    <3>2. m \in Metas(e, size) <=> m = [i \in {} |-> m[i]] /\ DOMAIN m = {}
      BY <3>1 DEF Metas
    <3> QED
      BY <3>2 DEF e
  <2>3. m = <<>> <=> m = [i \in {} |-> m[i]] /\ DOMAIN m = {}
    OBVIOUS
  <2> QED
    BY <2>2, <2>3
<1>2. ASSUME <<>> \in Metas(names, size) PROVE names = <<>>
  <2>1. Len(<<>>) = Len(names)
    BY <1>2, MetaIsSequence
  <2> QED
    BY <2>1
<1> QED
  BY <1>1, <1>2

LEMMA LevelExists ==
  ASSUME NEW size, NEW d, Shards(d, size) \in Nat, Shards(d, size) > 0
  PROVE  Level(d, 0, Shards(d, size)) \in LevelsOf(d, size)
<1>1. 0 \in 0 .. Shards(d, size) - 1
  OBVIOUS
<1> QED
  BY <1>1 DEF LevelsOf

\* Every session of a node has results of every dependency to wait for.
LEMMA MetaExtends ==
  ASSUME graph \in Graphs, NEW size \in Nat \ {0}, NEW n \in Nodes, NEW p \in Previous(n), NEW k \in Metas(Levels[n], size)
  PROVE  \E m \in Metas(Leaving(graph, Levels, p), size) : Key(n, m) = <<n, k>>
<1> DEFINE out == Leaving(graph, Levels, p)
           kept == Len(out) - Cardinality(graph.gather[n])
           D == Demultiplexers(graph)
           m == [i \in 1 .. Len(out) |-> IF i <= kept THEN k[i] ELSE Level(out[i], 0, Shards(out[i], size))]
<1>1. out \in Seq(D) /\ kept \in 0 .. Len(out) /\ Levels[n] = SubSeq(out, 1, kept) /\ Len(out) \in Nat
      /\ DOMAIN out = 1 .. Len(out)
  BY EdgeFacts
<1> HIDE DEF out, kept
<1>2. k \in Metas(SubSeq(out, 1, kept), size)
  BY <1>1
<1>3. SubSeq(out, 1, kept) = [i \in 1 .. kept |-> out[i]] /\ DOMAIN SubSeq(out, 1, kept) = 1 .. kept
  BY <1>1
<1>4. k = [i \in 1 .. kept |-> k[i]] /\ \A i \in 1 .. kept : k[i] \in LevelsOf(out[i], size)
  <2> DEFINE b == SubSeq(out, 1, kept)
  <2>1. b = [i \in 1 .. kept |-> out[i]] /\ DOMAIN b = 1 .. kept /\ k \in Metas(b, size)
    BY <1>2, <1>3
  <2>3. \A i \in 1 .. kept : b[i] = out[i]
    BY <2>1
  <2> HIDE DEF b
  <2>2. \A i \in DOMAIN b : k[i] \in LevelsOf(b[i], size)
    BY <2>1, MetaForm
  <2>4. k \in [1 .. kept -> UNION {LevelsOf(d, size) : d \in Range(b)}]
    BY <2>1 DEF Metas
  <2>5. k = [i \in 1 .. kept |-> k[i]]
    BY <2>4
  <2> QED
    BY <2>1, <2>2, <2>3, <2>5
<1>5. \A i \in 1 .. Len(out) : m[i] \in LevelsOf(out[i], size)
  <2> SUFFICES ASSUME NEW i \in 1 .. Len(out) PROVE m[i] \in LevelsOf(out[i], size)
    OBVIOUS
  <2>1. CASE i <= kept
    BY <1>1, <1>4, <2>1
  <2>2. CASE ~ (i <= kept)
    <3>1. out[i] \in D
      BY <1>1
    <3>2. Shards(out[i], size) \in Nat /\ Shards(out[i], size) > 0
      BY <3>1, ShardsOK
    <3>3. Level(out[i], 0, Shards(out[i], size)) \in LevelsOf(out[i], size)
      BY <3>2, LevelExists
    <3> QED
      BY <2>2, <3>3
  <2> QED
    BY <2>1, <2>2
<1>6. DOMAIN m = DOMAIN out /\ m = [i \in DOMAIN out |-> m[i]]
  BY <1>1
<1>7. \A i \in 1 .. kept : m[i] = k[i]
  BY <1>1
<1> HIDE DEF m
<1>8. m \in Metas(out, size)
  BY <1>1, <1>5, <1>6, MetaForm
<1>9. SubSeq(m, 1, kept) = k
  <2>1. SubSeq(m, 1, kept) = [i \in 1 .. kept |-> m[i]]
    <3> HIDE DEF D
    <3> QED
      BY <1>1, <1>8, MetaPrefix
  <2> QED
    BY <1>4, <1>7, <2>1
<1>10. Key(n, m) = <<n, SubSeq(m, 1, kept)>>
  BY <1>8, KeyOf DEF out, kept
<1> QED
  BY <1>8, <1>9, <1>10 DEF out

LEMMA ExpectedFacts ==
  ASSUME graph \in Graphs, NEW size \in Nat \ {0}, NEW n \in Nodes, NEW k \in Metas(Levels[n], size)
  PROVE  /\ IsFiniteSet(Expected(<<n, k>>, size)) /\ IsFiniteSet(Missing(<<n, k>>, size))
         /\ Missing(<<n, k>>, size) \subseteq Expected(<<n, k>>, size)
         /\ n # graph.entry => Expected(<<n, k>>, size) # {}
         /\ n = graph.entry => Expected(<<n, k>>, size) = {}
         /\ \A p \in Previous(n) : \A m \in Metas(Leaving(graph, Levels, p), size) :
              Key(n, m) = <<n, k>> => <<p, m>> \in Expected(<<n, k>>, size)
         /\ \A r \in Expected(<<n, k>>, size) :
              /\ r = <<r[1], r[2]>> /\ r[1] \in Previous(n) /\ r[1] \in Nodes /\ r[2] \in Metas(Leaving(graph, Levels, r[1]), size)
              /\ Key(n, r[2]) = <<n, k>>
<1> DEFINE E == Expected(<<n, k>>, size)
<1>0. E = {r \in UNION {{p} \X Metas(Leaving(graph, Levels, p), size) : p \in Previous(n)} : Key(n, r[2]) = <<n, k>>}
  BY DEF Expected
<1>1. \A r \in E : /\ r = <<r[1], r[2]>> /\ r[1] \in Previous(n) /\ r[2] \in Metas(Leaving(graph, Levels, r[1]), size)
                   /\ Key(n, r[2]) = <<n, k>>
  <2> SUFFICES ASSUME NEW r \in E PROVE /\ r = <<r[1], r[2]>> /\ r[1] \in Previous(n) /\ r[2] \in Metas(Leaving(graph, Levels, r[1]), size)
                   /\ Key(n, r[2]) = <<n, k>>
    OBVIOUS
  <2>1. PICK p \in Previous(n) : r \in {p} \X Metas(Leaving(graph, Levels, p), size)
    BY <1>0
  <2> QED
    BY <1>0, <2>1
<1>2. ASSUME NEW p \in Previous(n), NEW m \in Metas(Leaving(graph, Levels, p), size), Key(n, m) = <<n, k>>
      PROVE  <<p, m>> \in E
  <2>1. <<p, m>> \in {p} \X Metas(Leaving(graph, Levels, p), size)
    OBVIOUS
  <2> QED
    BY <1>0, <1>2, <2>1
<1> HIDE DEF E
<1>3. ASSUME NEW p \in Previous(n) PROVE E # {} /\ IsFiniteSet(E)
  <2>1. PICK m \in Metas(Leaving(graph, Levels, p), size) : Key(n, m) = <<n, k>>
    BY MetaExtends
  <2>2. <<p, m>> \in E
    BY <1>2, <2>1
  <2>3. IsFiniteSet(Expected(Key(n, m), size))
    BY ExpectedCounted
  <2> QED
    BY <2>1, <2>2, <2>3 DEF E
<1>4. Previous(n) = {} => E = {}
  BY <1>1
<1>5. IsFiniteSet(E)
  BY <1>3, <1>4, FS_EmptySet
<1>6. n = graph.entry <=> Previous(n) = {}
  BY GraphFacts
<1>7. Missing(<<n, k>>, size) \subseteq E
  BY DEF Missing, E
<1>8. IsFiniteSet(Missing(<<n, k>>, size))
  BY <1>5, <1>7, FS_Subset
<1>9. \A p \in Previous(n) : p \in Nodes
  BY DEF Previous
<1> QED
  BY <1>1, <1>2, <1>3, <1>4, <1>5, <1>6, <1>7, <1>8, <1>9 DEF E

\* The session a result comes from.
LEMMA OriginFacts ==
  ASSUME graph \in Graphs, NEW size \in Nat, NEW p \in Nodes, NEW m \in Metas(Leaving(graph, Levels, p), size)
  PROVE  /\ Origin(<<p, m>>) = <<p, IF graph.demultiply[p] = NoDemultiplexer THEN m ELSE Front(m)>>
         /\ Origin(<<p, m>>)[2] \in Metas(Levels[p], size)
         /\ graph.demultiply[p] # NoDemultiplexer => m # <<>>
<1> DEFINE D == Demultiplexers(graph)
           out == Leaving(graph, Levels, p)
<1>0. Levels[p] \in Seq(D) /\ out \in Seq(D)
  BY LevelsOK
<1>1. Origin(<<p, m>>) = <<p, IF graph.demultiply[p] = NoDemultiplexer THEN m ELSE Front(m)>>
  BY DEF Origin
<1>2. CASE graph.demultiply[p] = NoDemultiplexer
  BY <1>1, <1>2 DEF Leaving
<1>3. CASE graph.demultiply[p] # NoDemultiplexer
  <2> DEFINE c == Len(Levels[p])
             names == Levels[p]
  <2>1. out = Append(names, p) /\ p \in D
    BY <1>3 DEF Leaving, Demultiplexers, Nodes
  <2> HIDE DEF out, D
  <2>2. c \in Nat /\ Len(out) = c + 1 /\ SubSeq(out, 1, c) = names /\ c \in 0 .. Len(out)
    BY <1>0, <2>1
  <2>3. SubSeq(m, 1, c) \in Metas(names, size) /\ Len(m) = c + 1
    <3>1. m \in Metas(out, size)
      BY DEF out
    <3>2. SubSeq(m, 1, c) \in Metas(SubSeq(out, 1, c), size)
      BY <1>0, <2>2, <3>1, MetaPrefix
    <3>3. Len(m) = Len(out)
      BY <1>0, <3>1, MetaIsSequence
    <3> QED
      BY <2>2, <3>2, <3>3
  <2>4. Front(m) = SubSeq(m, 1, c) /\ m # <<>>
    <3>1. Len(m) - 1 = c /\ Len(m) # 0
      BY <2>2, <2>3
    <3> QED
      BY <3>1 DEF Front
  <2>5. Origin(<<p, m>>) = <<p, Front(m)>>
    BY <1>1, <1>3
  <2>6. Origin(<<p, m>>)[2] = Front(m)
    BY <2>5
  <2> QED
    BY <1>1, <2>3, <2>4, <2>6
<1> QED
  BY <1>2, <1>3

\* The results of a session.
ResultsOf(c, size) == {m \in Metas(Leaving(graph, Levels, c[1]), size) : Origin(<<c[1], m>>) = c}

LEMMA ResultsFacts ==
  ASSUME graph \in Graphs, NEW size \in Nat, NEW n \in Nodes, NEW k \in Metas(Levels[n], size)
  PROVE  /\ graph.demultiply[n] = NoDemultiplexer => ResultsOf(<<n, k>>, size) = {k}
         /\ graph.demultiply[n] # NoDemultiplexer =>
              ResultsOf(<<n, k>>, size) = GenerateSubsessions(k, n, Shards(n, size))
         /\ size # 0 => ResultsOf(<<n, k>>, size) # {}
<1> DEFINE D == Demultiplexers(graph)
           out == Leaving(graph, Levels, n)
           R == ResultsOf(<<n, k>>, size)
           names == Levels[n]
<1>0. Levels[n] \in Seq(D) /\ out \in Seq(D)
  BY LevelsOK
<1>1. R = {m \in Metas(out, size) : Origin(<<n, m>>) = <<n, k>>}
  BY DEF ResultsOf
<1>2. CASE graph.demultiply[n] = NoDemultiplexer
  <2>1. out = Levels[n] /\ \A m \in Metas(out, size) : Origin(<<n, m>>) = <<n, m>>
    BY <1>2, OriginFacts DEF Leaving
  <2> HIDE DEF out, R
  <2>2. R = {k}
    BY <1>1, <2>1
  <2> QED
    BY <1>2, <2>2 DEF R
<1>3. CASE graph.demultiply[n] # NoDemultiplexer
  <2> DEFINE w == Shards(n, size)
             c == Len(names)
  <2>1. out = Append(names, n) /\ n \in D
    BY <1>3 DEF Leaving, Demultiplexers, Nodes
  <2>2. w \in Nat /\ (size # 0 => w > 0)
    BY <2>1, ShardsOK
  <2>3. \A m \in Metas(out, size) : Origin(<<n, m>>) = <<n, Front(m)>>
    BY <1>3, OriginFacts
  <2> HIDE DEF out, R, D, names
  <2>4. ASSUME NEW id \in 0 .. w - 1 PROVE Append(k, Level(n, id, w)) \in R
    <3> DEFINE l == Level(n, id, w)
               a == Append(k, l)
    <3>1. l \in LevelsOf(n, size)
      BY DEF LevelsOf
    <3>2. k \in Metas(names, size) /\ names \in Seq(D)
      BY <1>0 DEF names
    <3> HIDE DEF l
    <3>3. a \in Metas(out, size) /\ SubSeq(a, 1, c) = k
      BY <2>1, <3>1, <3>2, MetaAppend
    <3>4. Len(a) = c + 1 /\ c \in Nat
      <4>1. Len(a) = Len(out) /\ Len(out) \in Nat
        BY <1>0, <3>3, MetaIsSequence
      <4> HIDE DEF a
      <4> QED
        BY <2>1, <3>2, <4>1
    <3> HIDE DEF a
    <3>5. Front(a) = k
      <4>1. Len(a) - 1 = c
        BY <3>4
      <4> QED
        BY <3>3, <4>1 DEF Front
    <3> QED
      BY <1>1, <2>3, <3>3, <3>5 DEF a, l
  <2>5. ASSUME NEW m \in R PROVE \E id \in 0 .. w - 1 : m = Append(k, Level(n, id, w))
    <3> DEFINE U == UNION {LevelsOf(d, size) : d \in Range(out)}
    <3>0. names \in Seq(D)
      BY <1>0 DEF names
    <3>1. m \in Metas(out, size) /\ Front(m) = k
      BY <1>1, <2>3
    <3>2. m \in Seq(U) /\ Len(m) = Len(out) /\ DOMAIN out = 1 .. Len(out) /\ Len(out) \in Nat
      BY <1>0, <3>1, MetaIsSequence
    <3>3. c \in Nat /\ Len(out) = c + 1 /\ out[c + 1] = n
      BY <2>1, <3>0
    <3>4. c + 1 \in DOMAIN out
      BY <3>2, <3>3
    <3>5. m[c + 1] \in LevelsOf(n, size)
      <4>1. m[c + 1] \in LevelsOf(out[c + 1], size)
        BY <3>1, <3>4, MetaForm
      <4> QED
        BY <3>3, <4>1
    <3>6. PICK id \in 0 .. w - 1 : m[c + 1] = Level(n, id, w)
      BY <3>5 DEF LevelsOf
    <3> HIDE DEF U, c
    <3>7. m = Append(SubSeq(m, 1, c), m[c + 1])
      BY <3>2, <3>3
    <3>8. SubSeq(m, 1, c) = k
      <4>1. Len(m) - 1 = c
        BY <3>2, <3>3
      <4> QED
        BY <3>1, <4>1 DEF Front
    <3> QED
      BY <3>6, <3>7, <3>8
  <2>6. R = GenerateSubsessions(k, n, w)
    <3> HIDE DEF w
    <3> QED
      BY <2>4, <2>5 DEF GenerateSubsessions
  <2>7. size # 0 => R # {}
    <3>1. ASSUME size # 0 PROVE 0 \in 0 .. w - 1
      <4> HIDE DEF w
      <4> QED
        BY <2>2, <3>1
    <3> QED
      BY <2>4, <3>1
  <2> QED
    BY <1>3, <2>6, <2>7 DEF R
<1> QED
  BY <1>2, <1>3

(***************************************************************************)
(* What depends on the graph only.                                         *)
(***************************************************************************)
LEMMA SameGraph ==
  ASSUME graph' = graph
  PROVE  /\ Levels' = Levels /\ Nodes' = Nodes /\ EntrySession' = EntrySession
         /\ \A n : Previous(n)' = Previous(n)
         /\ \A d, size : Shards(d, size)' = Shards(d, size) /\ LevelsOf(d, size)' = LevelsOf(d, size)
         /\ \A names, size : Metas(names, size)' = Metas(names, size)
         /\ \A n, m : Key(n, m)' = Key(n, m)
         /\ \A n, r : InputOf(n, r)' = InputOf(n, r)
         /\ \A r : Origin(r)' = Origin(r)
         /\ \A s, size : Expected(s, size)' = Expected(s, size)
         /\ \A s, size : ResultsOf(s, size)' = ResultsOf(s, size)
<1>1. Levels' = Levels
  BY DEF Levels
<1>2. Nodes' = Nodes /\ EntrySession' = EntrySession
  BY DEF Nodes, EntrySession
<1>3. \A n : Previous(n)' = Previous(n)
  BY <1>2 DEF Previous
<1>4. \A d, size : Shards(d, size)' = Shards(d, size)
  BY DEF Shards
<1>5. \A d, size : LevelsOf(d, size)' = LevelsOf(d, size)
  BY <1>4 DEF LevelsOf
<1>6. \A names, size : Metas(names, size)' = Metas(names, size)
  <2> SUFFICES ASSUME NEW names, NEW size PROVE Metas(names, size)' = Metas(names, size)
    OBVIOUS
  <2>1. UNION {LevelsOf(d, size)' : d \in Range(names)} = UNION {LevelsOf(d, size) : d \in Range(names)}
    BY <1>5
  <2>2. \A i : LevelsOf(names[i], size)' = LevelsOf(names[i], size)
    BY <1>5
  <2> QED
    BY <2>1, <2>2 DEF Metas
<1>7. \A n, m : Key(n, m)' = Key(n, m)
  BY DEF Key
<1>8. \A n, r : InputOf(n, r)' = InputOf(n, r)
  BY DEF InputOf
<1>9. \A r : Origin(r)' = Origin(r)
  BY DEF Origin
<1>10. \A s, size : Expected(s, size)' = Expected(s, size)
  <2> SUFFICES ASSUME NEW s, NEW size PROVE Expected(s, size)' = Expected(s, size)
    OBVIOUS
  <2>1. \A p : Metas(Leaving(graph, Levels, p), size)' = Metas(Leaving(graph, Levels, p), size)
    BY <1>1, <1>6
  <2>2. Previous(s[1])' = Previous(s[1])
    BY <1>3
  <2>3. \A r : Key(s[1], r[2])' = Key(s[1], r[2])
    BY <1>7
  <2>4. UNION {({p} \X Metas(Leaving(graph, Levels, p), size))' : p \in Previous(s[1])'} =
        UNION {{p} \X Metas(Leaving(graph, Levels, p), size) : p \in Previous(s[1])}
    BY <2>1, <2>2
  <2> QED
    BY <2>3, <2>4 DEF Expected
<1>11. \A s, size : ResultsOf(s, size)' = ResultsOf(s, size)
  BY <1>1, <1>6, <1>9 DEF ResultsOf
<1> QED
  BY <1>1, <1>2, <1>3, <1>4, <1>5, <1>6, <1>7, <1>8, <1>9, <1>10, <1>11

LEMMA SameMissing ==
  ASSUME graph' = graph, Delivered' = Delivered
  PROVE  \A s, size : Missing(s, size)' = Missing(s, size)
BY SameGraph DEF Missing

LEMMA Frame ==
  ASSUME graph' = graph, started' = started, Delivered' = Delivered,
         DOMAIN sessions' \subseteq DOMAIN sessions, DOMAIN sessions \subseteq DOMAIN sessions' \cup started,
         \A s \in DOMAIN sessions' : /\ sessions'[s].remaining = sessions[s].remaining
                                     /\ sessions'[s].inputs = sessions[s].inputs
                                     /\ sessions'[s].used = sessions[s].used \/ s \in started,
         \/ pc' = pc /\ todo' = todo /\ batch' = batch
         \/ pc # "entry" /\ pc' # "entry" /\ (pc = "start" => todo = {} /\ batch = {})
  PROVE  /\ \A size : InputsCounted(size) => InputsCounted(size)'
         /\ \A size : ResultsArrive(size) => ResultsArrive(size)'
         /\ DynamicSize => DynamicSize'
<1> SUFFICES ASSUME NEW size
             PROVE  /\ InputsCounted(size) => InputsCounted(size)'
                    /\ ResultsArrive(size) => ResultsArrive(size)'
                    /\ DynamicSize => DynamicSize'
  OBVIOUS
<1>1. \A s : Missing(s, size)' = Missing(s, size) /\ Expected(s, size)' = Expected(s, size)
  BY SameGraph, SameMissing
<1>2. DOMAIN sessions' \cup started' = DOMAIN sessions \cup started
  OBVIOUS
<1>3. Levels' = Levels /\ Nodes' = Nodes /\ \A names : Metas(names, size)' = Metas(names, size)
  BY SameGraph
<1>4. \A n, r : InputOf(n, r)' = InputOf(n, r)
  BY SameGraph
<1>5. ASSUME InputsCounted(size) PROVE InputsCounted(size)'
  <2>1. ASSUME NEW s \in DOMAIN sessions'
        PROVE  /\ sessions'[s].remaining = Cardinality(Missing(s, size))
               /\ sessions'[s].inputs = {InputOf(s[1], r) : r \in Expected(s, size) \ Missing(s, size)}
               /\ s \notin started => Missing(s, size) # Expected(s, size) /\ ~ sessions'[s].used
    BY <1>5 DEF InputsCounted
  <2>2. ASSUME NEW s \in DOMAIN sessions \cup started
        PROVE  s[1] \in Nodes /\ s = <<s[1], s[2]>> /\ s[2] \in Metas(Levels[s[1]], size)
    BY <1>5 DEF InputsCounted
  <2>3. \A s \in started : Missing(s, size) = {}
    BY <1>5 DEF InputsCounted
  <2>4. \A s : {InputOf(s[1], r)' : r \in Expected(s, size)' \ Missing(s, size)'} =
               {InputOf(s[1], r) : r \in Expected(s, size) \ Missing(s, size)}
    BY <1>1, <1>4
  <2>5. \A s \in DOMAIN sessions' \cup started' :
          s[1] \in Nodes' /\ s = <<s[1], s[2]>> /\ s[2] \in Metas(Levels[s[1]], size)'
    BY <1>2, <1>3, <2>2
  <2>6. \A s \in DOMAIN sessions' :
          /\ sessions'[s].remaining = Cardinality(Missing(s, size)')
          /\ sessions'[s].inputs = {InputOf(s[1], r)' : r \in Expected(s, size)' \ Missing(s, size)'}
    BY <1>1, <2>1, <2>4
  <2>7. \A s \in DOMAIN sessions' \ started' : Missing(s, size)' # Expected(s, size)' /\ ~ sessions'[s].used
    BY <1>1, <2>1
  <2>8. \A s \in started' : Missing(s, size)' = {}
    BY <1>1, <2>3
  <2> QED
    BY <2>5, <2>6, <2>7, <2>8 DEF InputsCounted
<1>6. ASSUME ResultsArrive(size) PROVE ResultsArrive(size)'
  <2>1. \A n \in Nodes : \A k \in Metas(Levels[n], size) :
          Missing(<<n, k>>, size) # Expected(<<n, k>>, size) => <<n, k>> \in DOMAIN sessions \cup started
    BY <1>6 DEF ResultsArrive
  <2>2. ASSUME NEW s \in DOMAIN sessions', sessions'[s].remaining = 0
        PROVE  s \in started \/ (pc' = "start" /\ (s[1] \in todo' \/ s \in batch'))
    BY <1>6, <2>2 DEF ResultsArrive
  <2>3. pc' # "entry" => EntrySession' \in started'
    BY <1>6, SameGraph DEF ResultsArrive
  <2> QED
    BY <1>1, <1>2, <1>3, <2>1, <2>2, <2>3 DEF ResultsArrive
<1>7. DynamicSize => DynamicSize'
  BY <1>2, <1>3 DEF DynamicSize
<1> QED
  BY <1>5, <1>6, <1>7

\* After an error only the sessions that look ready matter.
LEMMA ErrorFrame ==
  ASSUME CountingInv, error' = TRUE, graph' = graph, pc' \notin {"fetch", "propagate", "start"},
         batch' = {}, todo' = todo, response' = response
  PROVE  CountingInv'
<1>1. Nodes' = Nodes
  BY SameGraph
<1>2. StartedNotReady'
  BY <1>1 DEF CountingInv, StartedNotReady
<1>3. ResponseCounted'
  BY DEF CountingInv, ResponseCounted
<1> QED
  BY <1>2, <1>3 DEF CountingInv

\* Before the results of a dynamic demultiplexer are handed on, nothing depends on how
\* many there will be.
LEMMA SizeIsOpen ==
  ASSUME graph \in Graphs, DynamicSize, NEW d \in Nodes, graph.demultiply[d] = 0, <<d, <<>>>> \notin Delivered,
         Delivered \subseteq started, NEW size \in Nat \ {0}, NEW other_size \in Nat \ {0},
         InputsCounted(size), ResultsArrive(size)
  PROVE  InputsCounted(other_size) /\ ResultsArrive(other_size)
<1> DEFINE D == Demultiplexers(graph)
           Sizes == {size, other_size}
<1>1. \A s \in DOMAIN sessions \cup started : s[2] = <<>> /\ s[1] \in Nodes /\ s = <<s[1], <<>>>>
  BY DEF DynamicSize, InputsCounted
<1>2. \A p \in Nodes : Levels[p] \in Seq(D) /\ Leaving(graph, Levels, p) \in Seq(D)
  BY LevelsOK
<1>3. \A z : Metas(<<>>, z) = {<<>>}
  <2>1. \A z : \A names \in Seq({}) : Metas(<<>>, z) = {<<>>}
    BY NoLevels
  <2>2. <<>> \in Seq({})
    OBVIOUS
  <2> QED
    BY <2>1, <2>2
<1>4. \A p \in Nodes : graph.demultiply[p] # NoDemultiplexer => p = d
  BY GraphFacts DEF Demultiplexers, Nodes, NoDemultiplexer
<1>5. ASSUME NEW z \in Sizes, NEW n \in Nodes, NEW k \in Metas(Levels[n], z), NEW r \in Expected(<<n, k>>, z),
             Origin(r) \in Delivered
      PROVE  r[1] \in Previous(n) /\ Leaving(graph, Levels, r[1]) = <<>>
  <2>0. z \in Nat \ {0} /\ z \in Nat
    OBVIOUS
  <2>1. r = <<r[1], r[2]>> /\ r[1] \in Previous(n) /\ r[1] \in Nodes /\ r[2] \in Metas(Leaving(graph, Levels, r[1]), z)
    BY <2>0, ExpectedFacts
  <2>2. Origin(r)[2] = <<>>
    BY <1>1, <1>5
  <2>3. CASE graph.demultiply[r[1]] = NoDemultiplexer
    <3>1. r[2] = <<>>
      BY <2>2, <2>3 DEF Origin
    <3> QED
      BY <1>2, <2>1, <3>1, NoLevels
  <2>4. CASE graph.demultiply[r[1]] # NoDemultiplexer
    <3>1. Origin(r) = <<d, <<>>>>
      BY <1>1, <1>4, <1>5, <2>1, <2>4 DEF Origin
    <3> QED
      BY <1>5, <3>1
  <2> QED
    BY <2>1, <2>3, <2>4
<1>6. ASSUME NEW n \in Nodes, NEW p \in Previous(n), Leaving(graph, Levels, p) = <<>>, NEW k
      PROVE  /\ Expected(<<n, k>>, size) = Expected(<<n, k>>, other_size)
             /\ Missing(<<n, k>>, size) = Missing(<<n, k>>, other_size)
             /\ Levels[n] = <<>>
  <2>1. \A q \in Previous(n) : Leaving(graph, Levels, q) = <<>>
    BY <1>6, EdgeFacts
  <2>2. Expected(<<n, k>>, size) = {r \in UNION {{q} \X {<<>>} : q \in Previous(n)} : Key(n, r[2]) = <<n, k>>}
    BY <1>3, <2>1 DEF Expected
  <2>3. Expected(<<n, k>>, other_size) = {r \in UNION {{q} \X {<<>>} : q \in Previous(n)} : Key(n, r[2]) = <<n, k>>}
    BY <1>3, <2>1 DEF Expected
  <2>4. Levels[n] = <<>>
    <3> DEFINE c == Len(Leaving(graph, Levels, p)) - Cardinality(graph.gather[n])
    <3>1. Levels[n] = SubSeq(<<>>, 1, c) /\ c \in 0 .. 0
      <4>1. Levels[n] = SubSeq(Leaving(graph, Levels, p), 1, c) /\ c \in 0 .. Len(Leaving(graph, Levels, p))
        BY EdgeFacts
      <4>2. Len(Leaving(graph, Levels, p)) = 0
        BY <1>6
      <4> HIDE DEF c
      <4> QED
        BY <1>6, <4>1, <4>2
    <3> HIDE DEF c
    <3>2. c = 0
      BY <3>1
    <3> QED
      BY <3>1, <3>2
  <2> QED
    BY <2>2, <2>3, <2>4 DEF Missing
<1>7. ASSUME NEW z \in Sizes, NEW n \in Nodes, NEW k \in Metas(Levels[n], z),
             Missing(<<n, k>>, z) # Expected(<<n, k>>, z)
      PROVE  /\ Expected(<<n, k>>, size) = Expected(<<n, k>>, other_size)
             /\ Missing(<<n, k>>, size) = Missing(<<n, k>>, other_size)
             /\ Levels[n] = <<>>
  <2>1. PICK r \in Expected(<<n, k>>, z) : Origin(r) \in Delivered
    BY <1>7 DEF Missing
  <2>2. r[1] \in Previous(n) /\ Leaving(graph, Levels, r[1]) = <<>>
    BY <1>5, <2>1
  <2> QED
    BY <1>6, <2>2
<1>8. ASSUME NEW s \in DOMAIN sessions \cup started
      PROVE  Expected(s, size) = Expected(s, other_size) /\ Missing(s, size) = Missing(s, other_size)
             /\ s[2] \in Metas(Levels[s[1]], other_size)
  <2> DEFINE n == s[1]
  <2>1. n \in Nodes /\ s = <<n, <<>>>> /\ <<>> \in Metas(Levels[n], size)
    BY <1>1 DEF InputsCounted
  <2>2. Levels[n] = <<>>
    BY <1>2, <2>1, NoLevels
  <2>3. <<>> \in Metas(Levels[n], other_size)
    BY <1>3, <2>2
  <2>4. CASE n = graph.entry
    <3>1. Expected(<<n, <<>>>>, size) = {} /\ Expected(<<n, <<>>>>, other_size) = {}
      BY <2>1, <2>3, <2>4, ExpectedFacts
    <3>2. Missing(<<n, <<>>>>, size) = {} /\ Missing(<<n, <<>>>>, other_size) = {}
      BY <3>1 DEF Missing
    <3> QED
      BY <1>1, <2>1, <2>3, <3>1, <3>2
  <2>5. CASE n # graph.entry
    <3>1. Missing(s, size) # Expected(s, size)
      <4>1. CASE s \in started
        <5>1. Missing(s, size) = {}
          BY <4>1 DEF InputsCounted
        <5>2. Expected(<<n, <<>>>>, size) # {}
          BY <2>1, <2>5, ExpectedFacts
        <5> QED
          BY <2>1, <5>1, <5>2
      <4>2. CASE s \notin started
        BY <4>2 DEF InputsCounted
      <4> QED
        BY <4>1, <4>2
    <3>2. Missing(<<n, <<>>>>, size) # Expected(<<n, <<>>>>, size)
      BY <2>1, <3>1
    <3>3. /\ Expected(<<n, <<>>>>, size) = Expected(<<n, <<>>>>, other_size)
          /\ Missing(<<n, <<>>>>, size) = Missing(<<n, <<>>>>, other_size)
      BY <1>7, <2>1, <3>2
    <3> QED
      BY <1>1, <2>1, <2>3, <3>3
  <2> QED
    BY <2>4, <2>5
<1>9. InputsCounted(other_size)
  <2>1. \A s \in DOMAIN sessions \cup started :
          s[1] \in Nodes /\ s = <<s[1], s[2]>> /\ s[2] \in Metas(Levels[s[1]], other_size)
    BY <1>8 DEF InputsCounted
  <2>2. \A s \in DOMAIN sessions :
          /\ sessions[s].remaining = Cardinality(Missing(s, other_size))
          /\ sessions[s].inputs = {InputOf(s[1], r) : r \in Expected(s, other_size) \ Missing(s, other_size)}
    BY <1>8 DEF InputsCounted
  <2>3. \A s \in DOMAIN sessions \ started : Missing(s, other_size) # Expected(s, other_size) /\ ~ sessions[s].used
    BY <1>8 DEF InputsCounted
  <2>4. \A s \in started : Missing(s, other_size) = {}
    BY <1>8 DEF InputsCounted
  <2> QED
    BY <2>1, <2>2, <2>3, <2>4 DEF InputsCounted
<1>10. ASSUME NEW n \in Nodes, NEW k \in Metas(Levels[n], other_size),
              Missing(<<n, k>>, other_size) # Expected(<<n, k>>, other_size)
       PROVE  <<n, k>> \in DOMAIN sessions \cup started
  <2>1. /\ Expected(<<n, k>>, size) = Expected(<<n, k>>, other_size)
        /\ Missing(<<n, k>>, size) = Missing(<<n, k>>, other_size)
        /\ Levels[n] = <<>>
    BY <1>7, <1>10
  <2>2. k \in Metas(Levels[n], size)
    BY <1>3, <2>1
  <2> QED
    BY <1>10, <2>1, <2>2 DEF ResultsArrive
<1>11. ResultsArrive(other_size)
  BY <1>10 DEF ResultsArrive
<1> QED
  BY <1>9, <1>11

(***************************************************************************)
(* Steps that hand nothing on.                                             *)
(***************************************************************************)

\* The counters and inputs of sessions stay as they are; started ones may become used.
KeepsCounts(ss, tt) ==
  /\ DOMAIN tt = DOMAIN ss
  /\ \A s \in DOMAIN ss :
       /\ tt[s].remaining = ss[s].remaining /\ tt[s].inputs = ss[s].inputs
       /\ tt[s].used = ss[s].used \/ (s \in started /\ tt[s].used = TRUE)

LEMMA SameCounts ==
  ASSUME NEW ss
  PROVE  KeepsCounts(ss, ss)
BY DEF KeepsCounts

LEMMA StreamKeepsCounts ==
  ASSUME NEW ss, SessionsOK(ss), NEW s \in DOMAIN ss, NEW v
  PROVE  /\ KeepsCounts(ss, [ss EXCEPT ![s].stream = v])
         /\ KeepsCounts(ss, [ss EXCEPT ![s].infer = v])
<1>1. DOMAIN ss[s] = Fields
  BY DEF SessionsOK
<1>2. ASSUME NEW r, DOMAIN r = Fields, r.remaining = ss[s].remaining, r.inputs = ss[s].inputs, r.used = ss[s].used
      PROVE  KeepsCounts(ss, [ss EXCEPT ![s] = r])
  <2> DEFINE tt == [ss EXCEPT ![s] = r]
  <2>1. DOMAIN tt = DOMAIN ss /\ tt[s] = r /\ \A x \in DOMAIN ss : x # s => tt[x] = ss[x]
    OBVIOUS
  <2> HIDE DEF tt
  <2>2. KeepsCounts(ss, tt)
    BY <1>2, <2>1 DEF KeepsCounts
  <2> QED
    BY <2>2 DEF tt
<1>3. KeepsCounts(ss, [ss EXCEPT ![s].stream = v])
  <2> DEFINE r == [ss[s] EXCEPT !.stream = v]
  <2>1. DOMAIN r = Fields /\ r.remaining = ss[s].remaining /\ r.inputs = ss[s].inputs /\ r.used = ss[s].used
    BY <1>1 DEF Fields
  <2>2. [ss EXCEPT ![s].stream = v] = [ss EXCEPT ![s] = r]
    OBVIOUS
  <2> HIDE DEF r
  <2> QED
    BY <1>2, <2>1, <2>2
<1>4. KeepsCounts(ss, [ss EXCEPT ![s].infer = v])
  <2> DEFINE r == [ss[s] EXCEPT !.infer = v]
  <2>1. DOMAIN r = Fields /\ r.remaining = ss[s].remaining /\ r.inputs = ss[s].inputs /\ r.used = ss[s].used
    BY <1>1 DEF Fields
  <2>2. [ss EXCEPT ![s].infer = v] = [ss EXCEPT ![s] = r]
    OBVIOUS
  <2> HIDE DEF r
  <2> QED
    BY <1>2, <2>1, <2>2
<1> QED
  BY <1>3, <1>4

LEMMA ReturnKeepsCounts ==
  ASSUME NEW ss, SessionsOK(ss), ReturnStream(ss)
  PROVE  KeepsCounts(ss, sessions')
<1>1. CASE sessions' = ss
  BY <1>1, SameCounts
<1>2. CASE Head(waiting) \in DOMAIN ss /\ sessions' = [ss EXCEPT ![Head(waiting)].stream = "granted"]
  BY <1>2, StreamKeepsCounts
<1> QED
  BY <1>1, <1>2 DEF ReturnStream

LEMMA ReleaseKeepsCounts ==
  ASSUME NEW ss, SessionsOK(ss), NEW s, Release(s, ss)
  PROVE  KeepsCounts(ss, sessions')
<1>1. CASE sessions' = ss
  BY <1>1, SameCounts
<1>2. CASE ReturnStream(ss)
  BY <1>2, ReturnKeepsCounts
<1> QED
  BY <1>1, <1>2 DEF Release

\* The effect of Use on the counters and on the session itself.
LEMMA UseMarks ==
  ASSUME SessionsOK(sessions), NEW s \in DOMAIN sessions, NEW stream, NEW infer, Use(s, stream, infer)
  PROVE  /\ DOMAIN sessions' = DOMAIN sessions /\ sessions'[s].used = TRUE
         /\ sessions'[s].remaining = sessions[s].remaining /\ sessions'[s].inputs = sessions[s].inputs
         /\ \A x \in DOMAIN sessions : x # s => sessions'[x] = sessions[x]
<1> DEFINE u == [sessions[s] EXCEPT !.used = TRUE, !.stream = stream, !.infer = infer]
<1>1. DOMAIN sessions[s] = Fields
  BY DEF SessionsOK
<1>2. u.used = TRUE /\ u.remaining = sessions[s].remaining /\ u.inputs = sessions[s].inputs
  BY <1>1 DEF Fields
<1>3. sessions' = [sessions EXCEPT ![s] = u]
  BY DEF Use
<1> HIDE DEF u
<1>4. DOMAIN sessions' = DOMAIN sessions /\ sessions'[s] = u /\ \A x \in DOMAIN sessions : x # s => sessions'[x] = sessions[x]
  BY <1>3
<1> QED
  BY <1>2, <1>4

\* The sessions whose results were looked at.
Handled == finished \ (IF pc = "fetch" THEN {current} ELSE {})

LEMMA Neutral ==
  ASSUME CountingInv, error \in BOOLEAN, UNCHANGED <<graph, started, response, error, todo, batch>>, KeepsCounts(sessions, sessions'),
         ~ error => Delivered' = Delivered /\ Handled' = Handled,
         \/ UNCHANGED <<pc, current, results, finished>>
         \/ /\ pc # "entry" /\ pc' \notin {"entry", "propagate", "start"}
            /\ pc = "start" => todo = {} /\ batch = {},
         pc' = "fetch" => ~ error, pc' = "disarm" => error, batch \subseteq DOMAIN sessions
  PROVE  CountingInv'
<1>1. Nodes' = Nodes /\ Levels' = Levels
  BY SameGraph
<1>2. DOMAIN sessions' = DOMAIN sessions
  BY DEF KeepsCounts
<1>3. StartedNotReady'
  <2>1. StartedNotReady
    BY DEF CountingInv
  <2>2. \A s \in started \cap DOMAIN sessions' : sessions[s].used => sessions'[s].used
    BY <1>2 DEF KeepsCounts
  <2>3. \A s \in batch : sessions'[s].remaining = sessions[s].remaining
    BY DEF KeepsCounts
  <2>4. ~ error' => \A s \in started' \cap DOMAIN sessions' :
                   sessions'[s].used \/ s[1] \in {graph'.entry, graph'.exit}
    BY <1>2, <2>1, <2>2 DEF StartedNotReady
  <2>5. \A s \in started' \cap DOMAIN sessions' : pc' = "start" => sessions'[s].used \/ s[1] \notin todo'
    BY <1>2, <2>1, <2>2 DEF StartedNotReady
  <2>6. \A s \in batch' : s \notin started' /\ s[1] \notin todo' /\ sessions'[s].remaining = 0
    BY <2>1, <2>3 DEF StartedNotReady
  <2>7. todo' \subseteq Nodes'
    BY <1>1, <2>1 DEF StartedNotReady
  <2> QED
    BY <2>4, <2>5, <2>6, <2>7 DEF StartedNotReady
<1>4. ResponseCounted'
  <2>1. ResponseCounted
    BY DEF CountingInv
  <2> QED
    BY <2>1 DEF ResponseCounted, Handled
<1>5. ASSUME ~ error
      PROVE  /\ DynamicSize'
             /\ \E size \in 1 .. MaxDimension + 1 : (InputsCounted(size) /\ ResultsArrive(size) /\ ResultsAtHand(size))'
  <2>1. PICK size \in 1 .. MaxDimension + 1 : InputsCounted(size) /\ ResultsArrive(size) /\ ResultsAtHand(size)
    BY <1>5 DEF CountingInv
  <2>2. InputsCounted(size)' /\ ResultsArrive(size)' /\ DynamicSize'
    <3>1. DynamicSize
      BY <1>5 DEF CountingInv
    <3>2. \A s \in DOMAIN sessions' :
            /\ sessions'[s].remaining = sessions[s].remaining
            /\ sessions'[s].inputs = sessions[s].inputs
            /\ sessions'[s].used = sessions[s].used \/ s \in started
      BY <1>2 DEF KeepsCounts
    <3> QED
      <4>1. graph' = graph /\ started' = started /\ Delivered' = Delivered
        BY <1>5
      <4>2. DOMAIN sessions' \subseteq DOMAIN sessions /\ DOMAIN sessions \subseteq DOMAIN sessions' \cup started
        BY <1>2
      <4>3. \/ pc' = pc /\ todo' = todo /\ batch' = batch
            \/ pc # "entry" /\ pc' # "entry" /\ (pc = "start" => todo = {} /\ batch = {})
        OBVIOUS
      <4>4. /\ \A z : InputsCounted(z) => InputsCounted(z)'
            /\ \A z : ResultsArrive(z) => ResultsArrive(z)'
            /\ DynamicSize => DynamicSize'
        BY <3>2, <4>1, <4>2, <4>3, Frame
      <4> QED
        BY <2>1, <3>1, <4>4
  <2>3. ResultsAtHand(size)'
    <3>1. CASE UNCHANGED <<pc, current, results, finished>>
      <4>1. \A m : Origin(<<current[1], m>>)' = Origin(<<current[1], m>>)
        BY <3>1, SameGraph
      <4>2. Metas(Leaving(graph, Levels, current[1]), size)' = Metas(Leaving(graph, Levels, current[1]), size)
        BY <1>1, <3>1, SameGraph
      <4>3. Kind(current)' = Kind(current)
        BY <3>1 DEF Kind
      <4> QED
        BY <2>1, <3>1, <4>1, <4>2, <4>3 DEF ResultsAtHand
    <3>2. CASE pc' # "propagate"
      BY <3>2 DEF ResultsAtHand
    <3> QED
      BY <3>1, <3>2
  <2> QED
    BY <2>2, <2>3
<1>6. graph' \in Graphs /\ (pc' \in {"fetch", "propagate"} => ~ error') /\ (pc' = "disarm" => error')
  BY DEF CountingInv
<1> QED
  BY <1>3, <1>4, <1>5, <1>6 DEF CountingInv

LEMMA LoopFacts ==
  ASSUME IInv
  PROVE  /\ error \in BOOLEAN /\ batch \subseteq DOMAIN sessions /\ (pc # "start" => batch = {}) /\ SessionsOK(sessions)
         /\ finished \subseteq started /\ events \in Seq(started)
BY Facts DEF IInv, TypeOK

\* Steps of other threads.
LEMMA LoopWaits ==
  ASSUME IInv, CountingInv, graph' = graph, UNCHANGED loopVars, KeepsCounts(sessions, sessions')
  PROVE  CountingInv'
<1>1. UNCHANGED <<started, finished, error, pc, current, results, todo, batch, response>>
  BY DEF loopVars
<1>2. Delivered' = Delivered /\ Handled' = Handled
  BY <1>1 DEF Delivered, Handled
<1>3. (pc = "fetch" => ~ error) /\ (pc = "disarm" => error)
  BY DEF CountingInv
<1> QED
  BY <1>1, <1>2, <1>3, LoopFacts, Neutral

LEMMA CallbacksCount ==
  ASSUME IInv, CountingInv, NEW s \in DOMAIN sessions, CallbackPushes(s) \/ CallbackReturns(s)
  PROVE  CountingInv'
<1>1. SessionsOK(sessions)
  BY LoopFacts
<1>2. KeepsCounts(sessions, sessions')
  <2>1. KeepsCounts(sessions, [sessions EXCEPT ![s].infer = "callback"])
    BY <1>1, StreamKeepsCounts
  <2>2. KeepsCounts(sessions, [sessions EXCEPT ![s].infer = "done"])
    BY <1>1, StreamKeepsCounts
  <2> QED
    BY <2>1, <2>2 DEF CallbackPushes, CallbackReturns
<1> QED
  BY <1>2, LoopWaits DEF CallbackPushes, CallbackReturns

LEMMA OtherUsersCount ==
  ASSUME IInv, CountingInv, NEW o \in Others, OtherAsks(o) \/ OtherReturns(o)
  PROVE  CountingInv'
<1>1. SessionsOK(sessions)
  BY LoopFacts
<1>2. KeepsCounts(sessions, sessions')
  BY <1>1, ReturnKeepsCounts, SameCounts DEF OtherAsks, OtherReturns
<1> QED
  BY <1>2, LoopWaits DEF OtherAsks, OtherReturns

LEMMA StutterCounts ==
  ASSUME IInv, CountingInv, UNCHANGED vars
  PROVE  CountingInv'
<1>1. KeepsCounts(sessions, sessions')
  BY SameCounts DEF vars
<1> QED
  BY <1>1, LoopWaits DEF vars

\* Steps of the loop.
LEMMA PullFinishedCounts ==
  ASSUME IInv, CountingInv, PullFinished
  PROVE  CountingInv'
<1> DEFINE h == Head(events)
<1>0. /\ pc = "loop" /\ ~ error /\ pc' = "fetch" /\ current' = h /\ finished' = finished \cup {h}
      /\ UNCHANGED <<graph, sessions, started, error, todo, batch, response>>
  BY DEF PullFinished
<1>1. h \notin finished
  <2>1. events \in Seq(started) /\ events # <<>>
    BY DEF IInv, TypeOK, PullFinished
  <2>2. h \in Range(events)
    BY <2>1, HeadTaken
  <2> QED
    BY <2>2 DEF IInv, ReportedOnce
<1> HIDE DEF h
<1>2. Delivered' = Delivered /\ Handled' = Handled
  BY <1>0, <1>1 DEF Delivered, Handled
<1>3. KeepsCounts(sessions, sessions')
  BY <1>0, SameCounts
<1> QED
  BY <1>0, <1>2, <1>3, LoopFacts, Neutral

LEMMA LoopMovesCounts ==
  ASSUME IInv, CountingInv, UNCHANGED <<graph, sessions, started, finished, error, todo, batch, response>>,
         pc \in {"loop", "start", "retry", "disarm"}, pc = "start" => todo = {} /\ batch = {},
         pc' \in {"loop", "retry", "disarm", "returned"}, pc' = "disarm" => error
  PROVE  CountingInv'
<1>1. Delivered' = Delivered /\ Handled' = Handled
  BY DEF Delivered, Handled
<1>2. KeepsCounts(sessions, sessions')
  BY SameCounts
<1> QED
  BY <1>1, <1>2, LoopFacts, Neutral

LEMMA StartsDoneCounts ==
  ASSUME IInv, CountingInv, StartsDone
  PROVE  CountingInv'
<1>1. pc' \in {"loop", "returned"}
  BY DEF StartsDone, BreakIfAllFinished
<1> QED
  BY <1>1, LoopMovesCounts DEF StartsDone

LEMMA TimeoutCounts ==
  ASSUME IInv, CountingInv, Timeout
  PROVE  CountingInv'
<1>1. pc' \in {"retry", "disarm"} /\ (pc' = "disarm" => error)
  BY DEF Timeout
<1> QED
  BY <1>1, LoopMovesCounts DEF Timeout

LEMMA RetriesDoneCounts ==
  ASSUME IInv, CountingInv, RetriesDone
  PROVE  CountingInv'
BY LoopMovesCounts DEF RetriesDone

LEMMA DisarmTimeoutCounts ==
  ASSUME IInv, CountingInv, DisarmTimeout
  PROVE  CountingInv'
<1>1. pc = "disarm" /\ pc' = pc /\ error
  BY DEF DisarmTimeout, AtDeferred, CountingInv
<1> QED
  BY <1>1, LoopMovesCounts DEF DisarmTimeout

LEMMA DisarmsDoneCounts ==
  ASSUME IInv, CountingInv, DisarmsDone
  PROVE  CountingInv'
<1>1. pc' \in {"loop", "returned"}
  BY DEF DisarmsDone, BreakIfAllFinished
<1> QED
  BY <1>1, LoopMovesCounts DEF DisarmsDone

\* After an error.
LEMMA PullAfterErrorCounts ==
  ASSUME IInv, CountingInv, PullAfterError
  PROVE  CountingInv'
<1>1. pc' \in {"loop", "returned"}
  BY DEF PullAfterError, BreakIfAllFinished
<1>2. error' = TRUE /\ batch' = {} /\ graph' = graph /\ todo' = todo /\ response' = response
  BY LoopFacts DEF PullAfterError
<1> QED
  BY <1>1, <1>2, ErrorFrame

LEMMA DisarmCounts ==
  ASSUME IInv, CountingInv, Disarm
  PROVE  CountingInv'
<1>1. pc = "disarm" /\ pc' = "disarm" /\ error
  BY DEF Disarm, AtDeferred, CountingInv
<1>2. error' = TRUE /\ batch' = {} /\ graph' = graph /\ todo' = todo /\ response' = response
  BY <1>1, LoopFacts DEF Disarm
<1> QED
  BY <1>1, <1>2, ErrorFrame

LEMMA FetchResultsFailsCounts ==
  ASSUME IInv, CountingInv, FetchResultsFails
  PROVE  CountingInv'
<1>1. pc' \in {"loop", "returned"}
  BY DEF FetchResultsFails, BreakIfAllFinished
<1>2. error' = TRUE /\ batch' = {} /\ graph' = graph /\ todo' = todo /\ response' = response
  BY LoopFacts DEF FetchResultsFails
<1> QED
  BY <1>1, <1>2, ErrorFrame

LEMMA RetryCounts ==
  ASSUME IInv, CountingInv, Retry
  PROVE  CountingInv'
<1> DEFINE s == deferred[position]
<1>0. /\ pc = "retry" /\ pc' = "retry" /\ batch = {} /\ batch' = {}
      /\ UNCHANGED <<graph, started, finished, current, results, todo, batch, response>>
  BY LoopFacts DEF Retry, AtDeferred
<1>1. s \in DOMAIN sessions /\ s \in started /\ SessionsOK(sessions)
  BY AtPosition, LoopFacts DEF Retry
<1>2. CASE error' = error /\ sessions' = sessions
  BY <1>0, <1>2, LoopMovesCounts
<1>3. CASE error' = error /\ ExecuteInference(s)
  <2>1. Use(s, "taken", "running")
    BY <1>3 DEF ExecuteInference
  <2> HIDE DEF s
  <2>2. KeepsCounts(sessions, sessions')
    BY <1>1, <2>1, UseMarks DEF KeepsCounts
  <2>3. Delivered' = Delivered /\ Handled' = Handled
    BY <1>0 DEF Delivered, Handled
  <2> QED
    BY <1>0, <1>3, <2>2, <2>3, LoopFacts, Neutral
<1>4. CASE error' = TRUE
  BY <1>0, <1>4, ErrorFrame
<1> QED
  BY <1>2, <1>3, <1>4 DEF Retry, DefersAgain

\* The entry has nothing to wait for.
LEMMA EntryNeedsNothing ==
  ASSUME graph \in Graphs
  PROVE  NewSession(graph.entry, <<>>).remaining = 0
<1> DEFINE e == <<>>
           g == graph.gather[graph.entry]
<1>1. g = {} /\ Previous(graph.entry) = {}
  BY GraphFacts
<1>2. Cardinality({}) = 0
  BY FS_EmptySet
<1>3. Collapsed(e, g) = <<>>
  BY <1>1, <1>2 DEF Collapsed
<1>4. DOMAIN Collapsed(e, g) = 1 .. 0
  BY <1>3
<1> HIDE DEF e, g
<1>5. CollapsedSize(e, g) = 1
  <2>1. \E f : f[0] = 1 /\ f[0] = CollapsedSize(e, g)
    BY <1>4, CollapsedSizeIsProduct
  <2> QED
    BY <2>1
<1>6. NewSession(graph.entry, e).remaining = Cardinality(Previous(graph.entry)) * CollapsedSize(e, g)
  BY DEF NewSession, g
<1>7. NewSession(graph.entry, e).remaining = 0
  BY <1>1, <1>2, <1>5, <1>6
<1> QED
  BY <1>7 DEF e

LEMMA ExecuteEntryCounts ==
  ASSUME IInv, CountingInv, ExecuteEntry
  PROVE  CountingInv'
<1> DEFINE e == EntrySession
<1>0. /\ pc = "entry" /\ pc' = "loop" /\ DOMAIN sessions' = {e} /\ sessions'[e] = NewSession(graph.entry, <<>>)
      /\ started' = {e} /\ UNCHANGED <<graph, finished, error, todo, batch, response>>
  BY DEF ExecuteEntry
<1>1. graph \in Graphs /\ e = <<graph.entry, <<>>>> /\ e[1] = graph.entry /\ e[2] = <<>> /\ graph.entry \in Nodes
  BY GraphFacts DEF CountingInv, EntrySession
<1>2. sessions'[e].remaining = 0 /\ sessions'[e].inputs = {} /\ ~ sessions'[e].used
  BY <1>0, <1>1, EntryNeedsNothing DEF NewSession
<1>3. finished = {} /\ batch = {} /\ Delivered' = {}
  <2>1. finished = {} /\ batch = {}
    BY <1>0, LoopFacts DEF IInv, TypeOK
  <2> QED
    BY <1>0, <2>1 DEF Delivered
<1>4. \A s, size : Missing(s, size)' = Expected(s, size)'
  BY <1>3 DEF Missing
<1>6. \A size : <<>> \in Metas(Levels[graph.entry], size)'
  <2>1. Levels[graph.entry] = <<>>
    BY <1>1, LevelsOK DEF LevelsFit
  <2>2. <<>> \in Seq({})
    OBVIOUS
  <2>3. \A size : Metas(<<>>, size) = {<<>>}
    BY <2>2, NoLevels
  <2> QED
    BY <1>0, <2>1, <2>3, SameGraph
<1>7. Nodes' = Nodes /\ EntrySession' = e
  BY <1>0, SameGraph
<1> HIDE DEF e
<1>8. StartedNotReady'
  <2>1. todo' \subseteq Nodes'
    BY <1>0, <1>7 DEF CountingInv, StartedNotReady
  <2> QED
    BY <1>0, <1>1, <1>3, <2>1 DEF StartedNotReady
<1>9. ResponseCounted'
  BY <1>0, <1>3 DEF CountingInv, ResponseCounted
<1>10. DynamicSize'
  BY <1>0, <1>1 DEF DynamicSize
<1>11. ASSUME NEW size PROVE InputsCounted(size)'
  <2>1. \A s \in DOMAIN sessions' \cup started' :
          s[1] \in Nodes' /\ s = <<s[1], s[2]>> /\ s[2] \in Metas(Levels[s[1]], size)'
    BY <1>0, <1>1, <1>6, <1>7
  <2>2. ASSUME NEW s \in {e} PROVE Missing(s, size)' = {} /\ Expected(s, size)' = {}
    <3>1. Expected(s, size) = {}
      BY <1>1, GraphFacts DEF Expected
    <3>2. Expected(s, size)' = Expected(s, size)
      BY <1>0, SameGraph
    <3> QED
      BY <1>4, <3>1, <3>2
  <2>3. ASSUME NEW s \in {e} PROVE {InputOf(s[1], r)' : r \in Expected(s, size)' \ Missing(s, size)'} = {}
    BY <2>2
  <2>4. Cardinality({}) = 0
    BY FS_EmptySet
  <2>6. \A s \in DOMAIN sessions' :
          /\ sessions'[s].remaining = Cardinality(Missing(s, size)')
          /\ sessions'[s].inputs = {InputOf(s[1], r)' : r \in Expected(s, size)' \ Missing(s, size)'}
    BY <1>0, <1>2, <2>2, <2>3, <2>4
  <2>7. DOMAIN sessions' \ started' = {} /\ \A s \in started' : Missing(s, size)' = {}
    BY <1>0, <2>2
  <2> QED
    BY <2>1, <2>6, <2>7 DEF InputsCounted
<1>12. ASSUME NEW size PROVE ResultsArrive(size)'
  BY <1>0, <1>4, <1>7 DEF ResultsArrive
<1>13. \A size : ResultsAtHand(size)'
  BY <1>0 DEF ResultsAtHand
<1>14. 1 \in 1 .. MaxDimension + 1
  BY DimensionAssumption
<1>15. graph' \in Graphs
  BY <1>0, <1>1
<1>16. \E size \in 1 .. MaxDimension + 1 : (InputsCounted(size) /\ ResultsArrive(size) /\ ResultsAtHand(size))'
  BY <1>11, <1>12, <1>13, <1>14
<1> QED
  BY <1>0, <1>8, <1>9, <1>10, <1>15, <1>16 DEF CountingInv

\* The session whose results are fetched or handed on.
LEMMA CurrentFacts ==
  ASSUME IInv, CountingInv, pc \in {"fetch", "propagate"}, NEW size, InputsCounted(size),
         pc = "propagate" => current \in finished
  PROVE  /\ graph \in Graphs /\ ~ error /\ current \in finished /\ current \in started /\ current \notin Delivered
         /\ current[1] \in Nodes /\ current = <<current[1], current[2]>> /\ current[2] \in Metas(Levels[current[1]], size)
         /\ Delivered = finished \ {current} /\ Delivered \subseteq started
         /\ Kind(current) = "exit" <=> current[1] = graph.exit
         /\ current[1] = graph.exit => current = <<graph.exit, <<>>>>
<1>1. graph \in Graphs /\ ~ error
  BY DEF CountingInv
<1>2. current \in finished /\ current \in started /\ finished \subseteq started
  BY LoopFacts DEF IInv, FinishedIsQuiet
<1>3. Delivered = finished \ {current} /\ current \notin Delivered /\ Delivered \subseteq started
  BY <1>2 DEF Delivered
<1>4. current[1] \in Nodes /\ current = <<current[1], current[2]>> /\ current[2] \in Metas(Levels[current[1]], size)
  BY <1>2 DEF InputsCounted
<1>5. Kind(current) = "exit" <=> current[1] = graph.exit
  BY <1>1, <1>4, GraphFacts DEF Kind
<1>6. ASSUME current[1] = graph.exit PROVE current = <<graph.exit, <<>>>>
  <2>1. Levels[graph.exit] = <<>>
    BY <1>1, LevelsOK DEF LevelsFit
  <2>2. <<>> \in Seq({})
    OBVIOUS
  <2>3. Metas(<<>>, size) = {<<>>}
    BY <2>2, NoLevels
  <2> QED
    BY <1>4, <1>6, <2>1, <2>3
<1> QED
  BY <1>1, <1>2, <1>3, <1>4, <1>5, <1>6

\* The results of a session, for the right number of shards.
LEMMA ResultsFetched ==
  ASSUME graph \in Graphs, DynamicSize, Delivered \subseteq started, NEW size \in 1 .. MaxDimension + 1,
         InputsCounted(size), ResultsArrive(size), NEW n \in Nodes, NEW k \in Metas(Levels[n], size),
         <<n, k>> \notin Delivered, NEW dimension \in 0 .. MaxDimension,
         graph.demultiply[n] = NoDemultiplexer \/ CanDemultiply(n, k, dimension)
  PROVE  \E z \in 1 .. MaxDimension + 1 :
           InputsCounted(z) /\ ResultsArrive(z) /\ Results(n, k, dimension) = ResultsOf(<<n, k>>, z)
           /\ k \in Metas(Levels[n], z)
<1>0. size \in Nat \ {0} /\ size \in Nat
  BY DimensionAssumption
<1>1. CASE graph.demultiply[n] = NoDemultiplexer
  BY <1>0, <1>1, ResultsFacts DEF Results
<1>2. CASE graph.demultiply[n] # NoDemultiplexer /\ graph.demultiply[n] # 0
  <2>1. dimension = graph.demultiply[n]
    BY <1>2 DEF CanDemultiply
  <2>2. Shards(n, size) = dimension
    BY <1>2, <2>1 DEF Shards
  <2> QED
    BY <1>0, <1>2, <2>2, ResultsFacts DEF Results
<1>3. CASE graph.demultiply[n] = 0
  <2>0. graph.demultiply[n] # NoDemultiplexer
    BY <1>3 DEF NoDemultiplexer
  <2>1. CanGenerate(k, n) /\ dimension # 0
    BY <2>0 DEF CanDemultiply
  <2>2. dimension \in 1 .. MaxDimension + 1 /\ dimension \in Nat \ {0} /\ dimension \in Nat
    BY <2>1, DimensionAssumption
  <2>3. Demultiplexers(graph) = {n}
    BY <1>3, <2>0, GraphFacts DEF Demultiplexers, Nodes
  <2>4. Levels[n] = <<>>
    <3> DEFINE names == Levels[n]
    <3>1. names \in Seq({n}) /\ k \in Metas(names, size)
      BY <2>3, LevelsOK
    <3> HIDE DEF names
    <3>2. ASSUME names # <<>> PROVE FALSE
      <4>1. 1 \in DOMAIN names /\ names[1] = n
        BY <3>1, <3>2
      <4>2. k[1] \in LevelsOf(n, size) /\ 1 \in DOMAIN k
        BY <3>1, <4>1, MetaForm
      <4>3. k[1].name = n
        BY <4>2 DEF LevelsOf, Level
      <4> QED
        BY <2>1, <4>2, <4>3 DEF CanGenerate
    <3> QED
      BY <3>2 DEF names
  <2>5. \A z : Metas(Levels[n], z) = {<<>>}
    <3>1. <<>> \in Seq({})
      OBVIOUS
    <3> QED
      BY <2>4, <3>1, NoLevels
  <2>6. k = <<>>
    BY <2>5
  <2>7. InputsCounted(dimension) /\ ResultsArrive(dimension)
    BY <1>0, <1>3, <2>2, <2>6, SizeIsOpen
  <2>8. Shards(n, dimension) = dimension
    BY <1>3 DEF Shards
  <2>9. k \in Metas(Levels[n], dimension)
    BY <2>5, <2>6
  <2>10. Results(n, k, dimension) = ResultsOf(<<n, k>>, dimension)
    BY <2>0, <2>2, <2>8, <2>9, ResultsFacts DEF Results
  <2> QED
    BY <2>2, <2>7, <2>9, <2>10
<1> QED
  BY <1>1, <1>2, <1>3

LEMMA FetchResultsCounts ==
  ASSUME IInv, CountingInv, FetchResults
  PROVE  CountingInv'
<1> DEFINE n == current[1]
           k == current[2]
           ss == Restrict(sessions, DOMAIN sessions \ {current})
<1>0. /\ pc = "fetch" /\ pc' = "propagate" /\ ~ error
      /\ UNCHANGED <<graph, started, finished, error, current, todo, batch>>
  BY DEF FetchResults, CountingInv
<1>1. PICK size \in 1 .. MaxDimension + 1 : InputsCounted(size) /\ ResultsArrive(size) /\ ResultsAtHand(size)
  BY <1>0 DEF CountingInv
<1>2. /\ graph \in Graphs /\ ~ error /\ current \in finished /\ current \in started /\ current \notin Delivered
      /\ n \in Nodes /\ current = <<n, k>> /\ k \in Metas(Levels[n], size)
      /\ Delivered = finished \ {current} /\ Delivered \subseteq started
      /\ Kind(current) = "exit" <=> n = graph.exit
      /\ n = graph.exit => current = <<graph.exit, <<>>>>
  BY <1>0, <1>1, CurrentFacts
<1>3. DynamicSize
  BY <1>0 DEF CountingInv
<1>4. /\ DOMAIN sessions' = DOMAIN sessions \ {current}
      /\ \A s \in DOMAIN sessions' : /\ sessions'[s].remaining = sessions[s].remaining
                                     /\ sessions'[s].inputs = sessions[s].inputs
                                     /\ sessions'[s].used = sessions[s].used \/ s \in started
  <2>1. SessionsOK(sessions)
    BY LoopFacts
  <2>2. DOMAIN ss = DOMAIN sessions \ {current} /\ \A s \in DOMAIN ss : ss[s] = sessions[s]
    BY DEF Restrict
  <2>3. Release(current, ss)
    BY DEF FetchResults, EraseCurrent
  <2> HIDE DEF ss
  <2>4. SessionsOK(ss)
    BY <2>1, <2>2 DEF SessionsOK
  <2>5. KeepsCounts(ss, sessions')
    BY <2>3, <2>4, ReleaseKeepsCounts
  <2> QED
    BY <2>2, <2>5 DEF KeepsCounts
<1>5. PICK dimension \in 0 .. MaxDimension :
        /\ graph.demultiply[n] = NoDemultiplexer \/ CanDemultiply(n, k, dimension)
        /\ results' = IF Kind(current) = "exit" THEN {} ELSE Results(n, k, dimension)
  BY DEF FetchResults
<1>6. PICK z \in 1 .. MaxDimension + 1 :
        /\ InputsCounted(z) /\ ResultsArrive(z) /\ Results(n, k, dimension) = ResultsOf(<<n, k>>, z)
  <2>1. <<n, k>> \notin Delivered
    BY <1>2
  <2> HIDE DEF n, k
  <2> QED
    BY <1>1, <1>2, <1>3, <1>5, <2>1, ResultsFetched
<1>7. Delivered' = Delivered
  BY <1>0 DEF Delivered
<1>8. InputsCounted(z)' /\ ResultsArrive(z)' /\ DynamicSize'
  <2>1. graph' = graph /\ started' = started
    BY <1>0
  <2>2. DOMAIN sessions' \subseteq DOMAIN sessions /\ DOMAIN sessions \subseteq DOMAIN sessions' \cup started
    BY <1>2, <1>4
  <2>3. pc # "entry" /\ pc' # "entry" /\ (pc = "start" => todo = {} /\ batch = {})
    BY <1>0
  <2>4. /\ \A y : InputsCounted(y) => InputsCounted(y)'
        /\ \A y : ResultsArrive(y) => ResultsArrive(y)'
        /\ DynamicSize => DynamicSize'
    BY <1>4, <1>7, <2>1, <2>2, <2>3, Frame
  <2> QED
    BY <1>3, <1>6, <2>4
<1>9. ResultsAtHand(z)'
  <2>1. Kind(current)' = Kind(current) /\ current' = current
    BY <1>0 DEF Kind
  <2>2. ResultsOf(current, z)' = ResultsOf(current, z)
    BY <1>0, SameGraph
  <2>3. Kind(current) # "exit" => results' = ResultsOf(current, z)
    BY <1>2, <1>5, <1>6
  <2>4. current' \in finished'
    BY <1>0, <1>2
  <2>5. Kind(current) = "exit" => results' = {}
    BY <1>5
  <2> QED
    BY <2>1, <2>2, <2>3, <2>4, <2>5 DEF ResultsAtHand, ResultsOf
<1>10. ResponseCounted'
  <2>0. ResponseCounted
    BY DEF CountingInv
  <2>1. response' = IF Kind(current) = "exit" THEN response + 1 ELSE response
    BY DEF FetchResults
  <2>2. CASE Kind(current) = "exit"
    <3>1. current = <<graph.exit, <<>>>> /\ response = 0 /\ response' = 1
      BY <1>0, <1>2, <2>0, <2>1, <2>2 DEF ResponseCounted
    <3> QED
      BY <1>0, <1>2, <3>1 DEF ResponseCounted
  <2>3. CASE Kind(current) # "exit"
    <3>1. current # <<graph.exit, <<>>>>
      BY <1>2, <2>3
    <3> QED
      BY <1>0, <2>0, <2>1, <2>3, <3>1 DEF ResponseCounted
  <2> QED
    BY <2>2, <2>3
<1>11. StartedNotReady'
  <2>1. StartedNotReady /\ batch = {}
    BY <1>0, LoopFacts DEF CountingInv
  <2>2. Nodes' = Nodes
    BY <1>0, SameGraph
  <2>3. \A s \in started' \cap DOMAIN sessions' : sessions'[s].used \/ s[1] \in {graph'.entry, graph'.exit}
    <3>1. \A s \in DOMAIN sessions' : sessions[s].used => sessions'[s].used
      <4>1. SessionsOK(sessions)
        BY LoopFacts
      <4>2. DOMAIN ss = DOMAIN sessions \ {current} /\ \A s \in DOMAIN ss : ss[s] = sessions[s]
        BY DEF Restrict
      <4>3. Release(current, ss)
        BY DEF FetchResults, EraseCurrent
      <4> HIDE DEF ss
      <4>4. SessionsOK(ss)
        BY <4>1, <4>2 DEF SessionsOK
      <4>5. KeepsCounts(ss, sessions')
        BY <4>3, <4>4, ReleaseKeepsCounts
      <4>6. \A s \in DOMAIN ss : sessions'[s].used = ss[s].used \/ sessions'[s].used = TRUE
        BY <4>5 DEF KeepsCounts
      <4> QED
        BY <4>2, <4>5, <4>6 DEF KeepsCounts
    <3> QED
      BY <1>0, <1>4, <2>1, <3>1 DEF StartedNotReady
  <2> QED
    BY <1>0, <2>1, <2>2, <2>3 DEF StartedNotReady
<1>12. graph' \in Graphs /\ ~ error'
  BY <1>0, <1>2
<1> QED
  BY <1>0, <1>8, <1>9, <1>10, <1>11, <1>12 DEF CountingInv

(***************************************************************************)
(* Handing results on.                                                     *)
(***************************************************************************)

\* The results that go to session x, and the inputs they are.
GoingTo(x, ns, metas) == {m \in metas : x[1] \in ns /\ Key(x[1], m) = x}
KeysOf(ns, metas) == {Key(p[1], p[2]) : p \in ns \X metas}
AsInputs(x, src, metas) == {[from |-> src, shard |-> ShardId(m, graph.gather[x[1]]), meta |-> m] : m \in metas}

\* The inputs that a new session waits for, when m is the first of them.
Wanted(x, m) == Cardinality(Previous(x[1])) * CollapsedSize(m, graph.gather[x[1]])
WantedAtFirst(x, metas, r) == \E m \in metas : r.remaining = Wanted(x, m) - Cardinality(metas)

LEMMA SetInputsDomain ==
  ASSUME NEW ss, NEW ns, NEW src, NEW metas
  PROVE  DOMAIN SetInputs(ss, ns, src, metas) = DOMAIN ss \cup KeysOf(ns, metas)
BY DEF SetInputs, Touched, KeysOf

LEMMA SetInputsFields ==
  ASSUME NEW ss, SessionsOK(ss), NEW ns, NEW src, NEW metas, NEW x \in DOMAIN Touched(ss, ns, metas)
  PROVE  /\ SetInputs(ss, ns, src, metas)[x].used = Touched(ss, ns, metas)[x].used
         /\ SetInputs(ss, ns, src, metas)[x].remaining
              = Touched(ss, ns, metas)[x].remaining - Cardinality(GoingTo(x, ns, metas))
         /\ SetInputs(ss, ns, src, metas)[x].inputs
              = Touched(ss, ns, metas)[x].inputs \cup AsInputs(x, src, GoingTo(x, ns, metas))
<1> DEFINE t == Touched(ss, ns, metas)
           u == SetInputs(ss, ns, src, metas)
           M == {m \in metas : x[1] \in ns /\ Key(x[1], m) = x}
           I == {[from |-> src, shard |-> ShardId(m, graph.gather[x[1]]), meta |-> m] : m \in M}
           r == t[x]
           a == r.remaining - Cardinality(M)
           b == r.inputs \cup I
<1>1. Grows(ss, t)
  BY TouchedGrows
<1>2. DOMAIN r = Fields
  BY <1>1 DEF Grows, SessionsOK
<1>3. u[x] = [r EXCEPT !.remaining = a, !.inputs = b]
  BY DEF SetInputs
<1>4. M = GoingTo(x, ns, metas) /\ I = AsInputs(x, src, GoingTo(x, ns, metas))
  BY DEF GoingTo, AsInputs
<1> HIDE DEF a, b, r, u
<1>5. u[x].used = r.used /\ u[x].remaining = a /\ u[x].inputs = b
  BY <1>2, <1>3 DEF Fields
<1> HIDE DEF M, I
<1> QED
  BY <1>4, <1>5 DEF r, a, b, u

LEMMA SetInputsOld ==
  ASSUME NEW ss, SessionsOK(ss), NEW ns, NEW src, NEW metas, NEW x \in DOMAIN ss
  PROVE  /\ SetInputs(ss, ns, src, metas)[x].used = ss[x].used
         /\ SetInputs(ss, ns, src, metas)[x].remaining = ss[x].remaining - Cardinality(GoingTo(x, ns, metas))
         /\ SetInputs(ss, ns, src, metas)[x].inputs = ss[x].inputs \cup AsInputs(x, src, GoingTo(x, ns, metas))
<1>1. x \in DOMAIN Touched(ss, ns, metas) /\ Touched(ss, ns, metas)[x] = ss[x]
  BY DEF Touched
<1> QED
  BY <1>1, SetInputsFields

LEMMA TouchedNew ==
  ASSUME NEW ss, NEW ns, NEW metas, NEW x \in KeysOf(ns, metas), x \notin DOMAIN ss
  PROVE  /\ x \in DOMAIN Touched(ss, ns, metas)
         /\ \E m \in GoingTo(x, ns, metas) : Touched(ss, ns, metas)[x] = NewSession(x[1], m)
<1>1. PICK n \in ns, m \in metas : x = Key(n, m)
  BY DEF KeysOf
<1>2. x[1] = n
  BY <1>1 DEF Key
<1> DEFINE c == CHOOSE y \in metas : Key(x[1], y) = x
<1>3. c \in metas /\ Key(x[1], c) = x
  BY <1>1, <1>2
<1>4. x \in DOMAIN Touched(ss, ns, metas) /\ Touched(ss, ns, metas)[x] = NewSession(x[1], c)
  BY DEF Touched, KeysOf
<1> HIDE DEF c
<1> QED
  BY <1>2, <1>3, <1>4 DEF GoingTo

LEMMA SetInputsNew ==
  ASSUME NEW ss, SessionsOK(ss), NEW ns, NEW src, NEW metas, NEW x \in KeysOf(ns, metas), x \notin DOMAIN ss
  PROVE  /\ ~ SetInputs(ss, ns, src, metas)[x].used
         /\ WantedAtFirst(x, GoingTo(x, ns, metas), SetInputs(ss, ns, src, metas)[x])
         /\ SetInputs(ss, ns, src, metas)[x].inputs = AsInputs(x, src, GoingTo(x, ns, metas))
<1> DEFINE t == Touched(ss, ns, metas)
<1>1. x \in DOMAIN t
  BY TouchedNew
<1>2. PICK m \in GoingTo(x, ns, metas) : t[x] = NewSession(x[1], m)
  BY TouchedNew
<1>3. t[x].used = FALSE /\ t[x].inputs = {} /\ t[x].remaining = Wanted(x, m)
  BY <1>2 DEF NewSession, Wanted
<1> HIDE DEF t
<1>4. /\ SetInputs(ss, ns, src, metas)[x].used = t[x].used
      /\ SetInputs(ss, ns, src, metas)[x].remaining = t[x].remaining - Cardinality(GoingTo(x, ns, metas))
      /\ SetInputs(ss, ns, src, metas)[x].inputs = t[x].inputs \cup AsInputs(x, src, GoingTo(x, ns, metas))
  BY <1>1, SetInputsFields DEF t
<1> QED
  BY <1>2, <1>3, <1>4 DEF WantedAtFirst

LEMMA PairsCounted ==
  ASSUME NEW a, NEW M, IsFiniteSet({a} \X M)
  PROVE  IsFiniteSet(M) /\ Cardinality({a} \X M) = Cardinality(M)
<1> DEFINE P == {a} \X M
           f == [r \in P |-> r[2]]
<1>1. f \in [P -> M] /\ (\A x, y \in P : f[x] = f[y] => x = y) /\ \A m \in M : \E x \in P : f[x] = m
  <2>1. f \in [P -> M]
    OBVIOUS
  <2>2. ASSUME NEW x \in P, NEW y \in P, f[x] = f[y] PROVE x = y
    BY <2>2
  <2>3. ASSUME NEW m \in M PROVE \E x \in P : f[x] = m
    <3>1. <<a, m>> \in P /\ f[<<a, m>>] = m
      OBVIOUS
    <3> QED
      BY <3>1
  <2> QED
    BY <2>1, <2>2, <2>3
<1> HIDE DEF f
<1>2. f \in Bijection(P, M)
  BY <1>1 DEF Bijection, Injection, Surjection, IsInjective
<1>3. ExistsBijection(P, M)
  BY <1>2 DEF ExistsBijection
<1> QED
  BY <1>3, FS_Bijection

LEMMA Subtracted ==
  ASSUME NEW S, IsFiniteSet(S), NEW a, NEW M, {a} \X M \subseteq S
  PROVE  IsFiniteSet(M) /\ Cardinality(S \ ({a} \X M)) = Cardinality(S) - Cardinality(M)
<1> DEFINE P == {a} \X M
<1>1. IsFiniteSet(P) /\ S \cap P = P
  BY FS_Subset
<1>2. Cardinality(P) = Cardinality(M) /\ IsFiniteSet(M)
  BY <1>1, PairsCounted
<1> HIDE DEF P
<1>3. Cardinality(S \ P) = Cardinality(S) - Cardinality(P)
  BY <1>1, FS_Difference
<1> QED
  BY <1>2, <1>3 DEF P

\* The results at hand that go to session x.
Mine(x) == GoingTo(x, graph.next[current[1]], results)

LEMMA HandedOn ==
  ASSUME IInv, CountingInv, pc = "propagate", NEW size \in 1 .. MaxDimension + 1,
         InputsCounted(size), ResultsAtHand(size), NEW n \in Nodes, NEW k \in Metas(Levels[n], size)
  PROVE  LET x == <<n, k>> IN
         /\ {r \in Expected(x, size) : Origin(r) = current} = {current[1]} \X Mine(x)
         /\ {current[1]} \X Mine(x) \subseteq Missing(x, size)
         /\ x \in started => Mine(x) = {}
<1> DEFINE x == <<n, k>>
           c == current
           A == {r \in Expected(x, size) : Origin(r) = c}
<1>0. /\ graph \in Graphs /\ ~ error /\ c \notin Delivered /\ c[1] \in Nodes /\ c = <<c[1], c[2]>>
      /\ Kind(c) = "exit" <=> c[1] = graph.exit
  BY CurrentFacts DEF ResultsAtHand
<1>1. size \in Nat \ {0} /\ size \in Nat
  BY DimensionAssumption
<1>2. results = IF c[1] = graph.exit THEN {} ELSE ResultsOf(c, size)
  BY <1>0 DEF ResultsAtHand, ResultsOf
<1>3. \A r \in Expected(x, size) :
        /\ r = <<r[1], r[2]>> /\ r[1] \in Previous(n) /\ r[1] \in Nodes /\ r[2] \in Metas(Leaving(graph, Levels, r[1]), size)
        /\ Key(n, r[2]) = x
  BY <1>0, <1>1, ExpectedFacts
<1>33. \A p \in Previous(n) : \A m \in Metas(Leaving(graph, Levels, p), size) :
         Key(n, m) = x => <<p, m>> \in Expected(x, size)
  BY <1>0, <1>1, ExpectedFacts
<1>4. graph.next[graph.exit] = {} /\ \A p : p \in Previous(n) <=> p \in Nodes /\ n \in graph.next[p]
  BY <1>0, GraphFacts DEF Previous
<1>5. ASSUME NEW r \in A PROVE r \in {c[1]} \X Mine(x)
  <2>1. r[1] = c[1]
    <3>1. Origin(r)[1] = r[1]
      BY DEF Origin
    <3> QED
      BY <3>1
  <2>2. n \in graph.next[c[1]] /\ c[1] # graph.exit
    BY <1>3, <1>4, <2>1
  <2>3. r = <<c[1], r[2]>> /\ Origin(<<c[1], r[2]>>) = c /\ r[2] \in Metas(Leaving(graph, Levels, c[1]), size)
    BY <1>3, <2>1
  <2>4. r[2] \in results
    BY <1>2, <2>2, <2>3 DEF ResultsOf
  <2>5. r[2] \in Mine(x)
    BY <1>3, <2>2, <2>4 DEF Mine, GoingTo
  <2> QED
    BY <2>3, <2>5
<1>6. ASSUME NEW m \in Mine(x) PROVE <<c[1], m>> \in A
  <2>1. m \in results /\ n \in graph.next[c[1]] /\ Key(n, m) = x
    BY DEF Mine, GoingTo
  <2>2. m \in ResultsOf(c, size)
    BY <1>2, <2>1
  <2>3. m \in Metas(Leaving(graph, Levels, c[1]), size) /\ Origin(<<c[1], m>>) = c
    BY <2>2 DEF ResultsOf
  <2>4. c[1] \in Previous(n)
    BY <1>0, <1>4, <2>1
  <2> QED
    BY <1>33, <2>1, <2>3, <2>4
<1>7. A = {c[1]} \X Mine(x)
  <2> HIDE DEF A, x, c
  <2> QED
    BY <1>5, <1>6
<1>8. A \subseteq Missing(x, size)
  BY <1>0 DEF Missing
<1>9. ASSUME x \in started PROVE Mine(x) = {}
  <2>1. Missing(x, size) = {}
    BY <1>9 DEF InputsCounted
  <2> QED
    BY <1>6, <1>8, <2>1
<1> QED
  BY <1>7, <1>8, <1>9

\* Where the results at hand go.
LEMMA HandedTo ==
  ASSUME IInv, CountingInv, pc = "propagate", NEW size \in 1 .. MaxDimension + 1,
         InputsCounted(size), ResultsAtHand(size)
  PROVE  /\ \A n \in graph.next[current[1]], m \in results :
              /\ n \in Nodes /\ Key(n, m) = <<n, Key(n, m)[2]>> /\ Key(n, m)[2] \in Metas(Levels[n], size)
              /\ m \in Mine(Key(n, m)) /\ current[1] \in Previous(n)
              /\ m \in Metas(Leaving(graph, Levels, current[1]), size)
              /\ Key(n, m) \notin started
         /\ graph.next[current[1]] # {} => results # {}
         /\ graph.next[current[1]] \subseteq Nodes /\ graph.entry \notin graph.next[current[1]]
<1> DEFINE c == current
<1>0. /\ graph \in Graphs /\ ~ error /\ c \notin Delivered /\ c[1] \in Nodes /\ c = <<c[1], c[2]>>
      /\ Kind(c) = "exit" <=> c[1] = graph.exit /\ c[2] \in Metas(Levels[c[1]], size)
      /\ c[2] \in Metas(Levels[c[1]], size)
  BY CurrentFacts DEF ResultsAtHand
<1>1. size \in Nat \ {0} /\ size \in Nat
  BY DimensionAssumption
<1>2. results = IF c[1] = graph.exit THEN {} ELSE ResultsOf(c, size)
  BY <1>0, CurrentFacts DEF ResultsAtHand, ResultsOf
<1>3. graph.next[graph.exit] = {} /\ graph.next[c[1]] \subseteq Nodes /\ Previous(graph.entry) = {}
  BY <1>0, GraphFacts
<1>4. graph.entry \notin graph.next[c[1]]
  BY <1>0, <1>3 DEF Previous
<1>5. ASSUME graph.next[c[1]] # {} PROVE results # {}
  <2>1. c[1] # graph.exit
    BY <1>3, <1>5
  <2>2. ResultsOf(<<c[1], c[2]>>, size) # {}
    BY <1>0, <1>1, ResultsFacts
  <2> QED
    BY <1>0, <1>2, <2>1, <2>2
<1>6. ASSUME NEW n \in graph.next[c[1]], NEW m \in results
      PROVE  /\ n \in Nodes /\ Key(n, m) = <<n, Key(n, m)[2]>> /\ Key(n, m)[2] \in Metas(Levels[n], size)
             /\ m \in Mine(Key(n, m)) /\ c[1] \in Previous(n) /\ m \in Metas(Leaving(graph, Levels, c[1]), size)
             /\ Key(n, m) \notin started
  <2>1. n \in Nodes /\ c[1] \in Previous(n)
    BY <1>0, <1>3 DEF Previous
  <2>2. m \in Metas(Leaving(graph, Levels, c[1]), size)
    BY <1>2 DEF ResultsOf
  <2> DEFINE k == SubSeq(m, 1, Len(Leaving(graph, Levels, c[1])) - Cardinality(graph.gather[n]))
  <2>3. Key(n, m) = <<n, k>> /\ k \in Metas(Levels[n], size)
    BY <1>0, <2>1, <2>2, KeyOf
  <2> HIDE DEF k
  <2>4. m \in Mine(<<n, k>>)
    BY <2>3 DEF Mine, GoingTo
  <2>5. <<n, k>> \notin started
    BY <2>1, <2>3, <2>4, HandedOn
  <2> QED
    BY <2>1, <2>2, <2>3, <2>4, <2>5
<1> QED
  BY <1>3, <1>4, <1>5, <1>6

LEMMA PropagateMissing ==
  ASSUME IInv, CountingInv, pc = "propagate", NEW size \in 1 .. MaxDimension + 1,
         InputsCounted(size), ResultsAtHand(size), NEW n \in Nodes, NEW k \in Metas(Levels[n], size),
         graph' = graph, finished' = finished, pc' = "start"
  PROVE  LET x == <<n, k>> IN
         /\ Missing(x, size)' = Missing(x, size) \ ({current[1]} \X Mine(x))
         /\ Cardinality(Missing(x, size)') = Cardinality(Missing(x, size)) - Cardinality(Mine(x))
         /\ IsFiniteSet(Mine(x)) /\ Cardinality(Missing(x, size)) \in Nat /\ Cardinality(Mine(x)) \in Nat
         /\ {InputOf(n, r) : r \in Expected(x, size) \ Missing(x, size)'} =
              {InputOf(n, r) : r \in Expected(x, size) \ Missing(x, size)}
                \cup {[from |-> current[1], shard |-> ShardId(m, graph.gather[n]), meta |-> m] : m \in Mine(x)}
         /\ Missing(x, size) \subseteq Expected(x, size)
         /\ {current[1]} \X Mine(x) \subseteq Missing(x, size)
         /\ Expected(x, size)' = Expected(x, size)
<1> DEFINE x == <<n, k>>
           E == Expected(x, size)
           A == {current[1]} \X Mine(x)
           Q == Missing(x, size)
           R == Missing(x, size)'
<1>0. graph \in Graphs /\ size \in Nat \ {0}
  BY DimensionAssumption DEF CountingInv
<1>1. Delivered' = Delivered \cup {current}
  <2>1. Delivered = finished \ {current} /\ current \in finished
    BY CurrentFacts DEF ResultsAtHand
  <2> QED
    BY <2>1 DEF Delivered
<1>2. {r \in E : Origin(r) = current} = A /\ A \subseteq Q
  BY HandedOn
<1>3. E' = E /\ \A r : Origin(r)' = Origin(r)
  BY SameGraph
<1>4. R = {r \in E : Origin(r) \notin Delivered \cup {current}}
  BY <1>1, <1>3 DEF Missing
<1>5. Q = {r \in E : Origin(r) \notin Delivered}
  BY DEF Missing
<1>6. IsFiniteSet(Q) /\ Q \subseteq E
  BY <1>0, ExpectedFacts
<1> HIDE DEF E, Q, R
<1>7. R = Q \ A
  <2> HIDE DEF A
  <2> QED
    BY <1>2, <1>4, <1>5
<1>8. IsFiniteSet(Mine(x)) /\ Cardinality(Q \ A) = Cardinality(Q) - Cardinality(Mine(x))
  BY <1>2, <1>6, Subtracted
<1>9. Cardinality(Q) \in Nat /\ Cardinality(Mine(x)) \in Nat
  BY <1>6, <1>8, FS_CardinalityType
<1>10. {InputOf(n, r) : r \in A} = {[from |-> current[1], shard |-> ShardId(m, graph.gather[n]), meta |-> m] : m \in Mine(x)}
  <2> HIDE DEF x
  <2>1. \A m \in Mine(x) : InputOf(n, <<current[1], m>>) = [from |-> current[1], shard |-> ShardId(m, graph.gather[n]), meta |-> m]
    BY DEF InputOf
  <2>2. \A r \in A : r[2] \in Mine(x) /\ r = <<current[1], r[2]>>
    OBVIOUS
  <2>3. \A m \in Mine(x) : <<current[1], m>> \in A
    OBVIOUS
  <2> HIDE DEF A
  <2> DEFINE P(m) == [from |-> current[1], shard |-> ShardId(m, graph.gather[n]), meta |-> m]
  <2>4. \A m \in Mine(x) : InputOf(n, <<current[1], m>>) = P(m)
    BY <2>1
  <2> HIDE DEF P
  <2>5. {InputOf(n, r) : r \in A} = {P(m) : m \in Mine(x)}
    <3>1. ASSUME NEW r \in A PROVE InputOf(n, r) \in {P(m) : m \in Mine(x)}
      <4>1. InputOf(n, r) = P(r[2]) /\ r[2] \in Mine(x)
        <5>1. r[2] \in Mine(x) /\ r = <<current[1], r[2]>>
          BY <2>2
        <5>2. InputOf(n, <<current[1], r[2]>>) = P(r[2])
          BY <2>4, <5>1
        <5> QED
          BY <5>1, <5>2
      <4> QED
        BY <4>1
    <3>2. ASSUME NEW m \in Mine(x) PROVE P(m) \in {InputOf(n, r) : r \in A}
      BY <2>3, <2>4
    <3> QED
      BY <3>1, <3>2
  <2> QED
    BY <2>5 DEF P
<1>11. E \ R = (E \ Q) \cup A
  BY <1>2, <1>6, <1>7
<1> HIDE DEF A
<1>12. {InputOf(n, r) : r \in E \ R} = {InputOf(n, r) : r \in E \ Q} \cup {InputOf(n, r) : r \in A}
  BY <1>11
<1> QED
  BY <1>2, <1>3, <1>6, <1>7, <1>8, <1>9, <1>10, <1>12 DEF E, A, Q, R

LEMMA PropagateCounts ==
  ASSUME IInv, CountingInv, Propagate
  PROVE  CountingInv'
<1> DEFINE ns == graph.next[current[1]]
           u == sessions'
           keys == {Key(p[1], p[2]) : p \in ns \X results}
           I(x) == {[from |-> current[1], shard |-> ShardId(m, graph.gather[x[1]]), meta |-> m] : m \in Mine(x)}
<1>0. /\ pc = "propagate" /\ pc' = "start" /\ ~ error /\ todo' = ns /\ sessions' = SetInputs(sessions, ns, current[1], results)
      /\ UNCHANGED <<graph, started, finished, error, batch, response>>
  BY DEF Propagate, CountingInv
<1>1. PICK size \in 1 .. MaxDimension + 1 : InputsCounted(size) /\ ResultsArrive(size) /\ ResultsAtHand(size)
  BY <1>0 DEF CountingInv
<1>2. size \in Nat \ {0} /\ size \in Nat /\ graph \in Graphs /\ SessionsOK(sessions) /\ DynamicSize
  BY <1>0, DimensionAssumption, LoopFacts DEF CountingInv
<1>3. /\ \A n \in ns, m \in results :
           /\ n \in Nodes /\ Key(n, m) = <<n, Key(n, m)[2]>> /\ Key(n, m)[2] \in Metas(Levels[n], size)
           /\ m \in Mine(Key(n, m)) /\ current[1] \in Previous(n)
           /\ m \in Metas(Leaving(graph, Levels, current[1]), size)
           /\ Key(n, m) \notin started
      /\ ns # {} => results # {}
      /\ ns \subseteq Nodes /\ graph.entry \notin ns
  BY <1>0, <1>1, HandedTo
<1>4. /\ DOMAIN u = DOMAIN sessions \cup keys
      /\ \A x \in DOMAIN sessions : /\ u[x].used = sessions[x].used
                                    /\ u[x].remaining = sessions[x].remaining - Cardinality(Mine(x))
                                    /\ u[x].inputs = sessions[x].inputs \cup I(x)
      /\ \A x \in DOMAIN u \ DOMAIN sessions :
           \E m \in Mine(x) : /\ ~ u[x].used
                              /\ u[x].remaining = Wanted(x, m) - Cardinality(Mine(x))
                              /\ u[x].inputs = I(x)
  <2>1. \A x : GoingTo(x, ns, results) = Mine(x) /\ AsInputs(x, current[1], Mine(x)) = I(x)
    BY DEF Mine, AsInputs
  <2>2. SessionsOK(sessions) /\ u = SetInputs(sessions, ns, current[1], results) /\ KeysOf(ns, results) = keys
    BY <1>0, <1>2 DEF KeysOf
  <2> HIDE DEF I, keys, u, ns
  <2>3. DOMAIN u = DOMAIN sessions \cup keys
    BY <2>2, SetInputsDomain
  <2>4. ASSUME NEW x \in DOMAIN sessions
        PROVE  /\ u[x].used = sessions[x].used
               /\ u[x].remaining = sessions[x].remaining - Cardinality(Mine(x))
               /\ u[x].inputs = sessions[x].inputs \cup I(x)
    BY <2>1, <2>2, SetInputsOld
  <2>5. ASSUME NEW x \in DOMAIN u \ DOMAIN sessions
        PROVE  \E m \in Mine(x) : /\ ~ u[x].used
                                  /\ u[x].remaining = Wanted(x, m) - Cardinality(Mine(x))
                                  /\ u[x].inputs = I(x)
    <3>1. /\ ~ u[x].used
          /\ WantedAtFirst(x, GoingTo(x, ns, results), u[x])
          /\ u[x].inputs = AsInputs(x, current[1], GoingTo(x, ns, results))
      <4>1. x \in KeysOf(ns, results) /\ x \notin DOMAIN sessions
        BY <2>2, <2>3
      <4> QED
        BY <2>2, <4>1, SetInputsNew
    <3> QED
      BY <2>1, <3>1 DEF WantedAtFirst
  <2> QED
    BY <2>3, <2>4, <2>5
<1>5. \A x \in keys : x[1] \in ns /\ x = <<x[1], x[2]>> /\ x[2] \in Metas(Levels[x[1]], size) /\ Mine(x) # {} /\ x \notin started
  <2> SUFFICES ASSUME NEW x \in keys
               PROVE  x[1] \in ns /\ x = <<x[1], x[2]>> /\ x[2] \in Metas(Levels[x[1]], size) /\ Mine(x) # {} /\ x \notin started
    OBVIOUS
  <2>1. PICK n \in ns, m \in results : x = Key(n, m)
    OBVIOUS
  <2>2. x = <<n, x[2]>> /\ x[2] \in Metas(Levels[n], size) /\ m \in Mine(x) /\ x \notin started
    BY <1>3, <2>1
  <2>3. x[1] = n
    BY <2>2
  <2> QED
    BY <2>2, <2>3
<1>6. \A x : Mine(x) # {} => x \in keys
  <2> SUFFICES ASSUME NEW x, NEW m \in Mine(x) PROVE x \in keys
    OBVIOUS
  <2>1. m \in results /\ x[1] \in ns /\ Key(x[1], m) = x
    BY DEF Mine, GoingTo
  <2>2. <<x[1], m>> \in ns \X results
    BY <2>1
  <2> QED
    BY <2>1, <2>2
<1> HIDE DEF keys, u, ns
<1>7. ASSUME NEW x \in DOMAIN u \cup started
      PROVE  x[1] \in Nodes /\ x = <<x[1], x[2]>> /\ x[2] \in Metas(Levels[x[1]], size)
  <2>1. CASE x \in keys
    BY <1>3, <1>5, <2>1
  <2>2. CASE x \in DOMAIN sessions \cup started
    BY <1>1, <2>2 DEF InputsCounted
  <2> QED
    BY <1>4, <2>1, <2>2
<1>8. ASSUME NEW n \in Nodes, NEW k \in Metas(Levels[n], size)
      PROVE  LET x == <<n, k>> IN
             /\ Missing(x, size)' = Missing(x, size) \ ({current[1]} \X Mine(x))
             /\ Cardinality(Missing(x, size)') = Cardinality(Missing(x, size)) - Cardinality(Mine(x))
             /\ IsFiniteSet(Mine(x)) /\ Cardinality(Missing(x, size)) \in Nat /\ Cardinality(Mine(x)) \in Nat
             /\ {InputOf(n, r) : r \in Expected(x, size) \ Missing(x, size)'} =
                  {InputOf(n, r) : r \in Expected(x, size) \ Missing(x, size)}
                    \cup {[from |-> current[1], shard |-> ShardId(m, graph.gather[n]), meta |-> m] : m \in Mine(x)}
             /\ Missing(x, size) \subseteq Expected(x, size)
             /\ {current[1]} \X Mine(x) \subseteq Missing(x, size)
             /\ Expected(x, size)' = Expected(x, size)
  BY <1>0, <1>1, PropagateMissing
<1>9. ASSUME NEW x, x[1] \in Nodes, x = <<x[1], x[2]>>, x[2] \in Metas(Levels[x[1]], size)
      PROVE  /\ Missing(x, size)' = Missing(x, size) \ ({current[1]} \X Mine(x))
             /\ Cardinality(Missing(x, size)') = Cardinality(Missing(x, size)) - Cardinality(Mine(x))
             /\ IsFiniteSet(Mine(x)) /\ Cardinality(Missing(x, size)) \in Nat /\ Cardinality(Mine(x)) \in Nat
             /\ {InputOf(x[1], r) : r \in Expected(x, size) \ Missing(x, size)'} =
                  {InputOf(x[1], r) : r \in Expected(x, size) \ Missing(x, size)} \cup I(x)
             /\ Missing(x, size) \subseteq Expected(x, size)
             /\ {current[1]} \X Mine(x) \subseteq Missing(x, size)
             /\ Expected(x, size)' = Expected(x, size)
  <2> DEFINE n == x[1]
             k == x[2]
  <2>1. n \in Nodes /\ k \in Metas(Levels[n], size) /\ x = <<n, k>>
    BY <1>9
  <2> HIDE DEF n, k
  <2>2. x[1] = n
    BY <2>1
  <2> QED
    BY <1>8, <2>1, <2>2
<1> HIDE DEF I
<1>10. \A x : {InputOf(x[1], r)' : r \in Expected(x, size) \ Missing(x, size)'} =
              {InputOf(x[1], r) : r \in Expected(x, size) \ Missing(x, size)'}
  BY <1>0, SameGraph
<1>11. ASSUME NEW x \in DOMAIN sessions
       PROVE  /\ u[x].remaining = Cardinality(Missing(x, size)')
              /\ u[x].inputs = {InputOf(x[1], r) : r \in Expected(x, size) \ Missing(x, size)'}
              /\ x \notin started => Missing(x, size)' # Expected(x, size) /\ ~ u[x].used
  <2>1. x[1] \in Nodes /\ x = <<x[1], x[2]>> /\ x[2] \in Metas(Levels[x[1]], size)
    BY <1>1 DEF InputsCounted
  <2>2. /\ sessions[x].remaining = Cardinality(Missing(x, size))
        /\ sessions[x].inputs = {InputOf(x[1], r) : r \in Expected(x, size) \ Missing(x, size)}
        /\ x \notin started => Missing(x, size) # Expected(x, size) /\ ~ sessions[x].used
    BY <1>1 DEF InputsCounted
  <2>3. u[x].remaining = Cardinality(Missing(x, size)')
    BY <1>4, <1>9, <2>1, <2>2
  <2>4. u[x].inputs = {InputOf(x[1], r) : r \in Expected(x, size) \ Missing(x, size)'}
    BY <1>4, <1>9, <2>1, <2>2
  <2>5. Missing(x, size)' \subseteq Missing(x, size) /\ Missing(x, size) \subseteq Expected(x, size)
    BY <1>9, <2>1
  <2> QED
    BY <1>4, <2>2, <2>3, <2>4, <2>5
<1>12. ASSUME NEW x \in DOMAIN u \ DOMAIN sessions
       PROVE  /\ u[x].remaining = Cardinality(Missing(x, size)')
              /\ u[x].inputs = {InputOf(x[1], r) : r \in Expected(x, size) \ Missing(x, size)'}
              /\ x \notin started /\ Missing(x, size)' # Expected(x, size) /\ ~ u[x].used
  <2>1. x \in keys /\ x[1] \in ns /\ x[1] \in Nodes /\ x = <<x[1], x[2]>> /\ x[2] \in Metas(Levels[x[1]], size)
        /\ Mine(x) # {} /\ x \notin started
    BY <1>3, <1>4, <1>5
  <2>2. PICK m \in Mine(x) : /\ ~ u[x].used
                             /\ u[x].remaining = Wanted(x, m) - Cardinality(Mine(x))
                             /\ u[x].inputs = I(x)
    BY <1>4
  <2>3. Missing(x, size) = Expected(x, size)
    <3> DEFINE n == x[1]
               k == x[2]
    <3>1. n \in Nodes /\ k \in Metas(Levels[n], size) /\ x = <<n, k>>
      BY <2>1
    <3> HIDE DEF n, k
    <3>2. <<n, k>> \notin DOMAIN sessions \cup started
      BY <2>1, <3>1
    <3>3. Missing(<<n, k>>, size) = Expected(<<n, k>>, size)
      BY <1>1, <3>1, <3>2 DEF ResultsArrive
    <3> QED
      BY <3>1, <3>3
  <2>4. Cardinality(Expected(x, size)) = Wanted(x, m)
    <3>1. m \in results /\ x[1] \in ns /\ Key(x[1], m) = x
      BY DEF Mine, GoingTo, ns
    <3>2. current[1] \in Previous(x[1]) /\ m \in Metas(Leaving(graph, Levels, current[1]), size)
      BY <1>3, <3>1
    <3> QED
      BY <1>2, <2>1, <3>1, <3>2, ExpectedCounted DEF Wanted
  <2>5. u[x].remaining = Cardinality(Missing(x, size)')
    BY <1>9, <2>1, <2>2, <2>3, <2>4
  <2>6. u[x].inputs = {InputOf(x[1], r) : r \in Expected(x, size) \ Missing(x, size)'}
    <3>1. {InputOf(x[1], r) : r \in Expected(x, size) \ Missing(x, size)} = {}
      BY <2>3
    <3>2. {InputOf(x[1], r) : r \in Expected(x, size) \ Missing(x, size)'} =
            {InputOf(x[1], r) : r \in Expected(x, size) \ Missing(x, size)} \cup I(x)
      BY <1>9, <2>1
    <3> QED
      BY <2>2, <3>1, <3>2
  <2>7. Missing(x, size)' # Expected(x, size)
    <3>1. <<current[1], m>> \in {current[1]} \X Mine(x)
      OBVIOUS
    <3>2. <<current[1], m>> \in Expected(x, size) /\ <<current[1], m>> \notin Missing(x, size)'
      BY <1>9, <2>1, <3>1
    <3> QED
      BY <3>2
  <2> QED
    BY <2>1, <2>2, <2>5, <2>6, <2>7
<1>13. Nodes' = Nodes /\ Levels' = Levels /\ (\A names : Metas(names, size)' = Metas(names, size))
       /\ (\A x : Expected(x, size)' = Expected(x, size)) /\ EntrySession' = EntrySession
  BY <1>0, SameGraph
<1>14. InputsCounted(size)'
  <2>1. \A x \in DOMAIN sessions' \cup started' :
          x[1] \in Nodes' /\ x = <<x[1], x[2]>> /\ x[2] \in Metas(Levels[x[1]], size)'
    BY <1>0, <1>7, <1>13 DEF u
  <2>2. \A x \in DOMAIN sessions' :
          /\ sessions'[x].remaining = Cardinality(Missing(x, size)')
          /\ sessions'[x].inputs = {InputOf(x[1], r)' : r \in Expected(x, size)' \ Missing(x, size)'}
    BY <1>10, <1>11, <1>12, <1>13 DEF u
  <2>3. \A x \in DOMAIN sessions' \ started' : Missing(x, size)' # Expected(x, size)' /\ ~ sessions'[x].used
    BY <1>0, <1>11, <1>12, <1>13 DEF u
  <2>4. \A x \in started' : Missing(x, size)' = {}
    <3> SUFFICES ASSUME NEW x \in started PROVE Missing(x, size)' = {}
      BY <1>0
    <3>1. Missing(x, size) = {}
      BY <1>1 DEF InputsCounted
    <3> QED
      BY <1>7, <1>9, <3>1
  <2> QED
    BY <2>1, <2>2, <2>3, <2>4 DEF InputsCounted
<1>15. ResultsArrive(size)'
  <2>1. ASSUME NEW n \in Nodes, NEW k \in Metas(Levels[n], size), Missing(<<n, k>>, size)' # Expected(<<n, k>>, size)
        PROVE  <<n, k>> \in DOMAIN u \cup started
    <3>1. CASE Mine(<<n, k>>) # {}
      BY <1>4, <1>6, <3>1
    <3>2. CASE Mine(<<n, k>>) = {}
      <4>1. Missing(<<n, k>>, size)' = Missing(<<n, k>>, size) \ ({current[1]} \X Mine(<<n, k>>))
        BY <1>8
      <4>2. {current[1]} \X Mine(<<n, k>>) = {}
        BY <3>2
      <4>3. Missing(<<n, k>>, size) # Expected(<<n, k>>, size)
        BY <2>1, <4>1, <4>2
      <4>4. <<n, k>> \in DOMAIN sessions \cup started
        BY <1>1, <4>3 DEF ResultsArrive
      <4> QED
        BY <1>4, <4>4
    <3> QED
      BY <3>1, <3>2
  <2>2. ASSUME NEW x \in DOMAIN u, u[x].remaining = 0 PROVE x \in started \/ x[1] \in ns
    <3>1. CASE Mine(x) # {}
      BY <1>5, <1>6, <3>1
    <3>2. CASE Mine(x) = {}
      <4>1. x \in DOMAIN sessions
        BY <1>4, <1>5, <3>2
      <4>2. Cardinality(Mine(x)) = 0
        BY <3>2, FS_EmptySet
      <4>3. sessions[x].remaining = 0
        <5>1. sessions[x].remaining = Cardinality(Missing(x, size))
          BY <1>1, <4>1 DEF InputsCounted
        <5>2. Cardinality(Missing(x, size)) \in Nat
          BY <1>7, <1>9
        <5> QED
          BY <1>4, <2>2, <4>1, <4>2, <5>1, <5>2
      <4> QED
        BY <1>0, <1>1, <4>1, <4>3 DEF ResultsArrive
    <3> QED
      BY <3>1, <3>2
  <2>3. EntrySession \in started
    BY <1>0, <1>1 DEF ResultsArrive
  <2>4. \A n \in Nodes' : \A k \in Metas(Levels[n], size)' :
          Missing(<<n, k>>, size)' # Expected(<<n, k>>, size)' => <<n, k>> \in DOMAIN sessions' \cup started'
    BY <1>0, <1>13, <2>1 DEF u
  <2>5. \A x \in DOMAIN sessions' :
          sessions'[x].remaining = 0 => x \in started' \/ (pc' = "start" /\ (x[1] \in todo' \/ x \in batch'))
    BY <1>0, <2>2 DEF u
  <2> QED
    BY <1>0, <1>13, <2>3, <2>4, <2>5 DEF ResultsArrive
<1>16. DynamicSize'
  <2> SUFFICES ASSUME NEW d \in Nodes, graph.demultiply[d] = 0, <<d, <<>>>> \notin Delivered',
                      NEW x \in DOMAIN u \cup started
               PROVE  x[2] = <<>>
    BY <1>0, <1>13 DEF DynamicSize, u
  <2>1. /\ Delivered = finished \ {current} /\ current \in finished /\ current \in started
        /\ current[1] \in Nodes /\ current = <<current[1], current[2]>> /\ current[2] \in Metas(Levels[current[1]], size)
    BY <1>0, <1>1, CurrentFacts DEF ResultsAtHand
  <2>2. Delivered' = Delivered \cup {current}
    BY <1>0, <2>1 DEF Delivered
  <2>3. \A s \in DOMAIN sessions \cup started : s[2] = <<>>
    BY <1>2, <2>2 DEF DynamicSize
  <2>4. current[1] # d /\ current[2] = <<>>
    BY <2>1, <2>2, <2>3
  <2>5. graph.demultiply[current[1]] = NoDemultiplexer
    BY <1>2, <2>1, <2>4, GraphFacts DEF Demultiplexers, Nodes, NoDemultiplexer
  <2>6. Leaving(graph, Levels, current[1]) = <<>>
    <3>1. Levels[current[1]] \in Seq(Demultiplexers(graph))
      BY <1>2, <2>1, LevelsOK
    <3>2. Levels[current[1]] = <<>>
      BY <2>1, <2>4, <3>1, NoLevels
    <3> QED
      BY <2>5, <3>2 DEF Leaving
  <2>7. CASE x \in keys
    <3>1. PICK m : m \in Mine(x)
      BY <1>5, <2>7
    <3>2. m \in results /\ x[1] \in ns /\ Key(x[1], m) = x
      BY <3>1 DEF Mine, GoingTo, ns
    <3>3. current[1] \in Previous(x[1]) /\ m \in Metas(Leaving(graph, Levels, current[1]), size) /\ x[1] \in Nodes
      BY <1>3, <3>2
    <3> DEFINE c == Len(Leaving(graph, Levels, current[1])) - Cardinality(graph.gather[x[1]])
    <3>4. Key(x[1], m) = <<x[1], SubSeq(m, 1, c)>>
      <4> DEFINE y == x[1]
                 p == current[1]
      <4>1. y \in Nodes /\ p \in Previous(y) /\ m \in Metas(Leaving(graph, Levels, p), size)
        BY <3>3
      <4> HIDE DEF y, p
      <4>2. Key(y, m) = <<y, SubSeq(m, 1, Len(Leaving(graph, Levels, p)) - Cardinality(graph.gather[y]))>>
        BY <1>2, <4>1, KeyOf
      <4> QED
        BY <4>2 DEF y, p
    <3>5. c = 0
      <4>1. c \in 0 .. Len(Leaving(graph, Levels, current[1]))
        BY <1>2, <3>3, EdgeFacts
      <4>2. Len(Leaving(graph, Levels, current[1])) = 0
        BY <2>6
      <4> HIDE DEF c
      <4> QED
        BY <4>1, <4>2
    <3> HIDE DEF c
    <3>6. x[2] = SubSeq(m, 1, 0)
      BY <3>2, <3>4, <3>5
    <3>7. m = <<>>
      <4>1. <<>> \in Seq({})
        OBVIOUS
      <4>2. Metas(<<>>, size) = {<<>>}
        BY <4>1, NoLevels
      <4> QED
        BY <2>6, <3>3, <4>2
    <3> QED
      BY <3>6, <3>7
  <2> QED
    BY <1>4, <2>3, <2>7
<1>17. ResultsAtHand(size)'
  BY <1>0 DEF ResultsAtHand
<1>18. ResponseCounted'
  BY <1>0 DEF CountingInv, ResponseCounted
<1>19. StartedNotReady'
  <2>1. StartedNotReady /\ batch = {}
    BY <1>0, LoopFacts DEF CountingInv
  <2>2. ASSUME NEW x \in started \cap DOMAIN u
        PROVE  (u[x].used \/ x[1] \in {graph.entry, graph.exit}) /\ (u[x].used \/ x[1] \notin ns)
    <3>1. x \in DOMAIN sessions
      BY <1>4, <1>5
    <3>2. u[x].used = sessions[x].used /\ (u[x].used \/ x[1] \in {graph.entry, graph.exit})
      BY <1>0, <1>4, <2>1, <3>1 DEF StartedNotReady
    <3>3. ASSUME x[1] = graph.exit, x[1] \in ns PROVE FALSE
      <4>1. PICK m : m \in results
        BY <1>3, <3>3
      <4>2. Key(graph.exit, m) \notin started
        BY <1>3, <3>3, <4>1
      <4>3. Levels[graph.exit] = <<>>
        BY <1>2, LevelsOK DEF LevelsFit
      <4>4. Metas(<<>>, size) = {<<>>}
        <5>1. <<>> \in Seq({})
          OBVIOUS
        <5> QED
          BY <5>1, NoLevels
      <4>5. Key(graph.exit, m) = <<graph.exit, <<>>>>
        BY <1>3, <3>3, <4>1, <4>3, <4>4
      <4>6. x = <<graph.exit, <<>>>>
        BY <1>7, <3>3, <4>3, <4>4
      <4> QED
        BY <4>2, <4>5, <4>6
    <3> QED
      BY <1>3, <3>2, <3>3
  <2>3. todo' \subseteq Nodes'
    BY <1>0, <1>3, <1>13
  <2> QED
    BY <1>0, <2>1, <2>2, <2>3 DEF StartedNotReady, u
<1>20. graph' \in Graphs /\ ~ error'
  BY <1>0, <1>2
<1> QED
  BY <1>0, <1>14, <1>15, <1>16, <1>17, <1>18, <1>19, <1>20 DEF CountingInv

\* A session that was started and is looked at again is used.
LEMMA StartedNotNext ==
  ASSUME IInv, CountingInv, pc = "propagate", NEW size \in 1 .. MaxDimension + 1,
         InputsCounted(size), ResultsAtHand(size), NEW x \in started \cap DOMAIN sessions
  PROVE  sessions[x].used \/ x[1] \notin graph.next[current[1]]
<1> DEFINE ns == graph.next[current[1]]
<1>0. ~ error /\ graph \in Graphs /\ StartedNotReady /\ size \in Nat
  BY DimensionAssumption DEF CountingInv
<1>1. sessions[x].used \/ x[1] \in {graph.entry, graph.exit}
  BY <1>0 DEF StartedNotReady
<1>2. /\ \A n \in ns, m \in results :
           /\ n \in Nodes /\ Key(n, m) = <<n, Key(n, m)[2]>> /\ Key(n, m)[2] \in Metas(Levels[n], size)
           /\ Key(n, m) \notin started
      /\ ns # {} => results # {}
      /\ graph.entry \notin ns
  BY HandedTo
<1> HIDE DEF ns
<1>3. ASSUME x[1] = graph.exit, x[1] \in ns PROVE FALSE
  <2>1. PICK m : m \in results
    BY <1>2, <1>3
  <2>2. Levels[graph.exit] = <<>>
    BY <1>0, LevelsOK DEF LevelsFit
  <2>3. Metas(<<>>, size) = {<<>>}
    <3>1. <<>> \in Seq({})
      OBVIOUS
    <3> QED
      BY <3>1, NoLevels
  <2>4. Key(graph.exit, m) = <<graph.exit, <<>>>> /\ Key(graph.exit, m) \notin started
    BY <1>2, <1>3, <2>1, <2>2, <2>3
  <2>5. x = <<graph.exit, <<>>>>
    BY <1>3, <2>2, <2>3 DEF InputsCounted
  <2> QED
    BY <2>4, <2>5
<1> QED
  BY <1>1, <1>2, <1>3 DEF ns

\* New sessions, and no other use of the old ones.
OnlyNew(ss, tt, keys) ==
  /\ DOMAIN ss \subseteq DOMAIN tt /\ DOMAIN tt \subseteq DOMAIN ss \cup keys
  /\ \A x \in DOMAIN ss : tt[x].used = ss[x].used

LEMMA SetInputsOnlyNew ==
  ASSUME NEW ss, SessionsOK(ss), NEW ns, NEW src, NEW metas
  PROVE  OnlyNew(ss, SetInputs(ss, ns, src, metas), KeysOf(ns, metas)) /\ SessionsOK(SetInputs(ss, ns, src, metas))
<1>1. SessionsOK(SetInputs(ss, ns, src, metas))
  BY SetInputsGrows DEF Grows
<1>2. DOMAIN SetInputs(ss, ns, src, metas) = DOMAIN ss \cup KeysOf(ns, metas)
  BY SetInputsDomain
<1>3. \A x \in DOMAIN ss : SetInputs(ss, ns, src, metas)[x].used = ss[x].used
  BY SetInputsOld
<1> QED
  BY <1>1, <1>2, <1>3 DEF OnlyNew

LEMMA TouchedOnlyNew ==
  ASSUME NEW ss, NEW ns, NEW metas
  PROVE  OnlyNew(ss, Touched(ss, ns, metas), KeysOf(ns, metas))
BY DEF OnlyNew, Touched, KeysOf

LEMMA OnlyNewFurther ==
  ASSUME NEW ss, NEW tt, NEW uu, NEW K, NEW L, NEW M, OnlyNew(ss, tt, K), OnlyNew(tt, uu, L), K \cup L \subseteq M
  PROVE  OnlyNew(ss, uu, M)
BY DEF OnlyNew

LEMMA FewerKeys ==
  ASSUME NEW ns, NEW metas, NEW N \in SUBSET ns, NEW M \in SUBSET metas
  PROVE  KeysOf(N, M) \subseteq KeysOf(ns, metas)
BY DEF KeysOf

LEMMA PropagateFailsCounts ==
  ASSUME IInv, CountingInv, PropagateFails
  PROVE  CountingInv'
<1> DEFINE ns == graph.next[current[1]]
           src == current[1]
           keys == KeysOf(ns, results)
<1>0. /\ pc = "propagate" /\ pc' = "start" /\ ~ error /\ error' = TRUE /\ todo' = ns
      /\ UNCHANGED <<graph, started, finished, batch, response>>
  BY DEF PropagateFails, CountingInv
<1>1. PICK size \in 1 .. MaxDimension + 1 : InputsCounted(size) /\ ResultsArrive(size) /\ ResultsAtHand(size)
  BY <1>0 DEF CountingInv
<1>2. graph \in Graphs /\ SessionsOK(sessions) /\ batch = {}
  BY <1>0, LoopFacts DEF CountingInv
<1>3. PICK n \in ns, bad \in results, before \in SUBSET ns, good \in SUBSET results :
        LET ss == SetInputs(SetInputs(sessions, before, src, results), {n}, src, good)
        IN  \/ sessions' = Touched(ss, {n}, {bad})
            \/ sessions' = SetInputs(ss, {n}, src, {bad})
  BY DEF PropagateFails
<1>4. OnlyNew(sessions, sessions', keys)
  <2> DEFINE tt == SetInputs(sessions, before, src, results)
             ss == SetInputs(tt, {n}, src, good)
  <2> HIDE DEF ns, src
  <2>1. /\ KeysOf(before, results) \subseteq keys /\ KeysOf({n}, good) \subseteq keys
        /\ KeysOf({n}, {bad}) \subseteq keys
    <3>1. /\ {n} \in SUBSET ns /\ before \in SUBSET ns /\ good \in SUBSET results /\ results \in SUBSET results
          /\ {bad} \in SUBSET results
      OBVIOUS
    <3> QED
      BY <3>1, FewerKeys
  <2> HIDE DEF keys
  <2>2. OnlyNew(sessions, tt, KeysOf(before, results)) /\ SessionsOK(tt)
    BY <1>2, SetInputsOnlyNew
  <2> HIDE DEF tt
  <2>3. OnlyNew(tt, ss, KeysOf({n}, good)) /\ SessionsOK(ss)
    BY <2>2, SetInputsOnlyNew
  <2>4. sessions' = Touched(ss, {n}, {bad}) \/ sessions' = SetInputs(ss, {n}, src, {bad})
    BY <1>3 DEF tt
  <2> HIDE DEF ss
  <2>5. OnlyNew(ss, sessions', KeysOf({n}, {bad}))
    BY <2>3, <2>4, SetInputsOnlyNew, TouchedOnlyNew
  <2>6. OnlyNew(sessions, ss, keys)
    BY <2>1, <2>2, <2>3, OnlyNewFurther
  <2> QED
    BY <2>1, <2>5, <2>6, OnlyNewFurther
<1>5. \A x \in keys : x \notin started
  <2>1. \A y \in ns, m \in results : Key(y, m) \notin started
    BY <1>0, <1>1, HandedTo
  <2> QED
    BY <2>1 DEF KeysOf
<1>6. ns \subseteq Nodes
  BY <1>0, <1>1, HandedTo
<1>7. ASSUME NEW x \in started \cap DOMAIN sessions' PROVE sessions'[x].used \/ x[1] \notin ns
  <2>1. x \in DOMAIN sessions /\ sessions'[x].used = sessions[x].used
    <3> HIDE DEF keys
    <3> QED
      BY <1>4, <1>5 DEF OnlyNew
  <2>2. sessions[x].used \/ x[1] \notin ns
    BY <1>0, <1>1, <2>1, StartedNotNext
  <2> QED
    BY <2>1, <2>2
<1>8. StartedNotReady'
  <2> HIDE DEF ns
  <2>1. Nodes' = Nodes
    BY <1>0 DEF Nodes
  <2> QED
    BY <1>0, <1>2, <1>6, <1>7, <2>1 DEF StartedNotReady
<1>9. ResponseCounted'
  BY <1>0 DEF CountingInv, ResponseCounted
<1> QED
  BY <1>0, <1>2, <1>8, <1>9 DEF CountingInv

LEMMA StartNodeCounts ==
  ASSUME IInv, CountingInv, NEW n \in todo, StartNode(n)
  PROVE  CountingInv'
<1>0. /\ pc = "start" /\ batch = {} /\ todo' = todo \ {n} /\ batch' = ReadySessions(n)
      /\ UNCHANGED <<graph, sessions, started, finished, error, pc, current, results, response>>
  BY DEF StartNode
<1>1. batch' = {s \in DOMAIN sessions : s[1] = n /\ ~ sessions[s].used /\ sessions[s].remaining = 0}
  BY <1>0 DEF ReadySessions
<1>2. StartedNotReady'
  <2>1. ASSUME NEW s \in batch' PROVE s \notin started /\ s[1] \notin todo' /\ sessions[s].remaining = 0
    <3>1. s \in DOMAIN sessions /\ s[1] = n /\ ~ sessions[s].used /\ sessions[s].remaining = 0
      BY <1>1
    <3> QED
      BY <1>0, <3>1 DEF CountingInv, StartedNotReady
  <2>2. Nodes' = Nodes
    BY <1>0 DEF Nodes
  <2> QED
    BY <1>0, <2>1, <2>2 DEF CountingInv, StartedNotReady
<1>3. ResponseCounted'
  BY <1>0 DEF CountingInv, ResponseCounted
<1>4. ASSUME ~ error
      PROVE  DynamicSize' /\ \E size \in 1 .. MaxDimension + 1 :
                               InputsCounted(size)' /\ ResultsArrive(size)' /\ ResultsAtHand(size)'
  <2>1. PICK size \in 1 .. MaxDimension + 1 : InputsCounted(size) /\ ResultsArrive(size)
    BY <1>4 DEF CountingInv
  <2>2. Delivered' = Delivered
    BY <1>0 DEF Delivered
  <2>3. Nodes' = Nodes /\ Levels' = Levels /\ EntrySession' = EntrySession
        /\ (\A names : Metas(names, size)' = Metas(names, size))
        /\ (\A x : Expected(x, size)' = Expected(x, size)) /\ (\A k, r : InputOf(k, r)' = InputOf(k, r))
    BY <1>0, SameGraph
  <2>4. \A x : Missing(x, size)' = Missing(x, size)
    BY <1>0, <2>2, SameMissing
  <2>5. InputsCounted(size)'
    <3>1. \A x : {InputOf(x[1], r)' : r \in Expected(x, size)' \ Missing(x, size)'} =
                 {InputOf(x[1], r) : r \in Expected(x, size) \ Missing(x, size)}
      BY <2>3, <2>4
    <3>2. \A s \in DOMAIN sessions' :
            /\ sessions'[s].remaining = Cardinality(Missing(s, size)')
            /\ sessions'[s].inputs = {InputOf(s[1], r)' : r \in Expected(s, size)' \ Missing(s, size)'}
      BY <1>0, <2>1, <2>4, <3>1 DEF InputsCounted
    <3>3. /\ \A s \in DOMAIN sessions' \cup started' :
               s[1] \in Nodes' /\ s = <<s[1], s[2]>> /\ s[2] \in Metas(Levels[s[1]], size)'
          /\ \A s \in DOMAIN sessions' \ started' : Missing(s, size)' # Expected(s, size)' /\ ~ sessions'[s].used
          /\ \A s \in started' : Missing(s, size)' = {}
      BY <1>0, <2>1, <2>3, <2>4 DEF InputsCounted
    <3> QED
      BY <3>2, <3>3 DEF InputsCounted
  <2>6. ResultsArrive(size)'
    <3>1. ASSUME NEW s \in DOMAIN sessions, sessions[s].remaining = 0
          PROVE  s \in started \/ s[1] \in todo' \/ s \in batch'
      <4>1. s \in started \/ s[1] \in todo
        BY <1>0, <2>1, <3>1 DEF ResultsArrive
      <4>2. s \notin started => ~ sessions[s].used
        BY <2>1 DEF InputsCounted
      <4> QED
        BY <1>0, <1>1, <3>1, <4>1, <4>2
    <3>2. \A k \in Nodes' : \A m \in Metas(Levels[k], size)' :
            Missing(<<k, m>>, size)' # Expected(<<k, m>>, size)' => <<k, m>> \in DOMAIN sessions' \cup started'
      BY <1>0, <2>1, <2>3, <2>4 DEF ResultsArrive
    <3> QED
      BY <1>0, <2>1, <2>3, <3>1, <3>2 DEF ResultsArrive
  <2>7. DynamicSize'
    BY <1>0, <1>4, <2>2, <2>3 DEF CountingInv, DynamicSize
  <2>8. ResultsAtHand(size)'
    BY <1>0 DEF ResultsAtHand
  <2> QED
    BY <2>5, <2>6, <2>7, <2>8
<1> QED
  BY <1>0, <1>2, <1>3, <1>4 DEF CountingInv

\* What starting session s does to the sessions.
LEMMA StartSessionFields ==
  ASSUME IInv, CountingInv, NEW s \in batch, StartSession(s)
  PROVE  /\ DOMAIN sessions' = DOMAIN sessions /\ s \in DOMAIN sessions
         /\ \A x \in DOMAIN sessions : /\ sessions'[x].remaining = sessions[x].remaining
                                       /\ sessions'[x].inputs = sessions[x].inputs
                                       /\ x # s => sessions'[x].used = sessions[x].used
         /\ ~ error' => sessions'[s].used \/ Kind(s) = "exit"
<1>0. s \in DOMAIN sessions /\ SessionsOK(sessions) /\ error \in BOOLEAN
  BY LoopFacts
<1>1. CASE sessions' = sessions /\ Kind(s) = "exit"
  BY <1>0, <1>1
<1>2. CASE \E stream, infer : Use(s, stream, infer)
  <2>1. PICK stream, infer : Use(s, stream, infer)
    BY <1>2
  <2> QED
    BY <1>0, <2>1, UseMarks
<1>3. CASE error' = TRUE /\ \E used \in BOOLEAN : sessions' = [sessions EXCEPT ![s].used = used]
  <2>1. PICK used \in BOOLEAN : sessions' = [sessions EXCEPT ![s].used = used]
    BY <1>3
  <2> DEFINE r == sessions[s]
  <2>2. DOMAIN r = Fields
    BY <1>0 DEF SessionsOK
  <2> HIDE DEF r
  <2>3. [r EXCEPT !.used = used].remaining = r.remaining /\ [r EXCEPT !.used = used].inputs = r.inputs
    BY <2>2 DEF Fields
  <2>4. DOMAIN sessions' = DOMAIN sessions /\ sessions'[s] = [r EXCEPT !.used = used]
        /\ \A x \in DOMAIN sessions : x # s => sessions'[x] = sessions[x]
    BY <1>0, <2>1 DEF r
  <2>5. sessions'[s].remaining = sessions[s].remaining /\ sessions'[s].inputs = sessions[s].inputs
    BY <2>3, <2>4 DEF r
  <2> QED
    BY <1>0, <1>3, <2>4, <2>5
<1>4. \/ sessions' = sessions /\ Kind(s) = "exit"
      \/ \E stream, infer : Use(s, stream, infer)
      \/ error' = TRUE /\ \E used \in BOOLEAN : sessions' = [sessions EXCEPT ![s].used = used]
  BY DEF StartSession, ExecuteExit, ExecuteCustom, ExecuteInference, PrepareFails, InferenceRefused, ExecuteDefers
<1> QED
  BY <1>1, <1>2, <1>3, <1>4

LEMMA StartSessionCounts ==
  ASSUME IInv, CountingInv, NEW s \in batch, StartSession(s)
  PROVE  CountingInv'
<1>0. /\ pc = "start" /\ started' = started \cup {s} /\ batch' = (IF error' THEN {} ELSE batch \ {s})
      /\ error' = error \/ error' = TRUE
      /\ UNCHANGED <<graph, finished, pc, current, results, todo, response>>
  BY DEF StartSession
<1>1. /\ DOMAIN sessions' = DOMAIN sessions /\ s \in DOMAIN sessions
      /\ \A x \in DOMAIN sessions : /\ sessions'[x].remaining = sessions[x].remaining
                                    /\ sessions'[x].inputs = sessions[x].inputs
                                    /\ x # s => sessions'[x].used = sessions[x].used
      /\ ~ error' => sessions'[s].used \/ Kind(s) = "exit"
  BY StartSessionFields
<1>2. batch \subseteq DOMAIN sessions /\ error \in BOOLEAN /\ graph \in Graphs
  BY LoopFacts DEF CountingInv
<1>3. s \notin started /\ s[1] \notin todo /\ sessions[s].remaining = 0
  BY DEF CountingInv, StartedNotReady
<1>4. Nodes' = Nodes
  BY <1>0 DEF Nodes
<1>5. ASSUME ~ error
      PROVE  \E size \in 1 .. MaxDimension + 1 :
               /\ InputsCounted(size) /\ ResultsArrive(size)
               /\ s[1] \in Nodes /\ s = <<s[1], s[2]>> /\ s[2] \in Metas(Levels[s[1]], size)
               /\ Missing(s, size) = {}
  <2>1. PICK size \in 1 .. MaxDimension + 1 : InputsCounted(size) /\ ResultsArrive(size)
    BY <1>5 DEF CountingInv
  <2>2. s[1] \in Nodes /\ s = <<s[1], s[2]>> /\ s[2] \in Metas(Levels[s[1]], size)
        /\ sessions[s].remaining = Cardinality(Missing(s, size))
    BY <1>1, <2>1 DEF InputsCounted
  <2>3. IsFiniteSet(Missing(s, size))
    <3> DEFINE n == s[1]
               k == s[2]
    <3>1. n \in Nodes /\ k \in Metas(Levels[n], size) /\ s = <<n, k>> /\ size \in Nat \ {0}
      BY <2>2, DimensionAssumption
    <3> HIDE DEF n, k
    <3>2. IsFiniteSet(Missing(<<n, k>>, size))
      BY <1>2, <3>1, ExpectedFacts
    <3> QED
      BY <3>1, <3>2
  <2>4. Missing(s, size) = {}
    BY <1>3, <2>2, <2>3, FS_EmptySet
  <2> QED
    BY <2>1, <2>2, <2>4
<1>6. StartedNotReady'
  <2>1. ASSUME ~ error', NEW x \in started' \cap DOMAIN sessions'
        PROVE  sessions'[x].used \/ x[1] \in {graph.entry, graph.exit}
    <3>1. CASE x = s
      <4>1. Kind(s) = "exit" => s[1] = graph.exit
        <5>1. ~ error
          BY <1>0, <2>1
        <5>2. s[1] \in Nodes
          BY <1>5, <5>1
        <5> QED
          BY <1>2, <5>2, GraphFacts DEF Kind
      <4> QED
        BY <1>1, <2>1, <3>1, <4>1
    <3>2. CASE x # s
      BY <1>0, <1>1, <2>1, <3>2 DEF CountingInv, StartedNotReady
    <3> QED
      BY <3>1, <3>2
  <2>2. ASSUME NEW x \in started' \cap DOMAIN sessions' PROVE sessions'[x].used \/ x[1] \notin todo
    <3>1. CASE x = s
      BY <1>3, <3>1
    <3>2. CASE x # s
      BY <1>0, <1>1, <3>2 DEF CountingInv, StartedNotReady
    <3> QED
      BY <3>1, <3>2
  <2>3. ASSUME NEW x \in batch' PROVE x \notin started' /\ x[1] \notin todo /\ sessions'[x].remaining = 0
    <3>1. x \in batch /\ x # s
      BY <1>0
    <3> QED
      BY <1>0, <1>1, <1>2, <3>1 DEF CountingInv, StartedNotReady
  <2> QED
    BY <1>0, <1>4, <2>1, <2>2, <2>3 DEF CountingInv, StartedNotReady
<1>7. ResponseCounted'
  BY <1>0 DEF CountingInv, ResponseCounted
<1>8. ASSUME ~ error'
      PROVE  DynamicSize' /\ \E size \in 1 .. MaxDimension + 1 :
                               InputsCounted(size)' /\ ResultsArrive(size)' /\ ResultsAtHand(size)'
  <2>0. ~ error
    BY <1>0, <1>8
  <2>1. PICK size \in 1 .. MaxDimension + 1 :
          /\ InputsCounted(size) /\ ResultsArrive(size)
          /\ s[1] \in Nodes /\ s = <<s[1], s[2]>> /\ s[2] \in Metas(Levels[s[1]], size)
          /\ Missing(s, size) = {}
    BY <1>5, <2>0
  <2>2. Delivered' = Delivered
    BY <1>0 DEF Delivered
  <2>3. Levels' = Levels /\ EntrySession' = EntrySession
        /\ (\A names : Metas(names, size)' = Metas(names, size))
        /\ (\A x : Expected(x, size)' = Expected(x, size)) /\ (\A k, r : InputOf(k, r)' = InputOf(k, r))
    BY <1>0, SameGraph
  <2>4. \A x : Missing(x, size)' = Missing(x, size)
    BY <1>0, <2>2, SameMissing
  <2>5. InputsCounted(size)'
    <3>1. \A x : {InputOf(x[1], r)' : r \in Expected(x, size)' \ Missing(x, size)'} =
                 {InputOf(x[1], r) : r \in Expected(x, size) \ Missing(x, size)}
      BY <2>3, <2>4
    <3>2. \A x \in DOMAIN sessions' :
            /\ sessions'[x].remaining = Cardinality(Missing(x, size)')
            /\ sessions'[x].inputs = {InputOf(x[1], r)' : r \in Expected(x, size)' \ Missing(x, size)'}
      <4> SUFFICES ASSUME NEW x \in DOMAIN sessions
                   PROVE  /\ sessions'[x].remaining = Cardinality(Missing(x, size)')
                          /\ sessions'[x].inputs = {InputOf(x[1], r)' : r \in Expected(x, size)' \ Missing(x, size)'}
        BY <1>1
      <4>1. /\ sessions[x].remaining = Cardinality(Missing(x, size))
            /\ sessions[x].inputs = {InputOf(x[1], r) : r \in Expected(x, size) \ Missing(x, size)}
        BY <2>1 DEF InputsCounted
      <4> QED
        BY <1>1, <2>4, <3>1, <4>1
    <3>3. \A x \in DOMAIN sessions' \cup started' :
               x[1] \in Nodes' /\ x = <<x[1], x[2]>> /\ x[2] \in Metas(Levels[x[1]], size)'
      BY <1>0, <1>1, <1>4, <2>1, <2>3 DEF InputsCounted
    <3>4. \A x \in DOMAIN sessions' \ started' : Missing(x, size)' # Expected(x, size)' /\ ~ sessions'[x].used
      BY <1>0, <1>1, <2>1, <2>3, <2>4 DEF InputsCounted
    <3>5. \A x \in started' : Missing(x, size)' = {}
      BY <1>0, <2>1, <2>4 DEF InputsCounted
    <3> QED
      BY <3>2, <3>3, <3>4, <3>5 DEF InputsCounted
  <2>6. ResultsArrive(size)'
    <3>1. ASSUME NEW x \in DOMAIN sessions, sessions'[x].remaining = 0
          PROVE  x \in started' \/ x[1] \in todo \/ x \in batch'
      <4>1. x \in started \/ x[1] \in todo \/ x \in batch
        BY <1>0, <1>1, <2>1, <3>1 DEF ResultsArrive
      <4> QED
        BY <1>0, <1>8, <4>1
    <3>2. \A k \in Nodes' : \A m \in Metas(Levels[k], size)' :
            Missing(<<k, m>>, size)' # Expected(<<k, m>>, size)' => <<k, m>> \in DOMAIN sessions' \cup started'
      BY <1>0, <1>1, <1>4, <2>1, <2>3, <2>4 DEF ResultsArrive
    <3> QED
      BY <1>0, <1>1, <2>1, <2>3, <3>1, <3>2 DEF ResultsArrive
  <2>7. DynamicSize'
    <3>1. DynamicSize
      BY <2>0 DEF CountingInv
    <3> QED
      BY <1>0, <1>1, <1>4, <2>2, <3>1 DEF DynamicSize
  <2>8. ResultsAtHand(size)'
    BY <1>0 DEF ResultsAtHand
  <2> QED
    BY <2>5, <2>6, <2>7, <2>8
<1>9. error' \in BOOLEAN
  BY <1>0, <1>2
<1> QED
  BY <1>0, <1>2, <1>6, <1>7, <1>8, <1>9 DEF CountingInv

-----------------------------------------------------------------------------
LEMMA InitCounts ==
  ASSUME Init
  PROVE  CountingInv
<1>0. /\ graph \in Graphs /\ pc = "entry" /\ ~ error /\ DOMAIN sessions = {} /\ started = {} /\ finished = {}
      /\ batch = {} /\ todo = {} /\ response = 0 /\ Delivered = {}
  BY DEF Init, Delivered
<1>1. StartedNotReady /\ ResponseCounted /\ DynamicSize
  BY <1>0 DEF StartedNotReady, ResponseCounted, DynamicSize
<1>2. InputsCounted(1) /\ ResultsAtHand(1)
  BY <1>0 DEF InputsCounted, ResultsAtHand
<1>3. \A x : Missing(x, 1) = Expected(x, 1)
  BY <1>0 DEF Missing
<1>4. ResultsArrive(1)
  BY <1>0, <1>3 DEF ResultsArrive
<1>5. 1 \in 1 .. MaxDimension + 1
  BY DimensionAssumption
<1> QED
  BY <1>0, <1>1, <1>2, <1>4, <1>5 DEF CountingInv

LEMMA NextCounts ==
  ASSUME IInv, CountingInv, [Next]_vars
  PROVE  CountingInv'
BY ExecuteEntryCounts, PullFinishedCounts, PullAfterErrorCounts, FetchResultsCounts, FetchResultsFailsCounts,
   PropagateCounts, PropagateFailsCounts, StartNodeCounts, StartSessionCounts, StartsDoneCounts, TimeoutCounts,
   RetryCounts, RetriesDoneCounts, DisarmCounts, DisarmTimeoutCounts, DisarmsDoneCounts, CallbacksCount,
   OtherUsersCount, StutterCounts
   DEF Next, Loop, Callbacks, OtherUsers

LEMMA CountedStartsOnce ==
  ASSUME CountingInv
  PROVE  StartedOnce
BY DEF CountingInv, StartedNotReady, StartedOnce

\* When the loop returns without an error, every session there can be was started:
\* one of the first nodes of which one was not would have had all its inputs.
LEMMA EverySessionStarted ==
  ASSUME IInv, CountingInv, pc = "returned", ~ error
  PROVE  <<graph.exit, <<>>>> \in started
<1>0. graph \in Graphs /\ finished = started /\ Delivered = started
  BY DEF CountingInv, IInv, FinishedIsQuiet, Delivered
<1>1. PICK size \in 1 .. MaxDimension + 1 : InputsCounted(size) /\ ResultsArrive(size)
  BY DEF CountingInv
<1>2. size \in Nat \ {0} /\ size \in Nat
  BY DimensionAssumption
<1>3. Metas(<<>>, size) = {<<>>} /\ Levels[graph.entry] = <<>> /\ Levels[graph.exit] = <<>>
  <2>1. <<>> \in Seq({})
    OBVIOUS
  <2> QED
    BY <1>0, <2>1, NoLevels, LevelsOK DEF LevelsFit
<1>4. PICK rank \in [Nodes -> 1 .. Cardinality(Nodes)] : \A p \in Nodes : \A n \in graph.next[p] : rank[p] < rank[n]
  BY <1>0, GraphsAssumption DEF Validated, Ranks, Nodes
<1>5. Cardinality(Nodes) \in Nat
  BY <1>0, GraphFacts, FS_CardinalityType
<1> DEFINE T == {i \in Nat : \E n \in Nodes : i = rank[n] /\ \E k \in Metas(Levels[n], size) : <<n, k>> \notin started}
<1>6. ASSUME NEW n \in Nodes, NEW k \in Metas(Levels[n], size), <<n, k>> \notin started,
             \A i \in T : rank[n] <= i
      PROVE  FALSE
  <2>1. n # graph.entry
    BY <1>1, <1>3, <1>6 DEF ResultsArrive, EntrySession
  <2>2. Expected(<<n, k>>, size) # {}
    BY <1>0, <1>2, <2>1, ExpectedFacts
  <2>3. ASSUME NEW r \in Expected(<<n, k>>, size) PROVE Origin(r) \in started
    <3> DEFINE p == r[1]
               m == r[2]
    <3>1. r = <<p, m>> /\ p \in Previous(n) /\ p \in Nodes /\ m \in Metas(Leaving(graph, Levels, p), size)
      BY <1>0, <1>2, ExpectedFacts
    <3> HIDE DEF p, m
    <3>2. Origin(<<p, m>>) = <<p, Origin(<<p, m>>)[2]>> /\ Origin(<<p, m>>)[2] \in Metas(Levels[p], size)
      BY <1>0, <1>2, <3>1, OriginFacts
    <3>3. rank[p] < rank[n] /\ rank[p] \in Nat /\ rank[n] \in Nat
      BY <1>4, <1>5, <3>1 DEF Previous
    <3>4. rank[p] \notin T
      <4> HIDE DEF T
      <4> QED
        BY <1>6, <3>3
    <3>5. \A j \in Metas(Levels[p], size) : <<p, j>> \in started
      BY <3>1, <3>3, <3>4
    <3> QED
      BY <3>1, <3>2, <3>5
  <2>4. Missing(<<n, k>>, size) = {}
    BY <1>0, <2>3 DEF Missing
  <2>5. <<n, k>> \in DOMAIN sessions
    BY <1>1, <1>6, <2>2, <2>4 DEF ResultsArrive
  <2>6. sessions[<<n, k>>].remaining = 0
    BY <1>1, <2>4, <2>5, FS_EmptySet DEF InputsCounted
  <2> QED
    BY <1>1, <1>6, <2>5, <2>6 DEF ResultsArrive
<1>7. T = {}
  <2> SUFFICES ASSUME T # {} PROVE FALSE
    OBVIOUS
  <2>1. T \subseteq Nat
    OBVIOUS
  <2>2. PICK i \in T : \A j \in T : i <= j
    <3> HIDE DEF T
    <3> QED
      BY <2>1, LeastElement
  <2>3. PICK n \in Nodes : i = rank[n] /\ \E k \in Metas(Levels[n], size) : <<n, k>> \notin started
    BY <2>2
  <2> HIDE DEF T
  <2> QED
    BY <1>6, <2>2, <2>3
<1>8. graph.exit \in Nodes /\ <<>> \in Metas(Levels[graph.exit], size)
  BY <1>0, <1>3, GraphFacts
<1>9. rank[graph.exit] \in Nat
  BY <1>4, <1>5, <1>8
<1> QED
  BY <1>7, <1>8, <1>9

LEMMA CountedRespondsOnce ==
  ASSUME IInv, CountingInv
  PROVE  RespondedOnce
<1>1. StartedOnce
  BY CountedStartsOnce
<1>2. response <= 1
  BY DEF CountingInv, ResponseCounted
<1>3. ASSUME pc = "returned", ~ error PROVE response = 1
  <2>1. <<graph.exit, <<>>>> \in finished
    BY <1>3, EverySessionStarted DEF IInv, FinishedIsQuiet
  <2> QED
    BY <1>3, <2>1 DEF CountingInv, ResponseCounted
<1> QED
  BY <1>1, <1>2, <1>3 DEF RespondedOnce

(***************************************************************************)
(* The place of a shard.  Digits t[1 .. c] of a number in a base that has  *)
(* size[i] at place i: the value of the first i of them is f[i].           *)
(***************************************************************************)
Horner(size, c, t, f) ==
  /\ f \in [0 .. c -> Nat] /\ f[0] = 0
  /\ \A i \in 0 .. c - 1 : f[i + 1] = f[i] * size[i + 1] + t[i + 1]

Factors(size, c, g) ==
  /\ g[0] = 1 /\ \A i \in 0 .. c - 1 : g[i + 1] = g[i] * size[i + 1]

LEMMA Product ==
  ASSUME NEW a \in Nat, NEW b \in Nat
  PROVE  a * b \in Nat
OBVIOUS

LEMMA Carry ==
  ASSUME NEW a \in Nat, NEW b \in Nat, NEW n \in Nat, NEW x \in Nat, NEW y \in Nat, a < b, x < n
  PROVE  a * n + x < b * n + y
<1> DEFINE d == b - a - 1
<1>1. d \in Nat /\ b = a + 1 + d
  OBVIOUS
<1> HIDE DEF d
<1>2. b * n = a * n + n + d * n
  BY <1>1
<1>3. a * n \in Nat /\ d * n \in Nat /\ b * n \in Nat
  BY <1>1, Product
<1> QED
  BY <1>2, <1>3

LEMMA HornerExists ==
  ASSUME NEW c \in Nat, NEW size \in [1 .. c -> Nat], NEW t \in [1 .. c -> Nat]
  PROVE  \E f : Horner(size, c, t, f)
<1> DEFINE S == {k \in 0 .. c : \E f : Horner(size, k, t, f)}
<1>1. 0 \in S
  <2>1. Horner(size, 0, t, [i \in 0 .. 0 |-> 0])
    BY DEF Horner
  <2> QED
    BY <2>1
<1>2. ASSUME NEW k \in 0 .. c - 1, k \in S PROVE k + 1 \in S
  <2>1. PICK f : Horner(size, k, t, f)
    BY <1>2
  <2> DEFINE v == f[k] * size[k + 1] + t[k + 1]
             g == [i \in 0 .. k + 1 |-> IF i = k + 1 THEN v ELSE f[i]]
  <2>2. v \in Nat
    <3>1. f[k] \in Nat /\ size[k + 1] \in Nat /\ t[k + 1] \in Nat
      BY <2>1 DEF Horner
    <3>2. f[k] * size[k + 1] \in Nat
      BY <3>1, Product
    <3> QED
      BY <3>1, <3>2
  <2>3. v = f[k] * size[k + 1] + t[k + 1]
    OBVIOUS
  <2> HIDE DEF v
  <2>4. g \in [0 .. k + 1 -> Nat] /\ g[0] = 0 /\ g[k + 1] = v /\ \A i \in 0 .. k : g[i] = f[i]
    BY <2>1, <2>2 DEF Horner
  <2> HIDE DEF g
  <2>5. ASSUME NEW i \in 0 .. (k + 1) - 1 PROVE g[i + 1] = g[i] * size[i + 1] + t[i + 1]
    <3>1. CASE i = k
      BY <2>3, <2>4, <3>1
    <3>2. CASE i # k
      <4>1. i \in 0 .. k - 1 /\ i \in 0 .. k /\ i + 1 \in 0 .. k
        BY <3>2
      <4> QED
        BY <2>1, <2>4, <4>1 DEF Horner
    <3> QED
      BY <3>1, <3>2
  <2>6. Horner(size, k + 1, t, g)
    BY <2>4, <2>5 DEF Horner
  <2> QED
    BY <2>6
<1>3. 0 .. c \subseteq S
  <2> HIDE DEF S
  <2> QED
    BY <1>1, <1>2, InductionTo
<1>4. c \in S
  BY <1>3
<1> QED
  BY <1>4

LEMMA FactorsBound ==
  ASSUME NEW c \in Nat, NEW size \in [1 .. c -> Nat \ {0}], NEW g, Factors(size, c, g)
  PROVE  /\ \A i \in 0 .. c : g[i] \in Nat \ {0}
         /\ \A i \in 1 .. c : size[i] <= g[c]
<1> DEFINE S == {k \in 0 .. c : g[k] \in Nat \ {0} /\ \A j \in 1 .. k : size[j] <= g[k]}
<1>1. 0 \in S
  BY DEF Factors
<1>2. ASSUME NEW k \in 0 .. c - 1, k \in S PROVE k + 1 \in S
  <2>1. g[k + 1] = g[k] * size[k + 1] /\ g[k] \in Nat \ {0} /\ size[k + 1] \in Nat \ {0}
        /\ \A j \in 1 .. k : size[j] <= g[k]
    BY <1>2 DEF Factors
  <2> DEFINE a == g[k] - 1
             b == size[k + 1] - 1
  <2>2. a \in Nat /\ b \in Nat /\ g[k] = a + 1 /\ size[k + 1] = b + 1
    BY <2>1
  <2> HIDE DEF a, b
  <2>3. g[k + 1] = a * b + a + b + 1 /\ a * b \in Nat
    BY <2>1, <2>2, Product
  <2>4. g[k + 1] \in Nat \ {0} /\ g[k] <= g[k + 1] /\ size[k + 1] <= g[k + 1]
    BY <2>2, <2>3
  <2>5. \A j \in 1 .. k + 1 : size[j] <= g[k + 1]
    <3> SUFFICES ASSUME NEW j \in 1 .. k + 1 PROVE size[j] <= g[k + 1]
      OBVIOUS
    <3>1. CASE j = k + 1
      BY <2>4, <3>1
    <3>2. CASE j \in 1 .. k
      <4>1. size[j] <= g[k] /\ size[j] \in Nat
        BY <2>1, <3>2
      <4> QED
        BY <2>1, <2>4, <4>1
    <3> QED
      BY <3>1, <3>2
  <2> QED
    BY <2>4, <2>5
<1>3. 0 .. c \subseteq S
  <2> HIDE DEF S
  <2> QED
    BY <1>1, <1>2, InductionTo
<1>4. \A k \in 0 .. c : g[k] \in Nat \ {0} /\ \A j \in 1 .. k : size[j] <= g[k]
  BY <1>3
<1> QED
  BY <1>4

LEMMA HornerBound ==
  ASSUME NEW c \in Nat, NEW size \in [1 .. c -> Nat \ {0}], NEW g, Factors(size, c, g),
         NEW t \in [1 .. c -> Nat], \A i \in 1 .. c : t[i] < size[i], NEW f, Horner(size, c, t, f)
  PROVE  f[c] < g[c]
<1> DEFINE S == {k \in 0 .. c : f[k] < g[k]}
<1>0. \A i \in 0 .. c : g[i] \in Nat \ {0} /\ f[i] \in Nat
  BY FactorsBound DEF Horner
<1>1. 0 \in S
  BY DEF Factors, Horner
<1>2. ASSUME NEW k \in 0 .. c - 1, k \in S PROVE k + 1 \in S
  <2>1. /\ g[k + 1] = g[k] * size[k + 1] /\ f[k + 1] = f[k] * size[k + 1] + t[k + 1] /\ f[k] < g[k]
        /\ g[k] \in Nat /\ f[k] \in Nat /\ size[k + 1] \in Nat /\ t[k + 1] \in Nat /\ t[k + 1] < size[k + 1]
    BY <1>0, <1>2 DEF Factors, Horner
  <2>2. f[k] * size[k + 1] + t[k + 1] < g[k] * size[k + 1] + 0
    BY <2>1, Carry
  <2>3. g[k] * size[k + 1] \in Nat
    BY <2>1, Product
  <2> QED
    BY <2>1, <2>2, <2>3
<1>3. 0 .. c \subseteq S
  <2> HIDE DEF S
  <2> QED
    BY <1>1, <1>2, InductionTo
<1>4. c \in S
  BY <1>3
<1> QED
  BY <1>4

\* t is before u in the order of the places' digits, up to place i.
Earlier(t, u, i) == \E j \in 1 .. i : t[j] < u[j] /\ \A l \in 1 .. j - 1 : t[l] = u[l]
Same(t, u, i) == \A j \in 1 .. i : t[j] = u[j]

SameOrder(t, u, i, x, y) == (Earlier(t, u, i) <=> x < y) /\ (Same(t, u, i) <=> x = y)

LEMMA HornerOrder ==
  ASSUME NEW c \in Nat, NEW size \in [1 .. c -> Nat \ {0}],
         NEW t \in [1 .. c -> Nat], \A i \in 1 .. c : t[i] < size[i], NEW f, Horner(size, c, t, f),
         NEW u \in [1 .. c -> Nat], \A i \in 1 .. c : u[i] < size[i], NEW h, Horner(size, c, u, h)
  PROVE  SameOrder(t, u, c, f[c], h[c])
<1> USE DEF SameOrder
<1> DEFINE P(k) == SameOrder(t, u, k, f[k], h[k])
           S == {k \in 0 .. c : P(k)}
<1>1. 0 \in S
  <2>1. f[0] = 0 /\ h[0] = 0
    BY DEF Horner
  <2>2. ~ Earlier(t, u, 0) /\ Same(t, u, 0)
    BY DEF Earlier, Same
  <2> QED
    BY <2>1, <2>2
<1>2. ASSUME NEW k \in 0 .. c - 1, k \in S PROVE k + 1 \in S
  <2>1. /\ f[k + 1] = f[k] * size[k + 1] + t[k + 1] /\ h[k + 1] = h[k] * size[k + 1] + u[k + 1]
        /\ f[k] \in Nat /\ h[k] \in Nat /\ size[k + 1] \in Nat /\ t[k + 1] \in Nat /\ u[k + 1] \in Nat
        /\ t[k + 1] < size[k + 1] /\ u[k + 1] < size[k + 1]
    BY DEF Horner
  <2>2. P(k)
    BY <1>2
  <2>3. Same(t, u, k + 1) <=> Same(t, u, k) /\ t[k + 1] = u[k + 1]
    <3>1. 1 .. k + 1 = (1 .. k) \cup {k + 1}
      OBVIOUS
    <3> QED
      BY <3>1 DEF Same
  <2>4. Earlier(t, u, k + 1) <=> Earlier(t, u, k) \/ (Same(t, u, k) /\ t[k + 1] < u[k + 1])
    <3> DEFINE E(j) == t[j] < u[j] /\ \A l \in 1 .. j - 1 : t[l] = u[l]
    <3>1. 1 .. k + 1 = (1 .. k) \cup {k + 1} /\ (k + 1) - 1 = k
      OBVIOUS
    <3>2. E(k + 1) <=> t[k + 1] < u[k + 1] /\ Same(t, u, k)
      BY <3>1 DEF Same
    <3>3. (Earlier(t, u, k + 1) <=> \E j \in 1 .. k + 1 : E(j)) /\ (Earlier(t, u, k) <=> \E j \in 1 .. k : E(j))
      BY DEF Earlier
    <3> HIDE DEF E
    <3> QED
      BY <3>1, <3>2, <3>3
  <2>5. CASE f[k] < h[k]
    <3>1. f[k + 1] < h[k + 1]
      <4>1. f[k] * size[k + 1] + t[k + 1] < h[k] * size[k + 1] + u[k + 1]
        BY <2>1, <2>5, Carry
      <4> QED
        BY <2>1, <4>1
    <3>2. f[k + 1] \in Nat /\ h[k + 1] \in Nat
      BY DEF Horner
    <3>3. Earlier(t, u, k) /\ ~ Same(t, u, k)
      BY <2>1, <2>2, <2>5
    <3> QED
      BY <2>3, <2>4, <3>1, <3>2, <3>3
  <2>6. CASE h[k] < f[k]
    <3>1. h[k + 1] < f[k + 1]
      <4>1. h[k] * size[k + 1] + u[k + 1] < f[k] * size[k + 1] + t[k + 1]
        BY <2>1, <2>6, Carry
      <4> QED
        BY <2>1, <4>1
    <3>2. f[k + 1] \in Nat /\ h[k + 1] \in Nat
      BY DEF Horner
    <3>3. ~ Earlier(t, u, k) /\ ~ Same(t, u, k)
      BY <2>1, <2>2, <2>6
    <3> QED
      BY <2>3, <2>4, <3>1, <3>2, <3>3
  <2>7. CASE f[k] = h[k]
    <3> DEFINE b == f[k] * size[k + 1]
    <3>1. b \in Nat /\ f[k + 1] = b + t[k + 1] /\ h[k + 1] = b + u[k + 1]
      BY <2>1, <2>7, Product
    <3> HIDE DEF b
    <3>2. ~ Earlier(t, u, k) /\ Same(t, u, k)
      BY <2>1, <2>2, <2>7
    <3> QED
      BY <2>1, <2>3, <2>4, <3>1, <3>2
  <2> QED
    BY <2>1, <2>5, <2>6, <2>7
<1>3. 0 .. c \subseteq S
  <2> HIDE DEF S
  <2> QED
    BY <1>1, <1>2, InductionTo
<1>4. c \in S
  BY <1>3
<1> QED
  BY <1>4

(***************************************************************************)
(* ShardId goes from the innermost level outwards.                         *)
(***************************************************************************)
AddLevel(acc, level) == [id |-> acc.id + acc.factor * level.id, factor |-> acc.factor * level.size]
FoldOf(seq, k, f) ==
  f = [s \in SUBSET (1 .. k) |-> IF s = {} THEN [id |-> 0, factor |-> 1] ELSE AddLevel(f[s \ {Max(s)}], seq[Max(s)])]

LEMMA FoldExists ==
  ASSUME NEW seq, NEW n \in Nat
  PROVE  \E f : FoldOf(seq, n, f)
<1> DEFINE base == [id |-> 0, factor |-> 1]
           S == {k \in 0 .. n : \E f : FoldOf(seq, k, f)}
<1>1. 0 \in S
  <2>1. FoldOf(seq, 0, [s \in SUBSET (1 .. 0) |-> base])
    <3>1. \A s \in SUBSET (1 .. 0) : s = {}
      OBVIOUS
    <3> QED
      BY <3>1 DEF FoldOf
  <2> QED
    BY <2>1
<1>2. ASSUME NEW k \in 0 .. n - 1, k \in S PROVE k + 1 \in S
  <2>1. PICK f : FoldOf(seq, k, f)
    BY <1>2
  <2> HIDE DEF base
  <2> DEFINE g == [s \in SUBSET (1 .. k + 1) |->
                     IF k + 1 \in s THEN AddLevel(f[s \ {k + 1}], seq[k + 1]) ELSE f[s]]
  <2>2. ASSUME NEW s \in SUBSET (1 .. k + 1), k + 1 \in s
        PROVE  g[s] = AddLevel(g[s \ {Max(s)}], seq[Max(s)])
    <3>1. Max(s) = k + 1
      BY <2>2, MaxOfPrefix
    <3>2. s \ {k + 1} \in SUBSET (1 .. k + 1) /\ ~ (k + 1 \in s \ {k + 1})
      OBVIOUS
    <3>3. g[s \ {k + 1}] = f[s \ {k + 1}]
      BY <3>2
    <3> QED
      BY <2>2, <3>1, <3>3
  <2>3. ASSUME NEW s \in SUBSET (1 .. k + 1), k + 1 \notin s, s # {}
        PROVE  g[s] = AddLevel(g[s \ {Max(s)}], seq[Max(s)])
    <3>1. s \in SUBSET (1 .. k)
      BY <2>3
    <3>2. f[s] = AddLevel(f[s \ {Max(s)}], seq[Max(s)])
      BY <2>1, <2>3, <3>1 DEF FoldOf
    <3>3. s \ {Max(s)} \in SUBSET (1 .. k + 1) /\ k + 1 \notin s \ {Max(s)}
      BY <2>3
    <3>4. g[s \ {Max(s)}] = f[s \ {Max(s)}] /\ g[s] = f[s]
      BY <2>3, <3>3
    <3> QED
      BY <3>2, <3>4
  <2>4. g[{}] = base
    <3>1. {} \in SUBSET (1 .. k + 1) /\ {} \in SUBSET (1 .. k)
      OBVIOUS
    <3>2. g[{}] = f[{}]
      BY <3>1
    <3>3. f[{}] = base
      BY <2>1, <3>1 DEF FoldOf, base
    <3> QED
      BY <3>2, <3>3
  <2>5. g = [s \in SUBSET (1 .. k + 1) |-> IF s = {} THEN base ELSE AddLevel(g[s \ {Max(s)}], seq[Max(s)])]
    <3>1. \A s \in SUBSET (1 .. k + 1) :
            g[s] = IF s = {} THEN base ELSE AddLevel(g[s \ {Max(s)}], seq[Max(s)])
      <4> HIDE DEF g
      <4> QED
        BY <2>2, <2>3, <2>4
    <3>2. DOMAIN g = SUBSET (1 .. k + 1) /\ g = [s \in DOMAIN g |-> g[s]]
      OBVIOUS
    <3> HIDE DEF g
    <3> QED
      BY <3>1, <3>2
  <2>6. FoldOf(seq, k + 1, g)
    <3> HIDE DEF g
    <3> QED
      BY <2>5 DEF FoldOf, base
  <2>7. \E h : FoldOf(seq, k + 1, h)
    BY <2>6
  <2> QED
    BY <2>7
<1>3. 0 .. n \subseteq S
  <2> HIDE DEF S
  <2> QED
    BY <1>1, <1>2, InductionTo
<1>4. n \in S
  BY <1>3
<1> QED
  BY <1>4

ShardFold(meta, names, n, p) ==
  /\ p[0] = [id |-> 0, factor |-> 1] /\ p[n].id = ShardId(meta, names)
  /\ \A i \in 0 .. n - 1 : p[i + 1] = AddLevel(p[i], Reverse(Collapsed(meta, names))[i + 1])

LEMMA ShardIdIsFold ==
  ASSUME NEW meta, NEW names, NEW n \in Nat, DOMAIN Reverse(Collapsed(meta, names)) = 1 .. n
  PROVE  \E p : ShardFold(meta, names, n, p)
<1> DEFINE seq == Reverse(Collapsed(meta, names))
<1>1. PICK h : FoldOf(seq, n, h)
  BY FoldExists
<1>2. \E g : FoldOf(seq, n, g) /\ ShardId(meta, names) = g[1 .. n].id
  <2> HIDE DEF seq
  <2>1. DOMAIN seq = 1 .. n
    BY DEF seq
  <2>2. ShardId(meta, names) =
          FoldLeft(LAMBDA acc, level : [id |-> acc.id + acc.factor * level.id, factor |-> acc.factor * level.size],
                   [id |-> 0, factor |-> 1], seq).id
    BY DEF ShardId, seq
  <2>3. \E g : FoldOf(seq, n, g) /\
          FoldLeft(LAMBDA acc, level : [id |-> acc.id + acc.factor * level.id, factor |-> acc.factor * level.size],
                   [id |-> 0, factor |-> 1], seq) = g[1 .. n]
    BY <1>1, <2>1 DEF FoldOf, AddLevel, FoldLeft, MapThenFoldSet
  <2> QED
    BY <2>2, <2>3
<1> HIDE DEF seq
<1>3. PICK g : FoldOf(seq, n, g) /\ ShardId(meta, names) = g[1 .. n].id
  BY <1>2
<1>4. g[{}] = [id |-> 0, factor |-> 1]
  BY <1>3 DEF FoldOf
<1>5. ASSUME NEW i \in 0 .. n - 1 PROVE g[1 .. i + 1] = AddLevel(g[1 .. i], seq[i + 1])
  <2>1. (1 .. i + 1) \in SUBSET (1 .. n) /\ (1 .. i + 1) # {} /\ (1 .. i + 1) \ {i + 1} = 1 .. i
    OBVIOUS
  <2>2. Max(1 .. i + 1) = i + 1
    BY MaxOfPrefix
  <2>3. g[1 .. i + 1] = AddLevel(g[(1 .. i + 1) \ {Max(1 .. i + 1)}], seq[Max(1 .. i + 1)])
    BY <1>3, <2>1 DEF FoldOf
  <2> QED
    BY <2>1, <2>2, <2>3
<1> DEFINE p == [i \in 0 .. n |-> g[1 .. i]]
<1>6. 1 .. 0 = {} /\ 0 \in 0 .. n /\ n \in 0 .. n
  OBVIOUS
<1>7. p[0] = [id |-> 0, factor |-> 1] /\ p[n].id = ShardId(meta, names)
  BY <1>3, <1>4, <1>6
<1>8. \A i \in 0 .. n - 1 : p[i + 1] = AddLevel(p[i], seq[i + 1])
  BY <1>5
<1> HIDE DEF p
<1> QED
  BY <1>7, <1>8 DEF seq, ShardFold

\* The polynomial that both ways of adding a level compute.
LEMMA SameSum ==
  ASSUME NEW a \in Nat, NEW z \in Nat, NEW x \in Nat, NEW e \in Nat, NEW i \in Nat
  PROVE  (a * z + x) * e + i = a * (e * z) + (i + e * x)
OBVIOUS

\* The c levels that are collapsed have these sizes and indices.
CollapsedAs(meta, names, c, size, t) ==
  /\ DOMAIN Collapsed(meta, names) = 1 .. c /\ Len(Collapsed(meta, names)) = c
  /\ \A i \in 1 .. c : Collapsed(meta, names)[i].size = size[i] /\ Collapsed(meta, names)[i].id = t[i]

LEMMA ShardIdIsHorner ==
  ASSUME NEW meta, NEW names, NEW c \in Nat, NEW size \in [1 .. c -> Nat], NEW t \in [1 .. c -> Nat],
         CollapsedAs(meta, names, c, size, t), NEW f, Horner(size, c, t, f)
  PROVE  ShardId(meta, names) = f[c]
<1> DEFINE seq == Collapsed(meta, names)
           R == Reverse(seq)
<1>1. DOMAIN R = 1 .. c /\ \A i \in 1 .. c : R[i] = seq[(c - i) + 1]
  BY DEF Reverse, CollapsedAs
<1>2. PICK p : /\ p[0] = [id |-> 0, factor |-> 1] /\ p[c].id = ShardId(meta, names)
               /\ \A i \in 0 .. c - 1 : p[i + 1] = AddLevel(p[i], R[i + 1])
  <2>1. DOMAIN Reverse(Collapsed(meta, names)) = 1 .. c
    BY <1>1
  <2> HIDE DEF R, seq
  <2>2. \E p : ShardFold(meta, names, c, p)
    BY <2>1, ShardIdIsFold
  <2> QED
    BY <2>2 DEF R, seq, ShardFold
<1>3. \A i \in 1 .. c : seq[i].size = size[i] /\ seq[i].id = t[i]
  BY DEF CollapsedAs
<1> HIDE DEF R, seq
<1> DEFINE S == {k \in 0 .. c : /\ p[k].id \in Nat /\ p[k].factor \in Nat
                                /\ f[c - k] * p[k].factor + p[k].id = f[c]}
<1>4. 0 \in S
  <2>1. p[0].id = 0 /\ p[0].factor = 1 /\ c - 0 = c /\ f[c] \in Nat
    BY <1>2 DEF Horner
  <2> QED
    BY <2>1
<1>5. ASSUME NEW k \in 0 .. c - 1, k \in S PROVE k + 1 \in S
  <2> DEFINE j == c - (k + 1)
             a == f[j]
             z == size[j + 1]
             x == t[j + 1]
             e == p[k].factor
             i == p[k].id
  <2>1. j \in 0 .. c - 1 /\ j + 1 \in 1 .. c /\ c - k = j + 1 /\ k + 1 \in 1 .. c /\ (c - (k + 1)) + 1 = j + 1
    OBVIOUS
  <2>2. a \in Nat /\ z \in Nat /\ x \in Nat /\ e \in Nat /\ i \in Nat /\ f[j + 1] = a * z + x
    <3>1. e \in Nat /\ i \in Nat
      BY <1>5
    <3> HIDE DEF j
    <3> QED
      BY <2>1, <3>1 DEF Horner
  <2>3. f[j + 1] * e + i = f[c]
    BY <1>5, <2>1
  <2>4. p[k + 1] = AddLevel(p[k], seq[j + 1]) /\ seq[j + 1].size = z /\ seq[j + 1].id = x
    BY <1>1, <1>2, <1>3, <2>1
  <2>5. p[k + 1].id = i + e * x /\ p[k + 1].factor = e * z
    <3> HIDE DEF z, x, j
    <3> QED
      BY <2>4 DEF AddLevel
  <2> HIDE DEF a, z, x, e, i
  <2>6. e * x \in Nat /\ e * z \in Nat
    BY <2>2, Product
  <2>7. a * (e * z) + (i + e * x) = f[c]
    BY <2>2, <2>3, SameSum
  <2>8. f[c - (k + 1)] = a
    BY DEF a
  <2>9. p[k + 1].id \in Nat /\ p[k + 1].factor \in Nat
    <3>1. i + e * x \in Nat
      <4> DEFINE y == e * x
      <4> HIDE DEF y
      <4>1. y \in Nat /\ i \in Nat
        BY <2>2, <2>6 DEF y
      <4>2. i + y \in Nat
        BY <4>1
      <4> QED
        BY <4>2 DEF y
    <3> QED
      BY <2>5, <2>6, <3>1
  <2>10. f[c - (k + 1)] * p[k + 1].factor + p[k + 1].id = f[c]
    BY <2>5, <2>7, <2>8
  <2> HIDE DEF j
  <2> QED
    BY <2>1, <2>9, <2>10
<1>6. 0 .. c \subseteq S
  <2> HIDE DEF S
  <2> QED
    BY <1>4, <1>5, InductionTo
<1>7. c \in S
  BY <1>6
<1>8. p[c].id \in Nat /\ p[c].factor \in Nat /\ f[c - c] * p[c].factor + p[c].id = f[c] /\ c - c = 0 /\ f[0] = 0
  BY <1>7 DEF Horner
<1> QED
  BY <1>2, <1>8

\* The same, for digits given as one fact.
DigitsOf(c, size, t) == c \in Nat /\ size \in [1 .. c -> Nat] /\ t \in [1 .. c -> Nat]

LEMMA ShardIdOfDigits ==
  ASSUME NEW meta, NEW names, NEW c, NEW size, NEW t, NEW f,
         DigitsOf(c, size, t), CollapsedAs(meta, names, c, size, t), Horner(size, c, t, f)
  PROVE  ShardId(meta, names) = f[c]
<1>1. c \in Nat /\ size \in [1 .. c -> Nat] /\ t \in [1 .. c -> Nat]
  BY DEF DigitsOf
<1> QED
  BY <1>1, ShardIdIsHorner

\* The value of the digits t.
Value(size, c, t) == (CHOOSE f : Horner(size, c, t, f))[c]
Digits(size, c) == {t \in [1 .. c -> Nat] : \A i \in 1 .. c : t[i] < size[i]}

LEMMA ValueIsHorner ==
  ASSUME NEW c \in Nat, NEW size \in [1 .. c -> Nat \ {0}], NEW t \in Digits(size, c)
  PROVE  \E f : Horner(size, c, t, f) /\ Value(size, c, t) = f[c] /\ f[c] \in Nat
<1> DEFINE f == CHOOSE f : Horner(size, c, t, f)
<1>1. size \in [1 .. c -> Nat] /\ t \in [1 .. c -> Nat]
  BY DEF Digits
<1>2. \E h : Horner(size, c, t, h)
  BY <1>1, HornerExists
<1>3. Horner(size, c, t, f)
  BY <1>2
<1>4. Value(size, c, t) = f[c]
  BY DEF Value
<1> HIDE DEF f
<1>5. f[c] \in Nat
  BY <1>3 DEF Horner
<1> QED
  BY <1>3, <1>4, <1>5

LEMMA ValueOrder ==
  ASSUME NEW c \in Nat, NEW size \in [1 .. c -> Nat \ {0}], NEW t \in Digits(size, c), NEW u \in Digits(size, c)
  PROVE  /\ Value(size, c, t) \in Nat /\ Value(size, c, u) \in Nat
         /\ Earlier(t, u, c) <=> Value(size, c, t) < Value(size, c, u)
         /\ Value(size, c, t) = Value(size, c, u) => t = u
<1>1. PICK f : Horner(size, c, t, f) /\ Value(size, c, t) = f[c] /\ f[c] \in Nat
  BY ValueIsHorner
<1>2. PICK h : Horner(size, c, u, h) /\ Value(size, c, u) = h[c] /\ h[c] \in Nat
  BY ValueIsHorner
<1>3. /\ t \in [1 .. c -> Nat] /\ \A i \in 1 .. c : t[i] < size[i]
      /\ u \in [1 .. c -> Nat] /\ \A i \in 1 .. c : u[i] < size[i]
  BY DEF Digits
<1>4. (Earlier(t, u, c) <=> f[c] < h[c]) /\ (Same(t, u, c) <=> f[c] = h[c])
  <2>1. SameOrder(t, u, c, f[c], h[c])
    BY <1>1, <1>2, <1>3, HornerOrder
  <2> QED
    BY <2>1 DEF SameOrder
<1>5. Same(t, u, c) => t = u
  BY <1>3 DEF Same
<1> QED
  BY <1>1, <1>2, <1>4, <1>5

LEMMA ValueBound ==
  ASSUME NEW c \in Nat, NEW size \in [1 .. c -> Nat \ {0}], NEW g, Factors(size, c, g), NEW t \in Digits(size, c)
  PROVE  Value(size, c, t) \in Nat /\ g[c] \in Nat /\ Value(size, c, t) < g[c]
<1>1. PICK f : Horner(size, c, t, f) /\ Value(size, c, t) = f[c] /\ f[c] \in Nat
  BY ValueIsHorner
<1>2. f[c] < g[c]
  <2>1. t \in [1 .. c -> Nat] /\ \A i \in 1 .. c : t[i] < size[i]
    BY DEF Digits
  <2> QED
    BY <1>1, <2>1, HornerBound
<1>3. g[c] \in Nat
  BY FactorsBound
<1> QED
  BY <1>1, <1>2, <1>3

\* As many tuples of indices are before u as the value of u, if each value is that of a tuple.
TuplesBefore(size, c, N, u) ==
  {t \in [1 .. c -> 0 .. N] : (\A i \in 1 .. c : t[i] < size[i]) /\ Earlier(t, u, c)}
AllValues(size, c, N) ==
  /\ \A i \in 1 .. c : size[i] <= N
  /\ \A v \in 0 .. N - 1 : \E t \in Digits(size, c) : Value(size, c, t) = v

LEMMA RowMajor ==
  ASSUME NEW c \in Nat, NEW size \in [1 .. c -> Nat \ {0}], NEW N \in Nat, AllValues(size, c, N),
         NEW u \in Digits(size, c), Value(size, c, u) < N
  PROVE  Cardinality(TuplesBefore(size, c, N, u)) = Value(size, c, u)
<1> USE DEF AllValues, TuplesBefore
<1> DEFINE X == {t \in [1 .. c -> 0 .. N] : (\A i \in 1 .. c : t[i] < size[i]) /\ Earlier(t, u, c)}
           w == Value(size, c, u)
           F == [t \in X |-> Value(size, c, t)]
<1>0. w \in Nat
  BY ValueOrder
<1>1. \A t \in X : t \in Digits(size, c) /\ Earlier(t, u, c)
  BY DEF Digits
<1>2. ASSUME NEW t \in Digits(size, c), Earlier(t, u, c) PROVE t \in X
  <2>1. t \in [1 .. c -> Nat] /\ \A i \in 1 .. c : t[i] < size[i]
    BY DEF Digits
  <2>2. \A i \in 1 .. c : t[i] \in 0 .. N
    BY <2>1
  <2>3. t \in [1 .. c -> 0 .. N]
    BY <2>1, <2>2
  <2> QED
    BY <1>2, <2>1, <2>3
<1> HIDE DEF X
<1>3. \A t \in X : F[t] \in 0 .. w - 1
  <2> SUFFICES ASSUME NEW t \in X PROVE Value(size, c, t) \in 0 .. w - 1
    OBVIOUS
  <2> QED
    BY <1>0, <1>1, ValueOrder
<1>4. \A s, t \in X : F[s] = F[t] => s = t
  BY <1>1, ValueOrder
<1>5. ASSUME NEW v \in 0 .. w - 1 PROVE \E t \in X : F[t] = v
  <2>1. v \in 0 .. N - 1
    BY <1>0
  <2>2. PICK t \in Digits(size, c) : Value(size, c, t) = v
    BY <2>1
  <2>3. Earlier(t, u, c)
    BY <1>0, <2>2, ValueOrder
  <2> QED
    BY <1>2, <2>2, <2>3
<1>6. F \in [X -> 0 .. w - 1]
  BY <1>3
<1> HIDE DEF F, w
<1>7. F \in Injection(X, 0 .. w - 1) /\ F \in Surjection(X, 0 .. w - 1)
  BY <1>4, <1>5, <1>6 DEF Injection, Surjection, IsInjective
<1>8. IsFiniteSet(0 .. w - 1) /\ Cardinality(0 .. w - 1) = w
  <2>1. 0 \in Int /\ w - 1 \in Int
    BY <1>0
  <2>2. IsFiniteSet(0 .. w - 1) /\ Cardinality(0 .. w - 1) = IF 0 > w - 1 THEN 0 ELSE (w - 1) - 0 + 1
    BY <2>1, FS_Interval
  <2> QED
    BY <1>0, <2>2
<1>9. Cardinality(X) = w
  BY <1>7, <1>8, FS_Injection
<1> QED
  BY <1>9 DEF X, w

(***************************************************************************)
(* The shards that a session gathers.                                      *)
(***************************************************************************)
\* The levels that node n collapses of the results of node p: how many come before
\* them, how many they are, their sizes, and the shard of m at each.
KeptLevels(n, p) == Len(Leaving(graph, Levels, p)) - Cardinality(graph.gather[n])
Depth(n) == Cardinality(graph.gather[n])
Sizes(n, p, size) == [i \in 1 .. Depth(n) |-> Shards(Leaving(graph, Levels, p)[KeptLevels(n, p) + i], size)]
Ids(n, p, m) == [i \in 1 .. Depth(n) |-> m[KeptLevels(n, p) + i].id]
Gathered(n, p, k, size) ==
  Beginning(Leaving(graph, Levels, p), size, k, Len(Leaving(graph, Levels, p)))

LEMMA CollapsedLevels ==
  ASSUME graph \in Graphs, NEW size \in Nat \ {0}, NEW n \in Nodes, NEW p \in Previous(n),
         NEW m \in Metas(Leaving(graph, Levels, p), size)
  PROVE  LET levels == Collapsed(m, graph.gather[n])
             t == Ids(n, p, m)
             sz == Sizes(n, p, size)
         IN  /\ Depth(n) \in Nat /\ DOMAIN levels = 1 .. Depth(n) /\ Len(levels) = Depth(n)
             /\ sz \in [1 .. Depth(n) -> Nat \ {0}] /\ t \in Digits(sz, Depth(n))
             /\ \A i \in 1 .. Depth(n) : levels[i].size = sz[i] /\ levels[i].id = t[i]
             /\ \A i \in 1 .. Depth(n) :
                  m[KeptLevels(n, p) + i] = Level(Leaving(graph, Levels, p)[KeptLevels(n, p) + i], t[i], sz[i])
<1> DEFINE out == Leaving(graph, Levels, p)
           g == graph.gather[n]
           c == Depth(n)
           kept == KeptLevels(n, p)
           D == Demultiplexers(graph)
           levels == Collapsed(m, g)
<1>1. /\ out \in Seq(D) /\ kept \in 0 .. Len(out) /\ Len(out) \in Nat /\ c \in Nat /\ kept = Len(out) - c
  BY EdgeFacts DEF KeptLevels, Depth
<1>2. Len(m) = Len(out)
  BY KeyOf
<1>3. \A d \in D : Shards(d, size) \in Nat \ {0}
  BY ShardsOK
<1>4. m \in Metas(out, size)
  OBVIOUS
<1>5. levels = SubSeq(m, Len(out) - c + 1, Len(out))
  BY <1>2 DEF Collapsed, Depth
<1> HIDE DEF out, D, levels, c
<1>6. DOMAIN levels = 1 .. c /\ Len(levels) = c /\ \A i \in 1 .. c : levels[i] = m[kept + i]
  <2> DEFINE U == UNION {LevelsOf(d, size) : d \in Range(out)}
  <2>1. m \in Seq(U)
    BY <1>1, <1>4, MetaIsSequence
  <2> DEFINE a == Len(out) - c + 1
             b == Len(out)
  <2>2. levels = SubSeq(m, a, b)
    BY <1>5
  <2>3. a \in 1 .. b + 1 /\ b \in Nat /\ Len(m) = b /\ a \in Nat /\ b - a + 1 = c /\ kept = a - 1
    BY <1>1, <1>2
  <2> HIDE DEF U, a, b, kept
  <2>4. /\ DOMAIN SubSeq(m, a, b) = 1 .. b - a + 1 /\ Len(SubSeq(m, a, b)) = b - a + 1
        /\ \A i \in 1 .. b - a + 1 : SubSeq(m, a, b)[i] = m[a + i - 1]
    BY <2>1, <2>3
  <2>5. \A i \in 1 .. c : a + i - 1 = kept + i
    BY <1>1, <2>3
  <2> QED
    BY <2>2, <2>3, <2>4, <2>5
<1>7. ASSUME NEW i \in 1 .. c
      PROVE  /\ Shards(out[kept + i], size) \in Nat \ {0}
             /\ m[kept + i].size = Shards(out[kept + i], size)
             /\ m[kept + i].id \in Nat /\ m[kept + i].id < m[kept + i].size
             /\ m[kept + i] = Level(out[kept + i], m[kept + i].id, Shards(out[kept + i], size))
  <2> DEFINE j == kept + i
             d == out[j]
             z == Shards(d, size)
  <2>1. j \in DOMAIN out
    BY <1>1
  <2>2. m[j] \in LevelsOf(d, size) /\ d \in D
    BY <1>1, <1>4, <2>1, MetaForm
  <2>3. z \in Nat \ {0}
    BY <1>3, <2>2
  <2>4. LevelsOf(d, size) = {Level(d, id, z) : id \in 0 .. z - 1}
    BY DEF LevelsOf
  <2> HIDE DEF z, d, j
  <2>5. PICK id \in 0 .. z - 1 : m[j] = Level(d, id, z)
    BY <2>2, <2>4
  <2>6. m[j].id = id /\ m[j].size = z
    BY <2>5 DEF Level
  <2>7. id \in Nat /\ id < z
    BY <2>3
  <2>8. m[j] = Level(d, m[j].id, z) /\ m[j].id \in Nat /\ m[j].id < m[j].size
    BY <2>5, <2>6, <2>7
  <2> QED
    BY <2>3, <2>6, <2>8 DEF z, d, j
<1> HIDE DEF kept
<1>8. Sizes(n, p, size) = [i \in 1 .. c |-> Shards(out[kept + i], size)] /\ Ids(n, p, m) = [i \in 1 .. c |-> m[kept + i].id]
  BY DEF Sizes, Ids, c, kept, out
<1>9. /\ Sizes(n, p, size) \in [1 .. c -> Nat \ {0}] /\ Ids(n, p, m) \in [1 .. c -> Nat]
      /\ \A i \in 1 .. c : Sizes(n, p, size)[i] = Shards(out[kept + i], size) /\ Ids(n, p, m)[i] = m[kept + i].id
  BY <1>7, <1>8
<1>10. Ids(n, p, m) \in Digits(Sizes(n, p, size), c)
  BY <1>7, <1>9 DEF Digits
<1>11. \A i \in 1 .. c : levels[i].size = Sizes(n, p, size)[i] /\ levels[i].id = Ids(n, p, m)[i]
  BY <1>6, <1>7, <1>9
<1>12. \A i \in 1 .. c : m[kept + i] = Level(out[kept + i], Ids(n, p, m)[i], Sizes(n, p, size)[i])
  BY <1>7, <1>9
<1> QED
  BY <1>1, <1>6, <1>9, <1>10, <1>11, <1>12 DEF c, kept, out, levels

\* How the shards of a session are numbered, and how many they are.
LEMMA ShardNumber ==
  ASSUME graph \in Graphs, NEW size \in Nat \ {0}, NEW n \in Nodes, NEW p \in Previous(n),
         NEW m \in Metas(Leaving(graph, Levels, p), size)
  PROVE  /\ ShardId(m, graph.gather[n]) = Value(Sizes(n, p, size), Depth(n), Ids(n, p, m))
         /\ \E g : Factors(Sizes(n, p, size), Depth(n), g) /\ g[Depth(n)] = CollapsedSize(m, graph.gather[n])
<1> DEFINE names == graph.gather[n]
           levels == Collapsed(m, names)
           c == Depth(n)
           t == Ids(n, p, m)
           sz == Sizes(n, p, size)
<1>1. /\ c \in Nat /\ DOMAIN levels = 1 .. c /\ Len(levels) = c
      /\ sz \in [1 .. c -> Nat \ {0}] /\ t \in Digits(sz, c)
      /\ \A i \in 1 .. c : levels[i].size = sz[i] /\ levels[i].id = t[i]
  BY CollapsedLevels
<1> HIDE DEF c, t, sz, names
<1>2. PICK f : Horner(sz, c, t, f) /\ Value(sz, c, t) = f[c]
  BY <1>1, ValueIsHorner
<1>3. ShardId(m, names) = f[c]
  <2>1. sz \in [1 .. c -> Nat] /\ t \in [1 .. c -> Nat]
    BY <1>1 DEF Digits
  <2>2. DOMAIN Collapsed(m, names) = 1 .. c /\ Len(Collapsed(m, names)) = c /\ c \in Nat
    BY <1>1
  <2>3. \A i \in 1 .. c : Collapsed(m, names)[i].size = sz[i] /\ Collapsed(m, names)[i].id = t[i]
    BY <1>1
  <2>4. CollapsedAs(m, names, c, sz, t)
    BY <2>2, <2>3 DEF CollapsedAs
  <2> HIDE DEF levels
  <2>5. DigitsOf(c, sz, t)
    BY <2>1, <2>2 DEF DigitsOf
  <2>6. Horner(sz, c, t, f)
    BY <1>2
  <2> QED
    BY <2>4, <2>5, <2>6, ShardIdOfDigits
<1>4. \E g : Factors(sz, c, g) /\ g[c] = CollapsedSize(m, names)
  <2>1. PICK g : /\ g[0] = 1 /\ g[c] = CollapsedSize(m, names)
                 /\ \A i \in 0 .. c - 1 : g[i + 1] = g[i] * Collapsed(m, names)[i + 1].size
    <3>1. DOMAIN Collapsed(m, names) = 1 .. c /\ c \in Nat
      BY <1>1
    <3> HIDE DEF levels
    <3>2. \E g : /\ g[0] = 1 /\ g[c] = CollapsedSize(m, names)
                 /\ \A i \in 0 .. c - 1 : g[i + 1] = g[i] * Collapsed(m, names)[i + 1].size
      BY <3>1, CollapsedSizeIsProduct
    <3> QED
      BY <3>2
  <2>2. ASSUME NEW i \in 0 .. c - 1 PROVE g[i + 1] = g[i] * sz[i + 1]
    <3>1. i + 1 \in 1 .. c
      BY <1>1
    <3> QED
      BY <1>1, <2>1, <3>1
  <2>3. Factors(sz, c, g)
    BY <2>1, <2>2 DEF Factors
  <2> QED
    BY <2>1, <2>3
<1> QED
  BY <1>2, <1>3, <1>4 DEF c, t, sz, names

LEMMA GatheredMetas ==
  ASSUME graph \in Graphs, NEW size \in Nat \ {0}, NEW n \in Nodes, NEW p \in Previous(n), NEW k \in Metas(Levels[n], size)
  PROVE  LET B == Gathered(n, p, k, size)
             out == Leaving(graph, Levels, p)
         IN  /\ B # {} /\ out \in Seq(Demultiplexers(graph)) /\ KeptLevels(n, p) \in 0 .. Len(out)
             /\ k \in Metas(SubSeq(out, 1, KeptLevels(n, p)), size) /\ Len(out) - KeptLevels(n, p) = Depth(n)
             /\ \A m \in B : m \in Metas(out, size) /\ SubSeq(m, 1, KeptLevels(n, p)) = k
<1> DEFINE out == Leaving(graph, Levels, p)
           kept == KeptLevels(n, p)
           D == Demultiplexers(graph)
           B == Gathered(n, p, k, size)
<1>1. /\ out \in Seq(D) /\ kept \in 0 .. Len(out) /\ Len(out) \in Nat /\ Levels[n] = SubSeq(out, 1, kept)
      /\ Len(out) - kept = Depth(n)
  BY EdgeFacts DEF KeptLevels, Depth
<1>2. k \in Metas(SubSeq(out, 1, kept), size)
  BY <1>1
<1>3. PICK m \in Metas(out, size) : Key(n, m) = <<n, k>>
  BY MetaExtends
<1>4. Key(n, m) = <<n, SubSeq(m, 1, kept)>>
  BY KeyOf DEF KeptLevels
<1>5. B = {x \in Metas(SubSeq(out, 1, Len(out)), size) : SubSeq(x, 1, Len(k)) = k}
  BY DEF Gathered, Beginning
<1> HIDE DEF out, kept, D, B
<1>6. Len(k) = kept
  BY <1>1, <1>2, OneBeginning
<1>7. SubSeq(out, 1, Len(out)) = out
  BY <1>1
<1>8. SubSeq(m, 1, kept) = k
  BY <1>3, <1>4
<1>9. m \in B
  BY <1>3, <1>5, <1>6, <1>7, <1>8
<1>10. \A x \in B : x \in Metas(out, size) /\ SubSeq(x, 1, kept) = k
  BY <1>5, <1>6, <1>7
<1> QED
  BY <1>1, <1>2, <1>9, <1>10 DEF B, out, kept, D

LEMMA GatheredCounted ==
  ASSUME graph \in Graphs, NEW size \in Nat \ {0}, NEW n \in Nodes, NEW p \in Previous(n), NEW k \in Metas(Levels[n], size),
         NEW m \in Gathered(n, p, k, size)
  PROVE  IsFiniteSet(Gathered(n, p, k, size)) /\ Cardinality(Gathered(n, p, k, size)) = CollapsedSize(m, graph.gather[n])
<1> DEFINE out == Leaving(graph, Levels, p)
           kept == KeptLevels(n, p)
<1>1. \A y \in Gathered(n, p, k, size) : y \in Metas(out, size) /\ SubSeq(y, 1, kept) = k
  BY GatheredMetas
<1>2. m \in Metas(out, size) /\ SubSeq(m, 1, kept) = k
  <2> HIDE DEF out, kept
  <2> QED
    BY <1>1
<1>3. LET B == Beginning(out, size, SubSeq(m, 1, kept), Len(out))
      IN  IsFiniteSet(B) /\ Cardinality(B) = CollapsedSize(m, graph.gather[n])
  BY <1>2, BeginningSized DEF KeptLevels
<1>4. Gathered(n, p, k, size) = Beginning(out, size, k, Len(out))
  BY DEF Gathered
<1> HIDE DEF out, kept
<1> QED
  BY <1>2, <1>3, <1>4

\* Two shards of a session have different numbers.
LEMMA ShardsDiffer ==
  ASSUME graph \in Graphs, NEW size \in Nat \ {0}, NEW n \in Nodes, NEW p \in Previous(n), NEW k \in Metas(Levels[n], size),
         NEW m \in Gathered(n, p, k, size), NEW x \in Gathered(n, p, k, size),
         ShardId(m, graph.gather[n]) = ShardId(x, graph.gather[n])
  PROVE  m = x
<1> DEFINE out == Leaving(graph, Levels, p)
           kept == KeptLevels(n, p)
           D == Demultiplexers(graph)
           c == Depth(n)
           sz == Sizes(n, p, size)
<1>1. /\ out \in Seq(D) /\ kept \in 0 .. Len(out) /\ Len(out) - kept = c
      /\ m \in Metas(out, size) /\ SubSeq(m, 1, kept) = k /\ x \in Metas(out, size) /\ SubSeq(x, 1, kept) = k
  <2>1. out \in Seq(D) /\ kept \in 0 .. Len(out) /\ Len(out) - kept = c
    BY GatheredMetas
  <2>2. \A y \in Gathered(n, p, k, size) : y \in Metas(out, size) /\ SubSeq(y, 1, kept) = k
    BY GatheredMetas
  <2> HIDE DEF out, kept
  <2> QED
    BY <2>1, <2>2
<1>2. /\ c \in Nat /\ sz \in [1 .. c -> Nat \ {0}] /\ Ids(n, p, m) \in Digits(sz, c) /\ Ids(n, p, x) \in Digits(sz, c)
      /\ \A i \in 1 .. c : m[kept + i] = Level(out[kept + i], Ids(n, p, m)[i], sz[i])
      /\ \A i \in 1 .. c : x[kept + i] = Level(out[kept + i], Ids(n, p, x)[i], sz[i])
  <2>1. m \in Metas(out, size) /\ x \in Metas(out, size)
    BY <1>1
  <2> QED
    BY <2>1, CollapsedLevels
<1>3. Value(sz, c, Ids(n, p, m)) = Value(sz, c, Ids(n, p, x))
  BY <1>1, ShardNumber
<1> HIDE DEF out, kept, D, c, sz
<1>4. Ids(n, p, m) = Ids(n, p, x)
  BY <1>2, <1>3, ValueOrder
<1>5. \A i \in 1 .. c : m[kept + i] = x[kept + i]
  BY <1>2, <1>4
<1>6. \A i \in 1 .. kept : m[i] = x[i]
  <2>1. SubSeq(m, 1, kept) = [i \in 1 .. kept |-> m[i]] /\ SubSeq(x, 1, kept) = [i \in 1 .. kept |-> x[i]]
    BY <1>1, MetaPrefix
  <2> DEFINE a == [i \in 1 .. kept |-> m[i]]
             b == [i \in 1 .. kept |-> x[i]]
  <2>2. a = b
    BY <1>1, <2>1
  <2>3. \A i \in 1 .. kept : a[i] = m[i] /\ b[i] = x[i]
    OBVIOUS
  <2> HIDE DEF a, b
  <2> QED
    BY <2>2, <2>3
<1>7. /\ m = [i \in DOMAIN out |-> m[i]] /\ x = [i \in DOMAIN out |-> x[i]]
      /\ DOMAIN m = DOMAIN out /\ DOMAIN x = DOMAIN out
  BY <1>1, MetaForm
<1>8. \A i \in DOMAIN out : m[i] = x[i]
  <2> SUFFICES ASSUME NEW i \in DOMAIN out, i > kept PROVE m[i] = x[i]
    BY <1>1, <1>6
  <2>1. i - kept \in 1 .. c /\ kept + (i - kept) = i
    BY <1>1, <1>2
  <2> QED
    BY <1>5, <2>1
<1> QED
  BY <1>7, <1>8

\* The shards of a session are numbered from 0 without a gap.
LEMMA ShardsComplete ==
  ASSUME graph \in Graphs, NEW size \in Nat \ {0}, NEW n \in Nodes, NEW p \in Previous(n), NEW k \in Metas(Levels[n], size)
  PROVE  LET B == Gathered(n, p, k, size)
         IN  /\ IsFiniteSet(B) /\ Cardinality(B) \in Nat
             /\ \A m \in B : ShardId(m, graph.gather[n]) \in 0 .. Cardinality(B) - 1
             /\ \A v \in 0 .. Cardinality(B) - 1 : \E m \in B : ShardId(m, graph.gather[n]) = v
<1> DEFINE B == Gathered(n, p, k, size)
           g == graph.gather[n]
           N == Cardinality(B)
           F == [m \in B |-> ShardId(m, g)]
<1>1. PICK m0 : m0 \in B
  BY GatheredMetas
<1>2. IsFiniteSet(B) /\ N \in Nat
  BY <1>1, GatheredCounted, FS_CardinalityType
<1>3. ASSUME NEW m \in B PROVE ShardId(m, g) \in 0 .. N - 1
  <2> DEFINE c == Depth(n)
             sz == Sizes(n, p, size)
             t == Ids(n, p, m)
  <2>1. m \in Metas(Leaving(graph, Levels, p), size)
    BY GatheredMetas
  <2>2. N = CollapsedSize(m, g)
    BY GatheredCounted
  <2>3. c \in Nat /\ sz \in [1 .. c -> Nat \ {0}] /\ t \in Digits(sz, c)
    BY <2>1, CollapsedLevels
  <2>4. ShardId(m, g) = Value(sz, c, t) /\ \E h : Factors(sz, c, h) /\ h[c] = CollapsedSize(m, g)
    BY <2>1, ShardNumber
  <2> HIDE DEF c, sz, t, g, N
  <2>5. PICK h : Factors(sz, c, h) /\ h[c] = CollapsedSize(m, g)
    BY <2>4
  <2>6. Value(sz, c, t) \in Nat /\ h[c] \in Nat /\ Value(sz, c, t) < h[c]
    BY <2>3, <2>5, ValueBound
  <2> QED
    BY <2>2, <2>4, <2>5, <2>6
<1>4. \A m, x \in B : ShardId(m, g) = ShardId(x, g) => m = x
  BY ShardsDiffer
<1> HIDE DEF B, N, g
<1>5. F \in [B -> 0 .. N - 1] /\ \A m \in B : F[m] = ShardId(m, g)
  BY <1>3
<1> HIDE DEF F
<1>6. F \in Injection(B, 0 .. N - 1)
  BY <1>4, <1>5 DEF Injection, IsInjective
<1>7. IsFiniteSet(0 .. N - 1) /\ Cardinality(0 .. N - 1) = N
  <2>1. 0 \in Int /\ N - 1 \in Int
    BY <1>2
  <2>2. IsFiniteSet(0 .. N - 1) /\ Cardinality(0 .. N - 1) = IF 0 > N - 1 THEN 0 ELSE (N - 1) - 0 + 1
    BY <2>1, FS_Interval
  <2> QED
    BY <1>2, <2>2
<1>8. F \in Surjection(B, 0 .. N - 1)
  BY <1>6, <1>7, FS_Injection DEF N
<1>9. \A v \in 0 .. N - 1 : \E m \in B : ShardId(m, g) = v
  BY <1>5, <1>8 DEF Surjection
<1> QED
  BY <1>2, <1>3, <1>9 DEF B, N, g

\* A shard is where it belongs in a tensor with the sizes of the levels as dimensions.
LEMMA ShardInPlace ==
  ASSUME graph \in Graphs, NEW size \in Nat \ {0}, NEW n \in Nodes, NEW p \in Previous(n), NEW k \in Metas(Levels[n], size),
         NEW m \in Gathered(n, p, k, size)
  PROVE  ShardId(m, graph.gather[n]) = RowMajorPosition(m, graph.gather[n])
<1> DEFINE B == Gathered(n, p, k, size)
           g == graph.gather[n]
           N == CollapsedSize(m, g)
           c == Depth(n)
           sz == Sizes(n, p, size)
           u == Ids(n, p, m)
           levels == Collapsed(m, g)
<1>1. \A x \in B : x \in Metas(Leaving(graph, Levels, p), size)
  BY GatheredMetas
<1>2. ASSUME NEW x \in B PROVE Ids(n, p, x) \in Digits(sz, c) /\ ShardId(x, g) = Value(sz, c, Ids(n, p, x))
  <2>1. x \in Metas(Leaving(graph, Levels, p), size)
    BY <1>1
  <2> QED
    BY <2>1, CollapsedLevels, ShardNumber
<1>3. /\ c \in Nat /\ Len(levels) = c /\ sz \in [1 .. c -> Nat \ {0}]
      /\ \A i \in 1 .. c : levels[i].size = sz[i] /\ levels[i].id = u[i]
  BY <1>1, CollapsedLevels
<1>4. \E h : Factors(sz, c, h) /\ h[c] = N
  BY <1>1, ShardNumber
<1>5. /\ Cardinality(B) = N /\ N \in Nat /\ ShardId(m, g) \in 0 .. N - 1
      /\ \A v \in 0 .. N - 1 : \E x \in B : ShardId(x, g) = v
  <2>1. Cardinality(B) = N
    BY GatheredCounted
  <2>2. /\ Cardinality(B) \in Nat /\ \A x \in B : ShardId(x, g) \in 0 .. Cardinality(B) - 1
        /\ \A v \in 0 .. Cardinality(B) - 1 : \E x \in B : ShardId(x, g) = v
    BY ShardsComplete
  <2> HIDE DEF N, B
  <2> QED
    BY <2>1, <2>2 DEF B
<1>6. RowMajorPosition(m, g) = Cardinality({t \in {t \in [1 .. c -> 0 .. N] : \A i \in 1 .. c : t[i] < levels[i].size} :
                                 \E i \in 1 .. c : t[i] < levels[i].id /\ \A j \in 1 .. i - 1 : t[j] = levels[j].id})
  BY <1>3 DEF RowMajorPosition
<1>7. m \in B
  OBVIOUS
<1> HIDE DEF B, g, N, c, sz, u, levels
<1>8. {t \in {t \in [1 .. c -> 0 .. N] : \A i \in 1 .. c : t[i] < levels[i].size} :
         \E i \in 1 .. c : t[i] < levels[i].id /\ \A j \in 1 .. i - 1 : t[j] = levels[j].id}
      = {t \in [1 .. c -> 0 .. N] : (\A i \in 1 .. c : t[i] < sz[i]) /\ Earlier(t, u, c)}
  <2>1. ASSUME NEW t \in [1 .. c -> 0 .. N]
        PROVE  /\ (\A i \in 1 .. c : t[i] < levels[i].size) <=> (\A i \in 1 .. c : t[i] < sz[i])
               /\ (\E i \in 1 .. c : t[i] < levels[i].id /\ \A j \in 1 .. i - 1 : t[j] = levels[j].id)
                    <=> Earlier(t, u, c)
    <3>1. \A i \in 1 .. c : \A j \in 1 .. i - 1 : j \in 1 .. c
      BY <1>3
    <3>2. (\A i \in 1 .. c : t[i] < levels[i].size) <=> (\A i \in 1 .. c : t[i] < sz[i])
      BY <1>3
    <3>3. \A i \in 1 .. c : (t[i] < levels[i].id /\ \A j \in 1 .. i - 1 : t[j] = levels[j].id)
                              <=> (t[i] < u[i] /\ \A j \in 1 .. i - 1 : t[j] = u[j])
      BY <1>3, <3>1
    <3> QED
      BY <3>2, <3>3 DEF Earlier
  <2> QED
    BY <2>1
<1>9. Cardinality({t \in [1 .. c -> 0 .. N] : (\A i \in 1 .. c : t[i] < sz[i]) /\ Earlier(t, u, c)}) = Value(sz, c, u)
  <2>1. u \in Digits(sz, c) /\ ShardId(m, g) = Value(sz, c, u)
    BY <1>2, <1>7 DEF u
  <2>2. Value(sz, c, u) < N
    BY <1>5, <2>1
  <2>3. \A v \in 0 .. N - 1 : \E t \in Digits(sz, c) : Value(sz, c, t) = v
    BY <1>2, <1>5
  <2>4. \A i \in 1 .. c : sz[i] <= N
    BY <1>3, <1>4, FactorsBound
  <2>5. AllValues(sz, c, N)
    BY <2>3, <2>4 DEF AllValues
  <2>6. Cardinality(TuplesBefore(sz, c, N, u)) = Value(sz, c, u)
    BY <1>3, <1>5, <2>1, <2>2, <2>5, RowMajor
  <2> QED
    BY <2>6 DEF TuplesBefore
<1>10. ShardId(m, g) = Value(sz, c, u)
  BY <1>2, <1>7 DEF u
<1> QED
  BY <1>6, <1>8, <1>9, <1>10 DEF g

LEMMA CountedGathersInOrder ==
  ASSUME CountingInv
  PROVE  GatheredInOrder
<1> SUFFICES ASSUME ~ error, NEW s \in DOMAIN sessions, sessions[s].remaining = 0, NEW p \in Previous(s[1])
             PROVE  LET mine == {i \in sessions[s].inputs : i.from = p}
                        shards == {i.shard : i \in mine}
                    IN /\ mine # {}
                       /\ shards = 0 .. Cardinality(mine) - 1
                       /\ \A i \in mine :
                            /\ i.shard = RowMajorPosition(i.meta, graph.gather[s[1]])
                            /\ Cardinality(mine) = CollapsedSize(i.meta, graph.gather[s[1]])
  BY DEF GatheredInOrder
<1> DEFINE n == s[1]
           k == s[2]
           g == graph.gather[n]
           mine == {i \in sessions[s].inputs : i.from = p}
           In(m) == [from |-> p, shard |-> ShardId(m, g), meta |-> m]
<1>1. graph \in Graphs
  BY DEF CountingInv
<1>2. PICK size \in 1 .. MaxDimension + 1 : InputsCounted(size)
  BY DEF CountingInv
<1>3. size \in Nat \ {0}
  BY DimensionAssumption
<1>4. /\ n \in Nodes /\ s = <<n, k>> /\ k \in Metas(Levels[n], size)
      /\ sessions[s].remaining = Cardinality(Missing(s, size))
      /\ sessions[s].inputs = {InputOf(n, r) : r \in Expected(s, size) \ Missing(s, size)}
  BY <1>2 DEF InputsCounted
<1> DEFINE B == Gathered(n, p, k, size)
<1> HIDE DEF n, k
<1>5. p \in Previous(n)
  BY DEF n
<1>6. Missing(s, size) = {}
  <2>1. IsFiniteSet(Missing(<<n, k>>, size))
    BY <1>1, <1>3, <1>4, ExpectedFacts
  <2> QED
    BY <1>4, <2>1, FS_EmptySet
<1>7. Expected(s, size) = Previous(n) \X B
  BY <1>1, <1>4, <1>5, ExpectedForm DEF Gathered
<1> HIDE DEF B
<1>8. mine = {In(m) : m \in B}
  <2>1. sessions[s].inputs = {InputOf(n, r) : r \in Previous(n) \X B}
    BY <1>4, <1>6, <1>7
  <2>2. \A q, m : InputOf(n, <<q, m>>) = [from |-> q, shard |-> ShardId(m, g), meta |-> m]
    BY DEF InputOf
  <2>3. ASSUME NEW i \in mine PROVE \E m \in B : i = In(m)
    <3>1. PICK q \in Previous(n), m \in B : i = InputOf(n, <<q, m>>)
      BY <2>1
    <3>2. q = p
      <4>1. i.from = p
        OBVIOUS
      <4>2. i = [from |-> q, shard |-> ShardId(m, g), meta |-> m]
        BY <2>2, <3>1
      <4> HIDE DEF mine
      <4> QED
        BY <4>1, <4>2
    <3> QED
      BY <2>2, <3>1, <3>2
  <2>4. ASSUME NEW m \in B PROVE In(m) \in mine
    <3>1. InputOf(n, <<p, m>>) \in sessions[s].inputs
      BY <1>5, <2>1
    <3>2. InputOf(n, <<p, m>>) = In(m)
      BY <2>2
    <3>3. In(m).from = p
      OBVIOUS
    <3> QED
      BY <3>1, <3>2, <3>3
  <2> HIDE DEF mine, In
  <2> QED
    BY <2>3, <2>4
<1>9. /\ B # {} /\ IsFiniteSet(B) /\ Cardinality(B) \in Nat
      /\ \A m \in B : ShardId(m, g) \in 0 .. Cardinality(B) - 1
      /\ \A v \in 0 .. Cardinality(B) - 1 : \E m \in B : ShardId(m, g) = v
  BY <1>1, <1>3, <1>4, <1>5, GatheredMetas, ShardsComplete DEF B
<1>10. \A m \in B : ShardId(m, g) = RowMajorPosition(m, g) /\ Cardinality(B) = CollapsedSize(m, g)
  BY <1>1, <1>3, <1>4, <1>5, ShardInPlace, GatheredCounted DEF B
<1>11. \A m : In(m).shard = ShardId(m, g) /\ In(m).meta = m
  OBVIOUS
<1> HIDE DEF mine, In, g
<1>12. Cardinality(mine) = Cardinality(B)
  <2> DEFINE F == [m \in B |-> In(m)]
  <2>1. F \in [B -> mine] /\ (\A x, y \in B : F[x] = F[y] => x = y) /\ \A i \in mine : \E m \in B : F[m] = i
    BY <1>8, <1>11
  <2> HIDE DEF F
  <2>2. F \in Bijection(B, mine)
    BY <2>1 DEF Bijection, Injection, Surjection, IsInjective
  <2>3. ExistsBijection(B, mine)
    BY <2>2 DEF ExistsBijection
  <2> QED
    BY <1>9, <2>3, FS_Bijection
<1>13. {i.shard : i \in mine} = 0 .. Cardinality(mine) - 1
  <2>1. \A i \in mine : i.shard \in 0 .. Cardinality(B) - 1
    BY <1>8, <1>9, <1>11
  <2>2. \A v \in 0 .. Cardinality(B) - 1 : \E i \in mine : i.shard = v
    BY <1>8, <1>9, <1>11
  <2> QED
    BY <1>12, <2>1, <2>2
<1>14. \A i \in mine : i.shard = RowMajorPosition(i.meta, g) /\ Cardinality(mine) = CollapsedSize(i.meta, g)
  BY <1>8, <1>10, <1>11, <1>12
<1>15. mine # {}
  BY <1>8, <1>9
<1> QED
  BY <1>13, <1>14, <1>15 DEF mine, g, n

-----------------------------------------------------------------------------
\* The inductive invariant of Pipeline::execute: the streams, events and
\* inferences of sessions, and the counting of their inputs.
THEOREM InvariantHolds == Spec => [](IInv /\ CountingInv)
<1>1. Init => IInv /\ CountingInv
  BY InitHolds, InitCounts
<1>2. IInv /\ CountingInv /\ [Next]_vars => IInv' /\ CountingInv'
  BY NextHolds, NextCounts, CountedStartsOnce
<1> QED
  BY <1>1, <1>2, PTL DEF Spec

\* No session is started twice, although one that waits for a stream or for its
\* event to be pulled has all its inputs; the exit node writes the response at
\* most once, and has written it when Pipeline::execute returns OK: the loop,
\* which only compares how many sessions are finished and started, does not
\* stop before every session of every node ran.
THEOREM ResponseIsWrittenOnce == Spec => []RespondedOnce
<1>1. IInv /\ CountingInv => RespondedOnce
  BY CountedRespondsOnce
<1> QED
  BY <1>1, InvariantHolds, PTL

\* A session that looks ready has, from each dependency, every shard once, at the
\* place that the shard has in a tensor with the sizes of the collapsed levels as
\* leading dimensions: getShardId and collapsedSessionSizes agree with each other
\* and with the count of the input handler, for nests of demultiplexers of any
\* depth and size.
THEOREM ShardsAreInOrder == Spec => []GatheredInOrder
<1>1. CountingInv => GatheredInOrder
  BY CountedGathersInOrder
<1> QED
  BY <1>1, InvariantHolds, PTL

\* Whichever way sessions end (results fetched, an error pulled, refused when
\* started or retried, disarmed), every stream is idle, with one session or with
\* another user of the model: DLNodeSession::release neither leaks a stream nor
\* gives one back twice.
THEOREM NoStreamIsLost == Spec => []StreamsReturned
<1>1. IInv => StreamsReturned
  BY DEF IInv
<1> QED
  BY <1>1, InvariantHolds, PTL

\* When Pipeline::execute returns and destroys its queue and its sessions, no
\* inference is running that would report to them, no session has or awaits a
\* stream, and after a success no callback is on its way out.
THEOREM ReturnIsQuiescent == Spec => []QuiescentReturn
<1>1. IInv => QuiescentReturn
  <2> SUFFICES ASSUME IInv, pc = "returned", NEW s \in DOMAIN sessions
               PROVE  /\ sessions[s].infer # "running" /\ sessions[s].stream \in {"none", "disarmed"}
                      /\ ~ error => sessions[s].infer # "callback"
    BY DEF QuiescentReturn
  <2>1. finished = started
    BY DEF IInv, FinishedIsQuiet
  <2>2. CASE s \in finished
    BY <2>2 DEF IInv, FinishedIsQuiet
  <2>3. CASE s \notin started
    BY <2>3 DEF IInv, UnstartedIsIdle
  <2> QED
    BY <2>1, <2>2, <2>3
<1> QED
  BY <1>1, InvariantHolds, PTL
=============================================================================
