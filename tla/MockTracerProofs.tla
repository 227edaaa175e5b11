---------------------------- MODULE MockTracerProofs ----------------------------
(***************************************************************************)
(* What a pause of the simulator guarantees, where in a pass its matrices  *)
(* are and which traces a run has, for any number of layers, of passes and *)
(* of presses of p.                                                        *)
(***************************************************************************)
EXTENDS SimulatedProfile, Lemmas

\* A stopped simulator has no thread, and one that was started has running_ set.
PausedInv ==
  /\ main = "stopped" => pc = "none"
  /\ main = "started" => running = TRUE

USE DEF threadVars, At, GoTo

\* No step gives a stopped simulator a thread.
LEMMA PausedInductive == PausedInv /\ [Next]_vars => PausedInv'
<1> SUFFICES ASSUME PausedInv, [Next]_vars
             PROVE  PausedInv'
  OBVIOUS
<1> USE DEF PausedInv
<1>1. CASE Start
  BY <1>1 DEF Start
<1>2. CASE Stop \/ Join
  BY <1>2 DEF Stop, Join
<1>3. CASE Thread
  <2>1. pc # "none" /\ main' = main /\ running' = running
    BY <1>3 DEF Thread, PublishInfo, Test, TestLayer, PublishTrace,
                PublishAttention, MayFallBack, Sleep
  <2> QED
    BY <2>1
<1>4. CASE UNCHANGED vars
  BY <1>4 DEF vars
<1> QED
  BY <1>1, <1>2, <1>3, <1>4 DEF Next

\* Without a thread nothing is published.
LEMMA SilentWhenStopped ==
  PausedInv /\ [Next]_vars => [main = "stopped" => run' = run \/ main' = "started"]_vars
<1> SUFFICES ASSUME PausedInv, Next, main = "stopped", main' # "started"
             PROVE  run' = run
  BY DEF vars
<1>1. ~Thread
  BY DEF PausedInv, Thread, PublishInfo, Test, TestLayer, PublishTrace,
         PublishAttention, MayFallBack, Sleep
<1> QED
  BY <1>1 DEF Next, Start, Stop, Join

\* Between the end of stop() (mock_tracer.cpp:44-47) and the next start() the
\* simulator publishes nothing.
THEOREM PausedTracerIsSilent == Spec => PausedMeansSilent
<1>1. Init => PausedInv
  BY DEF Init, PausedInv
<1>2. PausedInv /\ [Next]_vars => PausedInv'
  BY PausedInductive
<1> QED
  BY <1>1, <1>2, SilentWhenStopped, PTL DEF Spec, PausedMeansSilent

-----------------------------------------------------------------------------
(* Matrices.                                                               *)

\* The length of a pass, and where in it the matrices are.
LEMMA PassLength == Pass \in Seq(Range(Pass)) /\ Len(Pass) = 7 * kLayers + 3
<1>1. 7 * kLayers + 3 \in Nat
  BY MockTracerAssumption
<1>2. Pass \in [1 .. 7 * kLayers + 3 -> Range(Pass)]
  BY DEF Pass, Range
<1> QED
  BY <1>1, <1>2

Stage(i) == Pass[i][1]

\* What a position of the pass is, by its place.
LEMMA PassAt ==
  ASSUME NEW j \in 1 .. 7 * kLayers + 3
  PROVE  /\ j = 1 => Pass[j] = <<"embed_tokens", 0>>
         /\ j \in 2 .. 7 * kLayers + 1 => Pass[j] = <<Layer[((j - 2) % 7) + 1], (j - 2) \div 7>>
         /\ j = 7 * kLayers + 2 => Pass[j] = <<"norm", 0>>
         /\ j = 7 * kLayers + 3 => Pass[j] = <<"lm_head", 0>>
<1>1. kLayers \in Nat
  BY MockTracerAssumption
<1>2. CASE j = 1
  BY <1>1, <1>2 DEF Pass
<1>3. CASE j \in 2 .. 7 * kLayers + 1
  <2>1. j # 1 /\ j # 7 * kLayers + 2 /\ j # 7 * kLayers + 3
    BY <1>1, <1>3
  <2>2. Pass[j] = <<Layer[((j - 2) % 7) + 1], (j - 2) \div 7>>
    BY <1>3, <2>1 DEF Pass
  <2> QED
    BY <2>1, <2>2
<1>4. CASE j = 7 * kLayers + 2
  BY <1>1, <1>4 DEF Pass
<1>5. CASE j = 7 * kLayers + 3
  BY <1>1, <1>5 DEF Pass
<1> QED
  BY <1>1, <1>2, <1>3, <1>4, <1>5

\* Which statement of the pass is at a place (mock_tracer.cpp:89-156).
LEMMA LayerAt ==
  ASSUME NEW j \in 2 .. 7 * kLayers + 1
  PROVE  Pass[j] = <<Layer[((j - 2) % 7) + 1], (j - 2) \div 7>>
<1>1. j \in 1 .. 7 * kLayers + 3
  BY MockTracerAssumption
<1> QED
  BY <1>1, PassAt

\* A layer's matrix is the statement after its self_attn trace.
LEMMA MatrixAfterTrace ==
  ASSUME NEW i \in 1 .. Len(Pass), Stage(i) = "attention"
  PROVE  /\ i # 1 /\ i - 1 \in 1 .. Len(Pass)
         /\ Pass[i - 1] = <<"self_attn", Pass[i][2]>>
<1>1. kLayers \in Nat /\ Len(Pass) = 7 * kLayers + 3
  BY MockTracerAssumption, PassLength
<1>2. i \in 1 .. 7 * kLayers + 3
  BY <1>1
<1>3. i \in 2 .. 7 * kLayers + 1
  <2>1. i # 1 /\ i # 7 * kLayers + 2 /\ i # 7 * kLayers + 3
    BY <1>2, PassAt DEF Stage
  <2> QED
    BY <1>1, <1>2, <2>1
<1>4. Layer[((i - 2) % 7) + 1] = "attention" /\ Pass[i][2] = (i - 2) \div 7
  <2>1. Pass[i] = <<Layer[((i - 2) % 7) + 1], (i - 2) \div 7>>
    BY <1>3, LayerAt
  <2> QED
    BY <2>1 DEF Stage
<1>5. (i - 2) % 7 = 3
  <2>1. (i - 2) % 7 \in 0 .. 6
    BY <1>3
  <2> QED
    BY <1>4, <2>1 DEF Layer
<1> DEFINE j == i - 1
<1>6. j \in 2 .. 7 * kLayers + 1 /\ (j - 2) % 7 = 2 /\ (j - 2) \div 7 = (i - 2) \div 7
  BY <1>1, <1>3, <1>5
<1>7. i # 1 /\ j \in 1 .. Len(Pass)
  BY <1>1, <1>3, <1>6
<1> HIDE DEF j
<1>8. Pass[j] = <<Layer[3], (i - 2) \div 7>>
  <2>1. Pass[j] = <<Layer[((j - 2) % 7) + 1], (j - 2) \div 7>>
    BY <1>6, LayerAt
  <2>2. ((j - 2) % 7) + 1 = 3
    BY <1>6
  <2> QED
    BY <1>6, <2>1, <2>2
<1>9. Pass[j] = <<"self_attn", Pass[i][2]>>
  BY <1>4, <1>8 DEF Layer
<1> QED
  BY <1>7, <1>9 DEF j

\* While running_ is set: the thread is inside its pass, and before it sends a
\* matrix the last event of the run is the trace of the same layer.
MatrixInv ==
  /\ pc = "pass" => at \in 1 .. Len(Pass)
  /\ \E S : run \in Seq(S)
  /\ running /\ pc = "pass" /\ Stage(at) = "attention" =>
       run # <<>> /\ run[Len(run)][1] = <<"self_attn", Pass[at][2]>>
  /\ MatrixFollowsTrace

\* An event that is no matrix, or one that follows its trace, may be appended.
LEMMA MayAppend ==
  ASSUME NEW S, run \in Seq(S), NEW e, run' = Append(run, e), running' = running,
         MatrixFollowsTrace,
         running /\ e[1][1] = "attention" =>
           run # <<>> /\ run[Len(run)][1] = <<"self_attn", e[1][2]>>
  PROVE  /\ (\E T : run' \in Seq(T)) /\ run' # <<>> /\ run'[Len(run')] = e
         /\ MatrixFollowsTrace'
<1>1. run \in Seq(S \cup {e}) /\ e \in S \cup {e}
  OBVIOUS
<1>2. /\ run' \in Seq(S \cup {e}) /\ Len(run') = Len(run) + 1 /\ Len(run) \in Nat
      /\ run'[Len(run) + 1] = e /\ \A i \in 1 .. Len(run) : run'[i] = run[i]
  BY <1>1
<1>3. ASSUME running, NEW i \in 1 .. Len(run'), run'[i][1][1] = "attention"
      PROVE  i > 1 /\ run'[i - 1][1] = <<"self_attn", run'[i][1][2]>>
  <2>1. CASE i \in 1 .. Len(run)
    <3>1. run'[i] = run[i]
      BY <1>2, <2>1
    <3>2. i > 1 /\ run[i - 1][1] = <<"self_attn", run[i][1][2]>>
      BY <1>3, <2>1, <3>1 DEF MatrixFollowsTrace
    <3>3. i - 1 \in 1 .. Len(run)
      BY <1>2, <2>1, <3>2
    <3> QED
      BY <1>2, <3>1, <3>2, <3>3
  <2>2. CASE i = Len(run) + 1
    <3>1. run # <<>> /\ run[Len(run)][1] = <<"self_attn", e[1][2]>>
      BY <1>2, <1>3, <2>2
    <3>2. Len(run) > 0
      BY <1>1, <3>1
    <3> QED
      BY <1>2, <2>2, <3>1, <3>2
  <2> QED
    BY <1>2, <2>1, <2>2
<1>4. run' # <<>> /\ run'[Len(run')] = e
  BY <1>2
<1>5. MatrixFollowsTrace'
  BY <1>3 DEF MatrixFollowsTrace
<1> QED
  BY <1>2, <1>4, <1>5

\* No step separates a matrix from its trace.
LEMMA MatrixInductive == MatrixInv /\ [Next]_vars => MatrixInv'
<1> SUFFICES ASSUME MatrixInv, [Next]_vars
             PROVE  MatrixInv'
  OBVIOUS
<1> USE DEF MatrixInv
<1>1. kLayers \in Nat /\ Len(Pass) = 7 * kLayers + 3
  BY MockTracerAssumption, PassLength
<1>2. PICK S : run \in Seq(S)
  OBVIOUS
<1>3. pc = "pass" => Len(Pass) - 1 \in 1 .. Len(Pass) /\ (at + 1 <= Len(Pass) => at + 1 \in 1 .. Len(Pass))
  BY <1>1
<1>4. ASSUME pc = "pass", at + 1 <= Len(Pass), Stage(at + 1) = "attention"
      PROVE  Pass[at] = <<"self_attn", Pass[at + 1][2]>>
  <2>1. at + 1 \in 1 .. Len(Pass) /\ at + 1 - 1 = at
    BY <1>1, <1>4
  <2> QED
    BY <1>4, <2>1, MatrixAfterTrace
<1>5. CASE Start
  <2>1. pc' = "info" /\ run' = <<>>
    BY <1>5 DEF Start
  <2>2. run' \in Seq({}) /\ Len(run') = 0
    BY <2>1
  <2>3. MatrixFollowsTrace'
    BY <2>2 DEF MatrixFollowsTrace
  <2> QED
    BY <2>1, <2>2, <2>3
<1>6. CASE Stop
  BY <1>6 DEF Stop, MatrixFollowsTrace
<1>7. CASE Join \/ UNCHANGED vars
  BY <1>7 DEF Join, vars, MatrixFollowsTrace, Stage
<1>8. CASE PublishInfo
  <2> DEFINE e == <<<<"model_info", 0>>, 0>>
  <2>1. pc' = "test" /\ run' = Append(run, e) /\ running' = running /\ e[1][1] # "attention"
    BY <1>8 DEF PublishInfo
  <2> HIDE DEF e
  <2> QED
    BY <1>2, <2>1, MayAppend
<1>9. CASE Test
  <2>1. at' = 1 /\ UNCHANGED <<run, running>>
    BY <1>9 DEF Test
  <2>2. 1 \in 1 .. Len(Pass)
    BY <1>1
  <2>3. Stage(1) # "attention"
    BY <2>2, MatrixAfterTrace
  <2> QED
    BY <2>1, <2>2, <2>3 DEF MatrixFollowsTrace, Stage
<1>10. CASE Sleep
  BY <1>10 DEF Sleep, MatrixFollowsTrace
<1>11. CASE TestLayer
  <2>1. pc = "pass" /\ Stage(at) = "layer_test" /\ UNCHANGED <<run, running>>
    BY <1>11 DEF TestLayer, Stage
  <2>2. MatrixFollowsTrace'
    BY <2>1 DEF MatrixFollowsTrace
  <2>3. pc' = "pass" => at' \in 1 .. Len(Pass)
    BY <1>1, <1>3, <1>11, <2>1 DEF TestLayer
  <2>4. running' /\ pc' = "pass" => at' = at + 1 /\ at + 1 <= Len(Pass)
    BY <1>1, <1>11, <2>1 DEF TestLayer
  <2>5. running' /\ pc' = "pass" => Stage(at') # "attention"
    BY <1>4, <2>1, <2>4 DEF Stage
  <2> QED
    BY <1>2, <2>1, <2>2, <2>3, <2>5 DEF Stage
<1>12. CASE PublishTrace
  <2> DEFINE e == <<Pass[at], event_id>>
  <2>1. /\ pc = "pass" /\ Stage(at) # "attention" /\ GoTo(at + 1)
        /\ run' = IF running THEN Append(run, e) ELSE run
    BY <1>12 DEF PublishTrace, Traces, Stage
  <2>2. running' = running /\ e[1] = Pass[at] /\ e[1][1] # "attention"
    BY <2>1 DEF Stage
  <2>3. CASE running
    <3> HIDE DEF e
    <3> QED
      BY <1>1, <1>2, <1>3, <1>4, <2>1, <2>2, <2>3, MayAppend DEF Stage
  <2>4. CASE ~running
    BY <1>1, <1>2, <1>3, <2>1, <2>2, <2>4 DEF MatrixFollowsTrace
  <2> QED
    BY <2>3, <2>4
<1>13. CASE PublishAttention \/ MayFallBack
  <2> DEFINE e == <<Pass[at], 0>>
  <2>1. /\ pc = "pass" /\ Stage(at) \in {"attention", "fallback"} /\ GoTo(at + 1)
        /\ run' \in {run, Append(run, e)} /\ running' = running
    BY <1>13 DEF PublishAttention, MayFallBack, Stage
  <2>2. e[1] = Pass[at]
    OBVIOUS
  <2> HIDE DEF e
  <2>3. at + 1 <= Len(Pass) => Stage(at + 1) # "attention"
    BY <1>4, <2>1 DEF Stage
  <2>4. (\E T : run' \in Seq(T)) /\ MatrixFollowsTrace'
    <3>1. CASE run' = run
      BY <1>2, <2>1, <3>1 DEF MatrixFollowsTrace
    <3>2. CASE run' = Append(run, e)
      <4>1. running /\ e[1][1] = "attention" =>
              run # <<>> /\ run[Len(run)][1] = <<"self_attn", e[1][2]>>
        BY <2>1, <2>2 DEF Stage
      <4> QED
        BY <1>2, <2>1, <3>2, <4>1, MayAppend
    <3> QED
      BY <2>1, <3>1, <3>2
  <2>5. pc' = "pass" => at' = at + 1 /\ at + 1 <= Len(Pass)
    BY <2>1
  <2>6. pc' = "pass" => at' \in 1 .. Len(Pass) /\ Stage(at') # "attention"
    BY <1>3, <2>1, <2>3, <2>5
  <2> HIDE DEF MatrixFollowsTrace
  <2> QED
    BY <2>4, <2>6 DEF Stage
<1> QED
  BY <1>5, <1>6, <1>7, <1>8, <1>9, <1>10, <1>11, <1>12, <1>13 DEF Next, Thread

\* For any number of layers, passes and presses of p, until stop() is called an
\* attention matrix follows the trace of its layer, with no event between
\* (mock_tracer.cpp:104-136).
THEOREM MatrixAlwaysFollowsTrace == Spec => []MatrixFollowsTrace
<1>1. Init => MatrixInv
  <2> SUFFICES ASSUME Init
               PROVE  MatrixInv
    OBVIOUS
  <2>1. run = <<>> /\ run \in Seq({}) /\ Len(run) = 0 /\ pc = "none"
    BY DEF Init
  <2> QED
    BY <2>1 DEF MatrixInv, MatrixFollowsTrace
<1>2. MatrixInv /\ [Next]_vars => MatrixInv'
  BY MatrixInductive
<1>3. MatrixInv => MatrixFollowsTrace
  BY DEF MatrixInv
<1> QED
  BY <1>1, <1>2, <1>3, PTL DEF Spec

-----------------------------------------------------------------------------
(* Traces.                                                                 *)

\* The traces among the first i events of a run.
Count(s, i) == Cardinality({j \in 1 .. i : s[j][1] \in Traces})
Turn == TracesUpTo(Len(Pass))

\* The next number adds one to those that are in A, or nothing.
LEMMA OneMore ==
  ASSUME NEW A, NEW n \in Nat
  PROVE  /\ Cardinality((1 .. n) \cap A) \in Nat
         /\ Cardinality((1 .. n + 1) \cap A)
              = IF n + 1 \in A THEN Cardinality((1 .. n) \cap A) + 1
                ELSE Cardinality((1 .. n) \cap A)
<1> DEFINE S == (1 .. n) \cap A
           T == (1 .. n + 1) \cap A
<1>1. IsFiniteSet(1 .. n)
  BY FS_Interval
<1>2. IsFiniteSet(S) /\ Cardinality(S) \in Nat
  BY <1>1, FS_Subset, FS_CardinalityType
<1>3. 1 .. n + 1 = (1 .. n) \cup {n + 1} /\ n + 1 \notin 1 .. n
  OBVIOUS
<1>4. n + 1 \in A => T = S \cup {n + 1} /\ n + 1 \notin S
  BY <1>3
<1>5. n + 1 \notin A => T = S
  BY <1>3
<1> HIDE DEF S, T
<1>6. n + 1 \in A => Cardinality(T) = Cardinality(S) + 1
  BY <1>2, <1>4, FS_AddElement
<1> QED
  BY <1>2, <1>5, <1>6 DEF S, T

\* A position of the pass counts when it is a trace.
LEMMA OnePosition ==
  ASSUME NEW p \in 1 .. Len(Pass)
  PROVE  /\ TracesUpTo(p - 1) \in Nat /\ TracesUpTo(0) = 0
         /\ TracesUpTo(p) = IF Pass[p] \in Traces THEN TracesUpTo(p - 1) + 1
                            ELSE TracesUpTo(p - 1)
<1> DEFINE A == {q \in 1 .. Len(Pass) : Pass[q] \in Traces}
<1>1. Len(Pass) \in Nat
  BY PassLength, MockTracerAssumption
<1>2. p - 1 \in Nat /\ (p - 1) + 1 = p /\ (p \in A <=> Pass[p] \in Traces)
  BY <1>1
<1>3. ASSUME NEW k \in Nat, k <= Len(Pass)
      PROVE  TracesUpTo(k) = Cardinality((1 .. k) \cap A)
  <2>1. (1 .. k) \cap A = {q \in 1 .. k : Pass[q] \in Traces}
    BY <1>1, <1>3
  <2> QED
    BY <2>1 DEF TracesUpTo
<1>4. TracesUpTo(p - 1) = Cardinality((1 .. p - 1) \cap A)
  BY <1>1, <1>2, <1>3
<1>5. TracesUpTo(p) = Cardinality((1 .. p) \cap A)
  BY <1>1, <1>3
<1>6. (1 .. 0) \cap A = {}
  OBVIOUS
<1>7. TracesUpTo(0) = 0
  BY <1>1, <1>3, <1>6, FS_EmptySet
<1> HIDE DEF A
<1> QED
  BY <1>2, <1>4, <1>5, <1>7, OneMore

\* An event that is appended to a run counts when it is a trace.
LEMMA OneEvent ==
  ASSUME NEW S, NEW s \in Seq(S), NEW e
  PROVE  LET t == Append(s, e)
         IN  /\ Count(s, Len(s)) \in Nat
             /\ \A i \in 1 .. Len(s) : Count(t, i) = Count(s, i)
             /\ Count(t, Len(t)) = IF e[1] \in Traces THEN Count(s, Len(s)) + 1
                                   ELSE Count(s, Len(s))
<1> DEFINE t == Append(s, e)
           n == Len(s)
<1>1. s \in Seq(S \cup {e}) /\ e \in S \cup {e}
  OBVIOUS
<1>2. n \in Nat /\ Len(t) = n + 1 /\ t[n + 1] = e /\ \A i \in 1 .. n : t[i] = s[i]
  BY <1>1
<1> HIDE DEF t, n
<1> DEFINE A == {j \in 1 .. n + 1 : t[j][1] \in Traces}
<1>3. ASSUME NEW k \in 0 .. n + 1
      PROVE  Count(t, k) = Cardinality((1 .. k) \cap A)
  <2>1. (1 .. k) \cap A = {j \in 1 .. k : t[j][1] \in Traces}
    BY <1>2, <1>3
  <2> QED
    BY <2>1 DEF Count
<1>4. ASSUME NEW k \in 0 .. n
      PROVE  Count(t, k) = Count(s, k)
  <2>1. {j \in 1 .. k : t[j][1] \in Traces} = {j \in 1 .. k : s[j][1] \in Traces}
    BY <1>2, <1>4
  <2> QED
    BY <2>1 DEF Count
<1>5. n + 1 \in A <=> e[1] \in Traces
  BY <1>2
<1>6. /\ Count(t, n) = Cardinality((1 .. n) \cap A)
      /\ Count(t, n + 1) = Cardinality((1 .. n + 1) \cap A)
      /\ Count(t, n) = Count(s, n)
  BY <1>2, <1>3, <1>4
<1> HIDE DEF A
<1>7. /\ Count(s, n) \in Nat
      /\ Count(t, n + 1) = IF e[1] \in Traces THEN Count(s, n) + 1 ELSE Count(s, n)
  BY <1>2, <1>5, <1>6, OneMore
<1>8. \A i \in 1 .. n : Count(t, i) = Count(s, i)
  BY <1>2, <1>4
<1>9. /\ Count(s, n) \in Nat
      /\ \A i \in 1 .. n : Count(t, i) = Count(s, i)
      /\ Count(t, Len(t)) = IF e[1] \in Traces THEN Count(s, n) + 1 ELSE Count(s, n)
  BY <1>2, <1>7, <1>8
<1> QED
  BY <1>9 DEF t, n

\* The traces published since start(), of which event_id keeps the number: whole
\* passes, and what the pass that is running has published of itself.
Sent == Count(run, Len(run))
GapInv ==
  /\ \E S : run \in Seq(S)
  /\ pc = "pass" => at \in 1 .. Len(Pass)
  /\ pc = "info" => run = <<>>
  /\ running /\ pc \in {"test", "sleep"} =>
       event_id = 100 + Sent /\ \E turn \in 0 .. Sent : Sent = turn * Turn
  /\ running /\ pc = "pass" =>
       /\ event_id = 100 + Sent
       /\ \E turn \in 0 .. Sent : Sent = turn * Turn + TracesUpTo(at - 1)
  /\ TracesHaveNoGap

NthIs(e, nth) ==
  /\ e[2] = 99 + nth
  /\ \E p \in 1 .. Len(Pass), turn \in 0 .. nth :
       e[1] = Pass[p] /\ nth = turn * Turn + TracesUpTo(p)

\* TracesHaveNoGap with the counts named.
LEMMA NoGapMeans ==
  TracesHaveNoGap <=> \A i \in 1 .. Len(run) : run[i][1] \in Traces => NthIs(run[i], Count(run, i))
BY DEF TracesHaveNoGap, NthIs, Count, Turn

\* The property, event by event, in the state after a step.
LEMMA NoGapMeansNext ==
  TracesHaveNoGap' <=>
    \A i \in 1 .. Len(run') : run'[i][1] \in Traces => NthIs(run'[i], Count(run', i))
BY DEF TracesHaveNoGap, NthIs, Count, Turn

\* What may be appended to a run: an event that is no trace, or the next trace.
LEMMA AppendsNoGap ==
  ASSUME NEW S, run \in Seq(S), NEW e, run' = Append(run, e), TracesHaveNoGap,
         e[1] \in Traces => NthIs(e, Sent + 1)
  PROVE  /\ \E T : run' \in Seq(T)
         /\ TracesHaveNoGap'
         /\ Sent \in Nat
         /\ Sent' = IF e[1] \in Traces THEN Sent + 1 ELSE Sent
<1>1. run \in Seq(S \cup {e}) /\ e \in S \cup {e}
  OBVIOUS
<1>2. /\ run' \in Seq(S \cup {e}) /\ Len(run') = Len(run) + 1 /\ Len(run) \in Nat
      /\ run'[Len(run) + 1] = e /\ \A i \in 1 .. Len(run) : run'[i] = run[i]
  BY <1>1
<1>3. /\ Sent \in Nat
      /\ \A i \in 1 .. Len(run) : Count(run', i) = Count(run, i)
      /\ Sent' = Count(run', Len(run'))
      /\ Sent' = IF e[1] \in Traces THEN Sent + 1 ELSE Sent
  BY OneEvent DEF Sent
<1>4. ASSUME NEW i \in 1 .. Len(run'), run'[i][1] \in Traces
      PROVE  NthIs(run'[i], Count(run', i))
  <2>1. CASE i \in 1 .. Len(run)
    BY <1>2, <1>3, <1>4, <2>1, NoGapMeans
  <2>2. CASE i = Len(run) + 1
    BY <1>2, <1>3, <1>4, <2>2
  <2> QED
    BY <1>2, <2>1, <2>2
<1>5. TracesHaveNoGap'
  BY <1>4, NoGapMeansNext
<1> QED
  BY <1>2, <1>3, <1>5

\* No step leaves a hole in a run.
LEMMA GapInductive == GapInv /\ [Next]_vars => GapInv'
<1> SUFFICES ASSUME GapInv, [Next]_vars
             PROVE  GapInv'
  OBVIOUS
<1>1. kLayers \in Nat /\ Len(Pass) = 7 * kLayers + 3
  BY MockTracerAssumption, PassLength
<1>2. PICK S : run \in Seq(S)
  BY DEF GapInv
<1>3. Turn \in Nat /\ Turn = TracesUpTo(Len(Pass)) /\ TracesUpTo(0) = 0
  <2>1. Len(Pass) \in 1 .. Len(Pass)
    BY <1>1
  <2> QED
    BY <2>1, OnePosition DEF Turn
<1>4. Sent \in Nat /\ (run = <<>> => Sent = 0)
  <2>1. Sent \in Nat
    BY <1>2, OneEvent DEF Sent
  <2>2. ASSUME run = <<>>
        PROVE  Sent = 0
    <3>1. {j \in 1 .. Len(run) : run[j][1] \in Traces} = {}
      BY <2>2
    <3> QED
      BY <3>1, FS_EmptySet DEF Sent, Count
  <2> QED
    BY <2>1, <2>2
<1>5. run' = run => Sent' = Sent /\ TracesHaveNoGap'
  BY NoGapMeans, NoGapMeansNext DEF Sent, GapInv
<1>6. CASE Start
  <2>1. pc' = "info" /\ run' = <<>>
    BY <1>6 DEF Start
  <2>2. run' \in Seq({}) /\ Len(run') = 0
    BY <2>1
  <2>3. TracesHaveNoGap'
    BY <2>2, NoGapMeansNext
  <2> QED
    BY <2>1, <2>2, <2>3 DEF GapInv
<1>7. CASE Stop
  <2>1. UNCHANGED threadVars /\ running' = FALSE
    BY <1>7 DEF Stop
  <2> QED
    BY <1>5, <2>1 DEF GapInv
<1>8. CASE Join \/ UNCHANGED vars
  <2>1. UNCHANGED threadVars /\ running' = running
    BY <1>8 DEF Join, vars
  <2> QED
    BY <1>5, <2>1 DEF GapInv
<1>9. CASE PublishInfo
  <2> DEFINE e == <<<<"model_info", 0>>, 0>>
  <2>1. /\ pc = "info" /\ pc' = "test" /\ run' = Append(run, e) /\ run = <<>>
        /\ event_id' = 100
    BY <1>9 DEF PublishInfo, GapInv
  <2>2. e[1] \notin Traces
    <3>1. ASSUME NEW i \in 1 .. Len(Pass)
          PROVE  Pass[i] # <<"model_info", 0>>
      <4>1. i \in 1 .. 7 * kLayers + 3
        BY <1>1
      <4>2. CASE i \in 2 .. 7 * kLayers + 1
        <5>1. Pass[i] = <<Layer[((i - 2) % 7) + 1], (i - 2) \div 7>>
          BY <4>2, LayerAt
        <5>2. ((i - 2) % 7) + 1 \in 1 .. 7
          BY <4>2
        <5>3. Layer[((i - 2) % 7) + 1] # "model_info"
          BY <5>2 DEF Layer
        <5> QED
          BY <5>1, <5>3
      <4>3. CASE i \in {1, 7 * kLayers + 2, 7 * kLayers + 3}
        BY <4>1, <4>3, PassAt
      <4> QED
        BY <1>1, <4>1, <4>2, <4>3
    <3> QED
      BY <3>1 DEF Traces, ToSet
  <2> HIDE DEF e
  <2>3. (\E T : run' \in Seq(T)) /\ TracesHaveNoGap' /\ Sent' = Sent
    BY <1>2, <2>1, <2>2, AppendsNoGap DEF GapInv
  <2>4. Sent' = 0 /\ 0 \in 0 .. 0 /\ 0 = 0 * Turn
    BY <1>3, <1>4, <2>1, <2>3
  <2> QED
    BY <2>1, <2>3, <2>4 DEF GapInv, Turn
<1>10. CASE Test
  <2>1. /\ pc = "test" /\ at' = 1 /\ event_id' = event_id /\ run' = run /\ running' = running
        /\ pc' = IF running THEN "pass" ELSE "none"
    BY <1>10 DEF Test
  <2>2. (at \in 1 .. Len(Pass))' /\ at' - 1 = 0
    BY <1>1, <2>1
  <2>3. running => event_id = 100 + Sent /\ \E turn \in 0 .. Sent : Sent = turn * Turn
    BY <2>1 DEF GapInv
  <2>4. running => \E turn \in 0 .. Sent : Sent = turn * Turn + TracesUpTo(at' - 1)
    BY <1>3, <1>4, <2>2, <2>3
  <2> QED
    BY <1>2, <1>5, <2>1, <2>2, <2>3, <2>4 DEF GapInv, Turn
<1>11. CASE Sleep
  BY <1>5, <1>11 DEF Sleep, GapInv
<1>12. CASE TestLayer \/ PublishAttention \/ MayFallBack \/ PublishTrace
  <2>1. pc = "pass" /\ at \in 1 .. Len(Pass) /\ running' = running
    BY <1>12 DEF TestLayer, PublishAttention, MayFallBack, PublishTrace, GapInv
  <2>2. running => /\ event_id = 100 + Sent
                   /\ \E turn \in 0 .. Sent : Sent = turn * Turn + TracesUpTo(at - 1)
    BY <2>1 DEF GapInv
  <2>3. /\ TracesUpTo(at - 1) \in Nat
        /\ TracesUpTo(at) = IF Pass[at] \in Traces THEN TracesUpTo(at - 1) + 1
                            ELSE TracesUpTo(at - 1)
    BY <2>1, OnePosition
  <2>4. Pass[Len(Pass)] = <<"lm_head", 0>>
    BY <1>1, PassAt
  \* What the step publishes, and where it goes.
  <2>5. /\ (\E T : run' \in Seq(T)) /\ TracesHaveNoGap'
        /\ Sent' \in Nat
        /\ running => /\ GoTo(at + 1)
                      /\ Sent' = IF Pass[at] \in Traces THEN Sent + 1 ELSE Sent
                      /\ event_id' = IF Pass[at] \in Traces THEN event_id + 1 ELSE event_id
    <3>1. CASE TestLayer
      <4>1. Pass[at] \notin Traces
        BY <3>1 DEF TestLayer, Traces
      <4> QED
        BY <1>2, <1>4, <1>5, <3>1, <4>1 DEF TestLayer
    <3>2. CASE PublishAttention \/ MayFallBack
      <4> DEFINE e == <<Pass[at], 0>>
      <4>1. Pass[at] \notin Traces
        BY <3>2 DEF PublishAttention, MayFallBack, Traces
      <4>2. e[1] = Pass[at]
        OBVIOUS
      <4>3. run' \in {run, Append(run, e)} /\ event_id' = event_id /\ GoTo(at + 1)
        BY <3>2 DEF PublishAttention, MayFallBack
      <4> HIDE DEF e
      <4>4. CASE run' = Append(run, e)
        BY <1>2, <1>4, <4>1, <4>2, <4>3, <4>4, AppendsNoGap DEF GapInv
      <4>5. CASE run' = run
        BY <1>2, <1>4, <1>5, <4>1, <4>3, <4>5
      <4> QED
        BY <4>3, <4>4, <4>5
    <3>3. CASE PublishTrace
      <4> DEFINE e == <<Pass[at], event_id>>
      <4>1. /\ Pass[at] \in Traces /\ GoTo(at + 1)
            /\ event_id' = IF running THEN event_id + 1 ELSE event_id
            /\ run' = IF running THEN Append(run, e) ELSE run
        BY <3>3 DEF PublishTrace
      <4>2. e[1] = Pass[at] /\ e[2] = event_id
        OBVIOUS
      <4> HIDE DEF e
      <4>3. CASE running
        <5>1. NthIs(e, Sent + 1)
          <6>1. PICK turn \in 0 .. Sent : Sent = turn * Turn + TracesUpTo(at - 1)
            BY <2>2, <4>3
          <6>2. turn * Turn \in Nat
            BY <1>3, <1>4, <6>1
          <6>3. turn \in 0 .. Sent + 1 /\ Sent + 1 = turn * Turn + TracesUpTo(at)
            BY <1>4, <2>3, <4>1, <6>1, <6>2
          <6>4. event_id = 99 + (Sent + 1)
            BY <1>4, <2>2, <4>3
          <6> QED
            BY <2>1, <4>2, <6>3, <6>4 DEF NthIs
        <5> QED
          BY <1>2, <1>4, <4>1, <4>2, <4>3, <5>1, AppendsNoGap DEF GapInv
      <4>4. CASE ~running
        BY <1>2, <1>4, <1>5, <4>1, <4>4
      <4> QED
        BY <4>3, <4>4
    <3> QED
      BY <1>12, <3>1, <3>2, <3>3
  <2>6. (at \in 1 .. Len(Pass))' /\ pc' \in {"pass", "sleep"}
    <3>1. Len(Pass) - 1 \in 1 .. Len(Pass) /\ 1 \in 1 .. Len(Pass)
      BY <1>1
    <3>2. GoTo(at + 1) \/ GoTo(Len(Pass) - 1)
      BY <1>12 DEF TestLayer, PublishAttention, MayFallBack, PublishTrace
    <3> QED
      BY <1>1, <2>1, <3>1, <3>2
  <2>7. ASSUME running
        PROVE  event_id' = 100 + Sent'
    BY <1>4, <2>2, <2>5, <2>7
  <2>8. ASSUME running
        PROVE  \E turn \in 0 .. Sent : Sent' = turn * Turn + TracesUpTo(at) /\ turn * Turn \in Nat
    <3>1. PICK turn \in 0 .. Sent : Sent = turn * Turn + TracesUpTo(at - 1)
      BY <2>2, <2>8
    <3>2. turn * Turn \in Nat
      BY <1>3, <1>4, <3>1
    <3> QED
      BY <1>4, <2>3, <2>5, <2>8, <3>1, <3>2
  <2>9. ASSUME running, pc' = "pass"
        PROVE  \E turn \in 0 .. Sent' : Sent' = turn * Turn + TracesUpTo(at' - 1)
    <3>1. at' - 1 = at
      BY <1>1, <2>1, <2>5, <2>9
    <3> QED
      BY <1>4, <2>5, <2>8, <2>9, <3>1
  <2>10. ASSUME running, pc' = "sleep"
         PROVE  \E turn \in 0 .. Sent' : Sent' = turn * Turn
    <3>1. at = Len(Pass)
      BY <1>1, <2>1, <2>5, <2>10
    <3>2. Pass[at] \in Traces
      BY <1>1, <2>4, <3>1 DEF Traces, ToSet
    <3>3. PICK turn \in 0 .. Sent : Sent' = turn * Turn + Turn /\ turn * Turn \in Nat
      BY <1>3, <2>8, <2>10, <3>1
    <3>4. turn + 1 \in 0 .. Sent'
      BY <1>4, <2>5, <2>10, <3>2
    <3>5. turn * Turn + Turn = (turn + 1) * Turn
      BY <1>3, <1>4
    <3> QED
      BY <3>3, <3>4, <3>5
  <2> QED
    BY <2>1, <2>5, <2>6, <2>7, <2>9, <2>10 DEF GapInv, Turn
<1> QED
  BY <1>6, <1>7, <1>8, <1>9, <1>10, <1>11, <1>12 DEF Next, Thread

\* For any number of layers and passes, and wherever in a pass stop() is called,
\* the traces of a run are the first of a run that is not stopped and have the ids
\* from 100 on (mock_tracer.cpp:67-102).
THEOREM TracesNeverGap == Spec => []TracesHaveNoGap
<1>1. Init => GapInv
  <2> SUFFICES ASSUME Init
               PROVE  GapInv
    OBVIOUS
  <2>1. run = <<>> /\ run \in Seq({}) /\ Len(run) = 0 /\ pc = "none" /\ running = FALSE
    BY DEF Init
  <2> QED
    BY <2>1 DEF GapInv, TracesHaveNoGap
<1>2. GapInv /\ [Next]_vars => GapInv'
  BY GapInductive
<1>3. GapInv => TracesHaveNoGap
  BY DEF GapInv
<1> QED
  BY <1>1, <1>2, <1>3, PTL DEF Spec

-----------------------------------------------------------------------------
(* What the call tree makes of the traces.                                 *)

Labels == {"input_layernorm", "self_attn", "post_attention_layernorm", "mlp"}

\* The traces of a pass, by their names.
LEMMA TracesAre ==
  ASSUME NEW e \in Traces
  PROVE  \/ e \in {<<"embed_tokens", 0>>, <<"norm", 0>>, <<"lm_head", 0>>}
         \/ \E k \in 1 .. 4, l \in 0 .. kLayers - 1 : e = <<Parts[k], l>>
<1>1. kLayers \in Nat
  BY MockTracerAssumption
<1>2. PICK j \in 1 .. 7 * kLayers + 3 : e = Pass[j]
  BY PassLength DEF Traces, ToSet
<1>3. e[1] \notin {"layer_test", "attention", "fallback"}
  BY DEF Traces
<1>4. CASE j \in 2 .. 7 * kLayers + 1
  <2>1. e = <<Layer[((j - 2) % 7) + 1], (j - 2) \div 7>>
    BY <1>2, <1>4, PassAt
  <2>2. (j - 2) % 7 \in 0 .. 6 /\ (j - 2) \div 7 \in 0 .. kLayers - 1
    BY <1>1, <1>4
  <2>3. PICK m \in 0 .. 6, l \in 0 .. kLayers - 1 : e = <<Layer[m + 1], l>>
    BY <2>1, <2>2
  <2>4. Layer[m + 1] \in Labels
    BY <1>3, <2>3 DEF Layer, Labels
  <2>5. \E k \in 1 .. 4 : Layer[m + 1] = Parts[k]
    BY <2>4 DEF Labels, Parts
  <2> QED
    BY <2>3, <2>5
<1>5. CASE j = 1 \/ j = 7 * kLayers + 2 \/ j = 7 * kLayers + 3
  BY <1>2, <1>5, PassAt
<1> QED
  BY <1>1, <1>4, <1>5

\* Every trace is published under the name of a leaf of the call tree and takes time.
LEMMA TraceIsLeaf ==
  ASSUME NEW e \in Traces
  PROVE  PathOf(e) \in FlameLeaves(kLayers) /\ BaseLatency[e] \in Nat
<1>1. kLayers \in Nat
  BY MockTracerAssumption
<1>2. ToSet(FlameNodes(kLayers)) = NodesOf(kLayers)
  BY <1>1, FlameNodeSet
<1>3. CASE e \in {<<"embed_tokens", 0>>, <<"norm", 0>>, <<"lm_head", 0>>}
  <2>1. PathOf(e) \in {Embed, <<"norm">>, <<"lm_head">>}
    BY <1>3 DEF PathOf, Ends, Embed
  <2>2. PathOf(e) \in NodesOf(kLayers)
    BY <2>1 DEF NodesOf
  <2>3. PathOf(e) \notin {Root, Block} /\ Len(PathOf(e)) # 2
    BY <2>1 DEF Embed, Root, Block
  <2>4. BaseLatency[e] \in {20, 6, 90}
    BY <1>3 DEF BaseLatency
  <2> QED
    BY <1>2, <2>2, <2>3, <2>4 DEF FlameLeaves
<1>4. ASSUME NEW k \in 1 .. 4, NEW l \in 0 .. kLayers - 1, e = <<Parts[k], l>>
      PROVE  PathOf(e) \in FlameLeaves(kLayers) /\ BaseLatency[e] \in Nat
  <2>1. e[1] \notin Ends /\ e[1] = Parts[k] /\ e[2] = l /\ l \in Nat
    BY <1>4 DEF Parts, Ends
  <2>2. PathOf(e) = Part(l, k)
    BY <2>1 DEF PathOf, Part
  <2>3. Part(l, k) \in NodesOf(kLayers)
    BY <1>1, NodesInside
  <2>4. Len(Part(l, k)) = 3 /\ Len(Root) = 1 /\ Len(Block) = 1
    BY DEF Part, Root, Block
  <2>5. PathOf(e) \in FlameLeaves(kLayers)
    BY <1>2, <2>2, <2>3, <2>4 DEF FlameLeaves
  <2>6. BaseLatency[e] \in {5, 100 + 3 * l, 240 + 5 * l}
    BY <2>1 DEF BaseLatency, Parts
  <2> QED
    BY <2>1, <2>5, <2>6
<1> QED
  BY <1>3, <1>4, TracesAre

\* There are finitely many names and traces.
LEMMA FiniteProfile == IsFiniteSet(FlameLeaves(kLayers)) /\ IsFiniteSet(Traced)
<1>1. kLayers \in Nat /\ FlameNodes(kLayers) \in Seq(Paths)
  BY MockTracerAssumption, FlameNodeSet
<1>2. IsFiniteSet(ToSet(FlameNodes(kLayers)))
  BY <1>1, FinitelyMany
<1>3. IsFiniteSet(ToSet(Pass))
  BY PassLength, FinitelyMany
<1>4. FlameLeaves(kLayers) \subseteq ToSet(FlameNodes(kLayers))
  BY DEF FlameLeaves
<1>5. Traced \subseteq ToSet(Pass)
  BY DEF Traced, Traces
<1> QED
  BY <1>2, <1>3, <1>4, <1>5, FS_Subset

\* All leaves are inside the root.
LEMMA LeavesBelowRoot == \A p \in FlameLeaves(kLayers) : Root \in Above(p)
<1>1. kLayers \in Nat /\ ToSet(FlameNodes(kLayers)) = NodesOf(kLayers)
  BY MockTracerAssumption, FlameNodeSet
<1> SUFFICES ASSUME NEW p \in FlameLeaves(kLayers) PROVE Root \in Above(p)
  OBVIOUS
<1>2. p \in NodesOf(kLayers) /\ p # Root
  BY <1>1 DEF FlameLeaves
<1>3. CASE p \in {Embed, Block, <<"norm">>, <<"lm_head">>}
  BY <1>3, AboveIs
<1>4. ASSUME NEW i \in 0 .. 5 * kLayers - 1, p = FlameNode(i) PROVE Root \in Above(p)
  BY <1>4, AboveNode
<1> QED
  BY <1>2, <1>3, <1>4 DEF NodesOf

\* For any number of layers, and wherever a run stands, the call tree accounts for
\* every trace, so that the names mock_tracer.cpp publishes under are those that
\* panels.cpp looks up (mock_tracer.cpp:89-156, panels.cpp:336-347).
THEOREM TreeAccountsForAll == Spec => []CallTreeIsComplete
<1>1. CallTreeIsComplete
  <2> DEFINE avg == [p \in FlameLeaves(kLayers) |-> Average(p)]
  <2>1. FlameTime(Root, kLayers, avg) = SumFunctionOnSet(avg, FlameLeaves(kLayers))
    <3>1. {p \in FlameLeaves(kLayers) : p = Root \/ Root \in Above(p)} = FlameLeaves(kLayers)
      BY LeavesBelowRoot
    <3> QED
      BY <3>1 DEF FlameTime
  <2>2. PICK h : h = [e \in Traced |-> PathOf(e)]
    OBVIOUS
  <2>3. \A e \in Traced : BaseLatency[e] \in Nat /\ h[e] \in FlameLeaves(kLayers)
    BY <2>2, TraceIsLeaf DEF Traced
  <2>4. \A p \in FlameLeaves(kLayers) : avg[p] = SumFunctionOnSet(BaseLatency, Into(h, Traced, {p}))
    <3> SUFFICES ASSUME NEW p \in FlameLeaves(kLayers)
                 PROVE  Average(p) = SumFunctionOnSet(BaseLatency, Into(h, Traced, {p}))
      OBVIOUS
    <3>1. Into(h, Traced, {p}) = {e \in Traced : PathOf(e) = p}
      BY <2>2 DEF Into
    <3> QED
      BY <3>1 DEF Average
  <2> HIDE DEF avg
  <2>5. SumFunctionOnSet(avg, FlameLeaves(kLayers)) = SumFunctionOnSet(BaseLatency, Traced)
    <3>1. AddsUp(Traced, BaseLatency, FlameLeaves(kLayers), h, avg)
      BY <2>3, <2>4, FiniteProfile DEF AddsUp
    <3> QED
      BY <3>1, SumByValue
  <2> QED
    BY <2>1, <2>5 DEF CallTreeIsComplete, avg
<1> QED
  BY <1>1, PTL
=============================================================================
