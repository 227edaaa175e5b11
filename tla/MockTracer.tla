------------------------------ MODULE MockTracer ------------------------------
(***************************************************************************)
(* MockTracer of src/instrumentation/mock_tracer.cpp: the simulator that   *)
(* the p key pauses and resumes.  start() runs loop() in a new thread,     *)
(* stop() clears running_ and joins it.  The thread publishes model_info   *)
(* and then one forward pass after another, and looks at running_ before   *)
(* every pass, every layer and every layer_trace, but at no other event.   *)
(* Latencies, statistics and matrices are left out: only which event is    *)
(* published, for which layer and under which event_id is modelled.        *)
(***************************************************************************)
EXTENDS Integers, Sequences, SequencesExt, FiniteSets

CONSTANTS
  kLayers,
  MaxStarts,        \* bound: calls of start()
  MaxPasses         \* bound: forward passes of one start()

ASSUME MockTracerAssumption == {kLayers, MaxStarts, MaxPasses} \subseteq Nat

\* A layer that sends the attention matrix before its trace.
LayerMatrixFirst == <<"layer_test", "input_layernorm", "attention", "self_attn",
                      "post_attention_layernorm", "fallback", "mlp">>

\* The statements of emit_token_pass() that test or publish, in program order.
Layer == <<"layer_test", "input_layernorm", "self_attn", "attention",
           "post_attention_layernorm", "fallback", "mlp">>

Pass ==
  [i \in 1 .. 7 * kLayers + 3 |->
     CASE i = 1 -> <<"embed_tokens", 0>>
       [] i \in 2 .. 7 * kLayers + 1 -> <<Layer[((i - 2) % 7) + 1], (i - 2) \div 7>>
       [] i = 7 * kLayers + 2 -> <<"norm", 0>>
       [] i = 7 * kLayers + 3 -> <<"lm_head", 0>>]

Traces == {e \in ToSet(Pass) : e[1] \notin {"layer_test", "attention", "fallback"}}
Published == ToSet(Pass) \cup {<<"model_info", 0>>}

VARIABLES
  main,             \* "stopped" | "started" | "join"
  running,          \* running_
  pc,               \* "none" | "info" | "test" | "pass" | "sleep", in loop()
  at,               \* the statement of Pass that is next
  event_id,
  run,              \* history: the events and their ids published since start()
  starts, passes    \* what the bounds count

threadVars == <<pc, at, event_id, run, passes>>
vars == <<main, running, threadVars, starts>>

TypeOK ==
  /\ main \in {"stopped", "started", "join"} /\ running \in BOOLEAN
  /\ pc \in {"none", "info", "test", "pass", "sleep"} /\ at \in 1 .. Len(Pass)
  /\ event_id \in Nat /\ run \in Seq(Published \X Nat)
  /\ starts \in 0 .. MaxStarts /\ passes \in 0 .. MaxPasses

Init ==
  /\ main = "stopped" /\ running = FALSE
  /\ pc = "none" /\ at = 1 /\ event_id = 100 /\ run = <<>>
  /\ starts = 0 /\ passes = 0

-----------------------------------------------------------------------------

\* start(), by main() or by the p key
Start ==
  /\ main = "stopped" /\ ~running /\ starts < MaxStarts
  /\ main' = "started" /\ running' = TRUE /\ starts' = starts + 1
  /\ pc' = "info" /\ run' = <<>> /\ passes' = 0
  /\ UNCHANGED <<at, event_id>>

\* stop(): running_.exchange(false) ...
Stop ==
  /\ main = "started" /\ running
  /\ main' = "join" /\ running' = FALSE
  /\ UNCHANGED <<threadVars, starts>>

\* stop() that does not wait for the thread.
JoinAtOnce == main = "join" /\ main' = "stopped" /\ UNCHANGED <<running, threadVars, starts>>

\* ... and join()
Join ==
  /\ main = "join" /\ pc = "none"
  /\ main' = "stopped"
  /\ UNCHANGED <<running, threadVars, starts>>

-----------------------------------------------------------------------------
(* The thread.                                                             *)

PublishInfo ==
  /\ pc = "info"
  /\ run' = Append(run, <<<<"model_info", 0>>, 0>>)
  /\ event_id' = 100 /\ pc' = "test"
  /\ UNCHANGED <<main, running, at, starts, passes>>

\* A loop() that never looks at running_.
TestForever ==
  /\ pc = "test"
  /\ pc' = "pass"
  /\ at' = 1
  /\ UNCHANGED <<main, running, event_id, run, starts, passes>>

\* loop(): while (running_)
Test ==
  /\ pc = "test"
  /\ pc' = IF running THEN "pass" ELSE "none"
  /\ at' = 1
  /\ UNCHANGED <<main, running, event_id, run, starts, passes>>

\* The thread is at the given statement of emit_token_pass() and goes on to next.
At(stage) == pc = "pass" /\ Pass[at][1] = stage
GoTo(next) ==
  /\ at' = IF next <= Len(Pass) THEN next ELSE 1
  /\ pc' = IF next <= Len(Pass) THEN "pass" ELSE "sleep"
  /\ UNCHANGED <<main, running, starts, passes>>

\* for (l = 0; l < kLayers && running_; ++l); norm and lm_head follow the loop.
TestLayer ==
  /\ At("layer_test")
  /\ GoTo(IF running THEN at + 1 ELSE Len(Pass) - 1)
  /\ UNCHANGED <<event_id, run>>

\* publish_trace() without its test of running_.
PublishTraceUntested ==
  /\ pc = "pass" /\ Pass[at] \in Traces
  /\ event_id' = event_id + 1
  /\ run' = Append(run, <<Pass[at], event_id>>)
  /\ GoTo(at + 1)

\* publish_trace(): nothing is published, and no id used, once stop() was called.
PublishTrace ==
  /\ pc = "pass" /\ Pass[at] \in Traces
  /\ event_id' = IF running THEN event_id + 1 ELSE event_id
  /\ run' = IF running THEN Append(run, <<Pass[at], event_id>>) ELSE run
  /\ GoTo(at + 1)

\* The attention matrix of the layer, whatever running_ says.
PublishAttention ==
  /\ At("attention")
  /\ run' = Append(run, <<Pass[at], 0>>)
  /\ GoTo(at + 1)
  /\ UNCHANGED event_id

\* One time in a hundred the mlp falls back to the CPU and an anomaly event says
\* so, whatever running_ says.
MayFallBack ==
  /\ At("fallback")
  /\ run' \in {run, Append(run, <<Pass[at], 0>>)}
  /\ GoTo(at + 1)
  /\ UNCHANGED event_id

\* The 120 ms between two passes.
Sleep ==
  /\ pc = "sleep"
  /\ passes < MaxPasses \/ ~running
  /\ passes' = IF running THEN passes + 1 ELSE passes
  /\ pc' = "test"
  /\ UNCHANGED <<main, running, at, event_id, run, starts>>

Thread == \/ PublishInfo \/ Test \/ TestLayer \/ PublishTrace
          \/ PublishAttention \/ MayFallBack \/ Sleep

Next == Start \/ Stop \/ Join \/ Thread

\* The thread is scheduled, and main() goes on when join() returns.  Nothing
\* obliges the user to start or stop the simulator.
Spec == Init /\ [][Next]_vars /\ WF_vars(Thread) /\ WF_vars(Join)

-----------------------------------------------------------------------------

\* Wherever stop() cuts a pass short, the layer_traces of a run are the first
\* ones of a run that nobody stops, without a gap and numbered from 100: no trace
\* of a later layer follows one that was suppressed.
TracesUpTo(p) == Cardinality({q \in 1 .. p : Pass[q] \in Traces})
TracesHaveNoGap ==
  \A i \in 1 .. Len(run) : run[i][1] \in Traces =>
    LET nth == Cardinality({j \in 1 .. i : run[j][1] \in Traces})
    IN  /\ run[i][2] = 99 + nth
        /\ \E p \in 1 .. Len(Pass), turn \in 0 .. nth :
             run[i][1] = Pass[p] /\ nth = turn * TracesUpTo(Len(Pass)) + TracesUpTo(p)

\* Once stop() has returned the simulator publishes nothing until it is started
\* again: main() may destroy the bus, and no two threads ever run side by side.
PausedMeansSilent == [][main = "stopped" => run' = run \/ main' = "started"]_vars

\* stop() returns, wherever the thread is in its pass: the UI thread is the one
\* that waits (dashboard.cpp:213).
PauseReturns == main = "join" ~> main = "stopped"

\* An attention matrix is "sent alongside an attention layer_trace"
\* (docs/protocol.md:44), the one just before it, as long as stop() has not been
\* called; a stop() between the two suppresses the trace and not the matrix.
MatrixFollowsTrace ==
  running => \A i \in 1 .. Len(run) : run[i][1][1] = "attention" =>
    i > 1 /\ run[i - 1][1] = <<"self_attn", run[i][1][2]>>
=============================================================================
