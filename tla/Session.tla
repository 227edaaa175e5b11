-------------------------------- MODULE Session --------------------------------
(***************************************************************************)
(* One run of the program, src/main.cpp: in which order main() starts the  *)
(* server, attaches the consumer, starts the tracer, and takes all of them *)
(* down again, while the threads of the server and of the tracer publish.  *)
(* The consumer is a lambda over main()'s own objects (--headless) or the  *)
(* Dashboard, whose callback stays in the bus when the Dashboard is gone.  *)
(* Server and tracer are reduced to what TelemetryServer and MockTracer    *)
(* show of them: a thread ends once running_ is cleared, but the server's  *)
(* not as long as it is blocked in recv(), which only its client ends.     *)
(***************************************************************************)
EXTENDS Integers

CONSTANTS MaxEvents, MaxPresses     \* bounds: events of a source; presses of p

Sources == {"server", "tracer"}

VARIABLES
  mode, sim,      \* the command line
  main,           \* what main() does next
  subscribed,     \* the consumer's callback is in the bus
  dash,           \* the Dashboard and, in run(), its screen exist
  g_screen,       \* the pointer the callback posts redraws to is set
  running, pc,    \* per source: running_, and what its thread is doing: "off",
                  \* "idle" (between two events, or in accept()), "recv" or
                  \* "serving" (of the server), "callback", "post"
  info,           \* history, per source: what became of its model_info
  sent, presses   \* what the bounds count

vars == <<mode, sim, main, subscribed, dash, g_screen, running, pc, info, sent, presses>>
commandLine == <<mode, sim>>
sourceVars == <<running, pc, info, sent>>

TypeOK ==
  /\ mode \in {"headless", "snapshot", "tui"} /\ sim \in BOOLEAN
  /\ main \in {"boot", "attach", "sources", "run", "loop", "pause", "destroy",
               "stop_tracer", "join_tracer", "stop_server", "join_server", "exit"}
  /\ {subscribed, dash, g_screen} \subseteq BOOLEAN
  /\ running \in [Sources -> BOOLEAN]
  /\ pc \in [Sources -> {"off", "idle", "recv", "serving", "callback", "post"}]
  /\ info \in [Sources -> {"unsent", "lost", "received"}]
  /\ sent \in [Sources -> 0 .. MaxEvents] /\ presses \in 0 .. MaxPresses

Init ==
  /\ mode \in {"headless", "snapshot", "tui"} /\ sim \in BOOLEAN
  /\ mode = "snapshot" => sim
  /\ main = "boot" /\ subscribed = FALSE /\ dash = FALSE /\ g_screen = FALSE
  /\ running = [s \in Sources |-> FALSE] /\ pc = [s \in Sources |-> "off"]
  /\ info = [s \in Sources |-> "unsent"]
  /\ sent = [s \in Sources |-> 0] /\ presses = 0

Go(from, to) == main = from /\ main' = to /\ UNCHANGED commandLine

Launch(s) ==
  /\ running' = [running EXCEPT ![s] = TRUE]
  /\ pc' = [pc EXCEPT ![s] = "idle"]
  /\ info' = [info EXCEPT ![s] = "unsent"]

-----------------------------------------------------------------------------
(* main()                                                                  *)

\* server.start(), whose result is ignored: the port may be taken.
StartServer ==
  /\ Go("boot", "attach")
  /\ Launch("server") \/ UNCHANGED <<running, pc, info>>
  /\ UNCHANGED <<subscribed, dash, g_screen, sent, presses>>

\* bus.subscribe("*", ...), in the headless branch or in Dashboard's constructor
Attach ==
  /\ Go("attach", "sources")
  /\ subscribed' = TRUE /\ dash' = (mode # "headless")
  /\ UNCHANGED <<g_screen, sourceVars, presses>>

\* tracer.start() before the consumer is attached.
StartTracerFirst ==
  /\ \/ Go("attach", "attach") /\ sim /\ ~running["tracer"] /\ Launch("tracer")
     \/ Go("sources", "run") /\ UNCHANGED <<running, pc, info>>
  /\ UNCHANGED <<subscribed, dash, g_screen, sent, presses>>

\* if (sim) tracer.start()
StartTracer ==
  /\ Go("sources", "run")
  /\ IF sim THEN Launch("tracer") ELSE UNCHANGED <<running, pc, info>>
  /\ UNCHANGED <<subscribed, dash, g_screen, sent, presses>>

\* while (server.is_running()): over at once when the server did not start, and
\* otherwise only with the process.
HeadlessEnds ==
  /\ mode = "headless" /\ ~running["server"]
  /\ Go("run", "stop_tracer")
  /\ UNCHANGED <<subscribed, dash, g_screen, sourceVars, presses>>

Snapshot ==
  /\ mode = "snapshot" /\ Go("run", "destroy")
  /\ UNCHANGED <<subscribed, dash, g_screen, sourceVars, presses>>

\* Dashboard::run()
OpenScreen ==
  /\ mode = "tui" /\ Go("run", "loop")
  /\ g_screen' = TRUE
  /\ UNCHANGED <<subscribed, dash, sourceVars, presses>>

\* The p key: pause, which waits for the tracer's thread, or resume.
PressP ==
  /\ presses < MaxPresses /\ presses' = presses + 1
  /\ IF running["tracer"]
     THEN /\ Go("loop", "pause")
          /\ running' = [running EXCEPT !["tracer"] = FALSE] /\ UNCHANGED <<pc, info>>
     ELSE Go("loop", "loop") /\ Launch("tracer")
  /\ UNCHANGED <<subscribed, dash, g_screen, sent>>

Paused ==
  /\ pc["tracer"] = "off" /\ Go("pause", "loop")
  /\ UNCHANGED <<subscribed, dash, g_screen, sourceVars, presses>>

\* q or Esc: the loop ends and run() returns.
Quit ==
  /\ Go("loop", "destroy")
  /\ g_screen' = FALSE
  /\ UNCHANGED <<subscribed, dash, sourceVars, presses>>

\* The block that holds the Dashboard ends.  Nothing unsubscribes it.
DestroyDashboard ==
  /\ Go("destroy", "stop_tracer")
  /\ dash' = FALSE
  /\ UNCHANGED <<subscribed, g_screen, sourceVars, presses>>

\* Stop(s) that only asks the thread to end.
StopWithoutJoin(s) ==
  /\ \/ s = "tracer" /\ Go("stop_tracer", "stop_server")
     \/ s = "server" /\ Go("stop_server", "exit")
  /\ running' = [running EXCEPT ![s] = FALSE]
  /\ UNCHANGED <<subscribed, dash, g_screen, pc, info, sent, presses>>

\* Stop(s) that leaves running_ set.
StopKeepsRunning(s) ==
  /\ \/ s = "tracer" /\ Go("stop_tracer", "join_tracer")
     \/ s = "server" /\ Go("stop_server", "join_server")
  /\ UNCHANGED <<running, subscribed, dash, g_screen, pc, info, sent, presses>>

\* tracer.stop() and server.stop(): the flag, then join().
Stop(s) ==
  /\ \/ s = "tracer" /\ Go("stop_tracer", "join_tracer")
     \/ s = "server" /\ Go("stop_server", "join_server")
  /\ running' = [running EXCEPT ![s] = FALSE]
  /\ UNCHANGED <<subscribed, dash, g_screen, pc, info, sent, presses>>

Join(s) ==
  /\ \/ s = "tracer" /\ Go("join_tracer", "stop_server")
     \/ s = "server" /\ Go("join_server", "exit")
  /\ pc[s] = "off"
  /\ UNCHANGED <<subscribed, dash, g_screen, sourceVars, presses>>

-----------------------------------------------------------------------------
(* The threads of the sources.  A source's first event is its model_info.  *)

\* Where a thread publishes from, and where it goes on.
Publishing(s) == IF s = "server" THEN "serving" ELSE "idle"

\* bus_.publish(): the callback is copied, if it is there, and entered.  Both
\* threads may still publish between a stop() and the end of their loop.
Publish(s) ==
  /\ pc[s] = Publishing(s) /\ sent[s] < MaxEvents
  /\ sent' = [sent EXCEPT ![s] = @ + 1]
  /\ pc' = [pc EXCEPT ![s] = IF subscribed THEN "callback" ELSE @]
  /\ info' = [info EXCEPT ![s] = IF @ # "unsent" THEN @
                                 ELSE IF subscribed THEN "received" ELSE "lost"]
  /\ UNCHANGED <<commandLine, main, subscribed, dash, g_screen, running, presses>>

\* The consumer has taken the event; the Dashboard's callback tests g_screen.
Consume(s) ==
  /\ pc[s] = "callback"
  /\ pc' = [pc EXCEPT ![s] = IF g_screen THEN "post" ELSE Publishing(s)]
  /\ UNCHANGED <<commandLine, main, subscribed, dash, g_screen, running, info, sent, presses>>

\* A PostEvent() that the UI thread has to take before it returns.
PostAndWait(s) ==
  /\ pc[s] = "post" /\ main = "loop"
  /\ pc' = [pc EXCEPT ![s] = Publishing(s)]
  /\ UNCHANGED <<commandLine, main, subscribed, dash, g_screen, running, info, sent, presses>>

\* g_screen->PostEvent(), which queues the event.
Post(s) ==
  /\ pc[s] = "post"
  /\ pc' = [pc EXCEPT ![s] = Publishing(s)]
  /\ UNCHANGED <<commandLine, main, subscribed, dash, g_screen, running, info, sent, presses>>

\* What the server's thread is doing, when a client or its own loop moves it on.
Serve(from, to) ==
  /\ pc["server"] = from /\ pc' = [pc EXCEPT !["server"] = to]
  /\ UNCHANGED <<commandLine, main, subscribed, dash, g_screen, running, info, sent, presses>>

\* accept() returns, and the thread waits in recv() until its client sends or leaves.
Client == \/ running["server"] /\ Serve("idle", "recv")
          \/ Serve("recv", "serving")
          \/ Serve("recv", "idle")

\* All that was received has been published: back to recv().
ServeOn == running["server"] /\ Serve("serving", "recv")

\* The loop ends at its test of running_, or as accept() fails: never in recv().
ThreadEnds(s) ==
  /\ pc[s] \in {"idle", "serving"} /\ ~running[s]
  /\ pc' = [pc EXCEPT ![s] = "off"]
  /\ UNCHANGED <<commandLine, main, subscribed, dash, g_screen, running, info, sent, presses>>

MainStep ==
  \/ StartServer \/ Attach \/ StartTracer \/ HeadlessEnds \/ Snapshot
  \/ OpenScreen \/ Paused \/ DestroyDashboard \/ \E s \in Sources : Stop(s) \/ Join(s)

Thread(s) == Consume(s) \/ Post(s) \/ ThreadEnds(s) \/ (s = "server" /\ ServeOn)

Next == MainStep \/ PressP \/ Quit \/ Client \/ \E s \in Sources : Publish(s) \/ Thread(s)

\* main() and the threads are scheduled.  Nobody has to press a key, to connect, to
\* send or to leave.
Spec == Init /\ [][Next]_vars /\ WF_vars(MainStep) /\ \A s \in Sources : WF_vars(Thread(s))

-----------------------------------------------------------------------------

\* main() returns, and destroys the bus, the ring, the aggregator and the
\* detector, only when no thread can be in the callback that uses them.
NoThreadOutlivesMain == main = "exit" => \A s \in Sources : pc[s] = "off"

\* The tracer's model_info always finds the consumer attached (main.cpp:70-71),
\* also after a pause: the topology of a simulated model is never missed.  That of
\* a client can be, since the server starts one line above the comment (69).
SimulatedModelIsSeen == info["tracer"] # "lost"

\* A snapshot ends, a quit ends the program, and so does --headless without a
\* server, unless a client that neither sends nor leaves keeps the server's thread
\* in recv() for ever: no stop() waits for a thread that waits for main().
ProgramEnds ==
  []<>(pc["server"] # "recv") =>
    /\ mode = "snapshot" ~> main = "exit"
    /\ main = "destroy" ~> main = "exit"
    /\ (main = "run" /\ mode = "headless" /\ ~running["server"]) ~> main = "exit"

\* The p key returns, whatever the clients do: the UI thread waits in join() for the
\* tracer's thread (dashboard.cpp:213), which may be in the Dashboard's callback and
\* post to the very loop that is waiting for it (dashboard.cpp:53).
PauseReturns == main = "pause" ~> main = "loop"

\* A callback runs only while the Dashboard it captured exists.  After q, or at
\* the end of --snapshot, the sources are still running when it is destroyed.
CallbackUsesLiveDashboard ==
  \A s \in Sources : pc[s] \in {"callback", "post"} /\ mode # "headless" => dash
=============================================================================
