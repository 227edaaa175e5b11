----------------------------- MODULE SessionProofs -----------------------------
(***************************************************************************)
(* Safety of the order in which main() starts and stops things, for any    *)
(* number of events and of presses of p.                                   *)
(***************************************************************************)
EXTENDS Session, TLAPS

BeforeAttach == {"boot", "attach"}
TracerJoined == {"stop_server", "join_server", "exit"}

\* The consumer is attached when main() is past attaching it, and the tracer has
\* no thread before that, so all it ever publishes finds the consumer ...
AttachedInTime ==
  /\ main \notin BeforeAttach => subscribed
  /\ main \in BeforeAttach => pc["tracer"] = "off"
  /\ info["tracer"] # "lost"

\* ... and what main() has joined has no thread, and gets none again.
JoinedIsOff ==
  /\ main \in TracerJoined => pc["tracer"] = "off"
  /\ main = "exit" => pc["server"] = "off"

SessionInv == TypeOK /\ AttachedInTime /\ JoinedIsOff

USE DEF commandLine, sourceVars, Sources, Go, BeforeAttach, TracerJoined

\* The invariant holds before main() has done anything.
LEMMA SessionInit ==
  ASSUME {MaxEvents, MaxPresses} \subseteq Nat
  PROVE  Init => SessionInv
<1> SUFFICES ASSUME Init
             PROVE  SessionInv
  OBVIOUS
<1>1. TypeOK
  <2>1. 0 \in 0 .. MaxEvents /\ 0 \in 0 .. MaxPresses
    OBVIOUS
  <2>2. {subscribed, dash, g_screen} \subseteq BOOLEAN
    BY DEF Init
  <2> QED
    BY <2>1, <2>2 DEF Init, TypeOK
<1>2. AttachedInTime /\ JoinedIsOff
  BY DEF Init, AttachedInTime, JoinedIsOff
<1> QED
  BY <1>1, <1>2 DEF SessionInv

\* The steps of main() and the user's keys.
LEMMA MainKeepsInv ==
  ASSUME {MaxEvents, MaxPresses} \subseteq Nat, SessionInv, MainStep \/ PressP \/ Quit
  PROVE  SessionInv'
<1> USE DEF SessionInv, TypeOK, AttachedInTime, JoinedIsOff
<1>1. CASE StartServer
  BY <1>1 DEF StartServer, Launch
<1>2. CASE Attach
  BY <1>2 DEF Attach
<1>3. CASE StartTracer
  BY <1>3 DEF StartTracer, Launch
<1>4. CASE HeadlessEnds \/ Snapshot \/ OpenScreen
  BY <1>4 DEF HeadlessEnds, Snapshot, OpenScreen
<1>5. CASE Paused \/ DestroyDashboard \/ Quit
  BY <1>5 DEF Paused, DestroyDashboard, Quit
<1>6. ASSUME NEW s \in Sources, Stop(s) \/ Join(s)
      PROVE  SessionInv'
  BY <1>6 DEF Stop, Join
<1>7. CASE PressP
  <2>1. presses' \in 0 .. MaxPresses
    BY <1>7 DEF PressP
  <2>2. main = "loop" /\ main' \in {"loop", "pause"}
    BY <1>7 DEF PressP
  <2>3. running' \in [Sources -> BOOLEAN]
    BY <1>7 DEF PressP, Launch
  <2>4. /\ pc' \in [Sources -> {"off", "idle", "recv", "serving", "callback", "post"}]
        /\ info' \in [Sources -> {"unsent", "lost", "received"}]
        /\ info'["tracer"] # "lost"
    BY <1>7 DEF PressP, Launch
  <2> QED
    BY <1>7, <2>1, <2>2, <2>3, <2>4 DEF PressP
<1> QED
  BY <1>1, <1>2, <1>3, <1>4, <1>5, <1>6, <1>7 DEF MainStep

\* What clients do, and the server's thread in its loop.
LEMMA ClientKeepsInv ==
  ASSUME SessionInv, Client \/ ServeOn
  PROVE  SessionInv'
<1> USE DEF SessionInv, TypeOK, AttachedInTime, JoinedIsOff
<1>1. PICK from, to \in {"idle", "recv", "serving"} : Serve(from, to)
  BY DEF Client, ServeOn
<1>2. pc' \in [Sources -> {"off", "idle", "recv", "serving", "callback", "post"}]
  BY <1>1 DEF Serve
<1>3. pc'["tracer"] = pc["tracer"] /\ pc["server"] # "off"
  BY <1>1 DEF Serve
<1> QED
  BY <1>1, <1>2, <1>3 DEF Serve

\* The steps of the threads.
LEMMA ThreadKeepsInv ==
  ASSUME {MaxEvents, MaxPresses} \subseteq Nat, SessionInv,
         NEW s \in Sources, Publish(s) \/ Thread(s)
  PROVE  SessionInv'
<1> USE DEF SessionInv, TypeOK, AttachedInTime, JoinedIsOff
<1>1. CASE Publish(s)
  <2>1. pc[s] # "off" /\ sent[s] < MaxEvents
    BY <1>1 DEF Publish, Publishing
  <2>2. sent' \in [Sources -> 0 .. MaxEvents]
    BY <1>1, <2>1 DEF Publish
  <2>3. pc' \in [Sources -> {"off", "idle", "recv", "serving", "callback", "post"}]
    BY <1>1 DEF Publish
  <2>4. info' \in [Sources -> {"unsent", "lost", "received"}]
    BY <1>1 DEF Publish
  <2>5. s = "tracer" => subscribed
    BY <2>1
  <2>6. info'["tracer"] # "lost"
    BY <1>1, <2>5 DEF Publish
  <2>7. \A r \in Sources : pc[r] = "off" => pc'[r] = "off"
    BY <1>1, <2>1 DEF Publish
  <2> QED
    BY <1>1, <2>2, <2>3, <2>4, <2>6, <2>7 DEF Publish
<1>2. CASE Consume(s)
  BY <1>2 DEF Consume, Publishing
<1>3. CASE Post(s)
  BY <1>3 DEF Post, Publishing
<1>4. CASE ThreadEnds(s)
  BY <1>4 DEF ThreadEnds
<1> QED
  BY <1>1, <1>2, <1>3, <1>4, ClientKeepsInv DEF Thread

\* The invariant holds in every state.
LEMMA SessionInvHolds ==
  ASSUME {MaxEvents, MaxPresses} \subseteq Nat
  PROVE  Spec => []SessionInv
<1>1. Init => SessionInv
  BY SessionInit
<1>2. SessionInv /\ [Next]_vars => SessionInv'
  <2>1. SessionInv /\ Next => SessionInv'
    BY MainKeepsInv, ClientKeepsInv, ThreadKeepsInv DEF Next
  <2>2. SessionInv /\ UNCHANGED vars => SessionInv'
    BY DEF SessionInv, TypeOK, AttachedInTime, JoinedIsOff, vars
  <2> QED
    BY <2>1, <2>2
<1> QED
  BY <1>1, <1>2, PTL DEF Spec

\* The variables of a session keep their types.
THEOREM SessionTypeCorrect ==
  ASSUME {MaxEvents, MaxPresses} \subseteq Nat
  PROVE  Spec => []TypeOK
<1>1. SessionInv => TypeOK
  BY DEF SessionInv
<1> QED
  BY <1>1, SessionInvHolds, PTL

\* main() destroys what the callbacks use (main.cpp:104) only after both sources'
\* threads have ended (main.cpp:101-102).
THEOREM ThreadsEndBeforeMain ==
  ASSUME {MaxEvents, MaxPresses} \subseteq Nat
  PROVE  Spec => []NoThreadOutlivesMain
<1>1. SessionInv => NoThreadOutlivesMain
  BY DEF SessionInv, JoinedIsOff, NoThreadOutlivesMain
<1> QED
  BY <1>1, SessionInvHolds, PTL

\* The simulated model_info always reaches the consumer (main.cpp:70-71).
THEOREM SimulatedModelAlwaysSeen ==
  ASSUME {MaxEvents, MaxPresses} \subseteq Nat
  PROVE  Spec => []SimulatedModelIsSeen
<1>1. SessionInv => SimulatedModelIsSeen
  BY DEF SessionInv, AttachedInTime, SimulatedModelIsSeen
<1> QED
  BY <1>1, SessionInvHolds, PTL
=============================================================================
