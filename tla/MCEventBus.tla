------------------------------ MODULE MCEventBus ------------------------------
(***************************************************************************)
(* Two threads.  Callback "log" only listens, "relay" publishes a second   *)
(* event, "grow" subscribes "log" once more to the topic being delivered.  *)
(***************************************************************************)
EXTENDS EventBus

CONSTANTS main, server

MCThreads == {main, server}
MCTopics == {"trace", "note", "*"}
MCCallbacks == {"log", "relay", "grow"}
MCEvents == {"trace1", "trace2", "note1"}
MCTypeOf(e) == IF e = "note1" THEN "note" ELSE "trace"

Sub(topic, cb) == [op |-> "subscribe", topic |-> topic, cb |-> cb]
Pub(e) == [op |-> "publish", event |-> e]

MCProgram(t) ==
  IF t = main
  THEN <<Sub("*", "log"), Sub("trace", "grow"), Pub("trace1")>>
  ELSE <<Sub("note", "log"), Pub("trace2"), Sub("trace", "relay"), Pub("trace2")>>

MCBody(cb) ==
  CASE cb = "log" -> <<>>
    [] cb = "relay" -> <<Pub("note1")>>
    [] cb = "grow" -> <<Sub("trace", "log")>>
=============================================================================
