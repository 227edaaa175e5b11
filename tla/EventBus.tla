------------------------------- MODULE EventBus -------------------------------
(***************************************************************************)
(* EventBus of src/telemetry/event_bus.cpp, used by several threads.       *)
(* publish() copies the matching callbacks under mutex_ and calls them     *)
(* after releasing it, in the publishing thread, so that a callback may    *)
(* itself publish and subscribe.  A thread is the stack of the calls it is *)
(* in, innermost first: a body (its own program, or a callback's) with the *)
(* bus calls it has left to make, or a publish() and how far it got.       *)
(***************************************************************************)
EXTENDS Integers, Sequences

CONSTANTS
  Threads, Topics, Callbacks, Events,
  Any,          \* the topic "*"
  TypeOf(_),    \* the event_type of an event
  Program(_),   \* the bus calls a thread makes, in order
  Body(_),      \* the bus calls a callback makes, in order
  Nobody        \* mutex_ is free

VARIABLES
  subscribers,  \* topic -> the callbacks, in the order they subscribed
  mutex,        \* the thread inside a critical section of the bus
  stack         \* thread -> its calls, innermost first

vars == <<subscribers, mutex, stack>>

Calls == [op : {"subscribe"}, topic : Topics, cb : Callbacks]
           \cup [op : {"publish"}, event : Events]

Bodies == [pc : {"body"}, left : Seq(Calls)]
Publishes == [pc : {"lock", "specific", "any", "fan_out"},
              event : Events, targets : Seq(Callbacks)]

ASSUME ProgramsAssumption ==
  /\ Any \in Topics
  /\ Nobody \notin Threads
  /\ \A e \in Events : TypeOf(e) \in Topics
  /\ \A t \in Threads : Program(t) \in Seq(Calls)
  /\ \A cb \in Callbacks : Body(cb) \in Seq(Calls)

TypeOK ==
  /\ subscribers \in [Topics -> Seq(Callbacks)]
  /\ mutex \in Threads \cup {Nobody}
  /\ stack \in [Threads -> Seq(Bodies \cup Publishes)]

RunBody(calls) == [pc |-> "body", left |-> calls]

Init ==
  /\ subscribers = [topic \in Topics |-> <<>>]
  /\ mutex = Nobody
  /\ stack = [t \in Threads |-> <<RunBody(Program(t))>>]

\* The innermost call of t has got to pc.
At(t, pc) == stack[t] # <<>> /\ stack[t][1].pc = pc

-----------------------------------------------------------------------------

\* subscribe(), whose whole body is one critical section, without the lock.
SubscribeUnlocked(t) ==
  /\ At(t, "body") /\ stack[t][1].left # <<>>
  /\ LET call == Head(stack[t][1].left)
     IN  /\ call.op = "subscribe"
         /\ subscribers' = [subscribers EXCEPT ![call.topic] = Append(@, call.cb)]
  /\ stack' = [stack EXCEPT ![t][1].left = Tail(@)]
  /\ UNCHANGED mutex

\* subscribe(): its whole body is one critical section.
Subscribe(t) ==
  /\ At(t, "body") /\ stack[t][1].left # <<>>
  /\ mutex = Nobody
  /\ LET call == Head(stack[t][1].left)
     IN  /\ call.op = "subscribe"
         /\ subscribers' = [subscribers EXCEPT ![call.topic] = Append(@, call.cb)]
  /\ stack' = [stack EXCEPT ![t][1].left = Tail(@)]
  /\ UNCHANGED mutex

\* A call of publish(); it has yet to lock mutex_.
Publish(t) ==
  /\ At(t, "body") /\ stack[t][1].left # <<>>
  /\ LET call == Head(stack[t][1].left)
         frame == [pc |-> "lock", event |-> call.event, targets |-> <<>>]
     IN  /\ call.op = "publish"
         /\ stack' = [stack EXCEPT
                        ![t] = <<frame, RunBody(Tail(@[1].left))>> \o Tail(@)]
  /\ UNCHANGED <<subscribers, mutex>>

Lock(t) ==
  /\ At(t, "lock")
  /\ mutex = Nobody
  /\ mutex' = t
  /\ stack' = [stack EXCEPT ![t][1].pc = "specific"]
  /\ UNCHANGED subscribers

CopySpecific(t) ==
  /\ At(t, "specific")
  /\ stack' = [stack EXCEPT ![t][1].targets = subscribers[TypeOf(stack[t][1].event)],
                            ![t][1].pc = "any"]
  /\ UNCHANGED <<subscribers, mutex>>

\* publish() that keeps mutex_ while it calls the callbacks.
CopyAnyKeepLock(t) ==
  /\ At(t, "any")
  /\ stack' = [stack EXCEPT ![t][1].targets = @ \o subscribers[Any],
                            ![t][1].pc = "fan_out"]
  /\ UNCHANGED <<subscribers, mutex>>

\* The end of the critical section of publish().
CopyAny(t) ==
  /\ At(t, "any")
  /\ stack' = [stack EXCEPT ![t][1].targets = @ \o subscribers[Any],
                            ![t][1].pc = "fan_out"]
  /\ mutex' = Nobody
  /\ UNCHANGED subscribers

\* for (auto& cb : targets) cb(event)
Invoke(t) ==
  /\ At(t, "fan_out") /\ stack[t][1].targets # <<>>
  /\ LET frame == stack[t][1]
         rest == [frame EXCEPT !.targets = Tail(frame.targets)]
     IN  stack' = [stack EXCEPT
                     ![t] = <<RunBody(Body(Head(frame.targets))), rest>> \o Tail(@)]
  /\ UNCHANGED <<subscribers, mutex>>

\* A publish() with no callback left, or a body with no call left, returns.
Return(t) ==
  /\ \/ At(t, "fan_out") /\ stack[t][1].targets = <<>>
     \/ At(t, "body") /\ stack[t][1].left = <<>>
  /\ stack' = [stack EXCEPT ![t] = Tail(@)]
  /\ UNCHANGED <<subscribers, mutex>>

Step(t) ==
  \/ Subscribe(t) \/ Publish(t) \/ Lock(t) \/ CopySpecific(t)
  \/ CopyAny(t) \/ Invoke(t) \/ Return(t)

\* Every thread has made all its calls.
Finished == \A t \in Threads : stack[t] = <<>>

Next == (\E t \in Threads : Step(t)) \/ (Finished /\ UNCHANGED vars)

\* The operating system runs every thread that is not waiting.
Spec == Init /\ [][Next]_vars /\ \A t \in Threads : WF_vars(Step(t))

-----------------------------------------------------------------------------

\* A thread holds mutex_ only while its innermost call is the copying part of
\* publish(): no callback, and no call below one, ever runs under the lock
\* (event_bus.cpp:11-12), so a callback that calls the bus cannot wait for itself.
NoCallbackUnderLock ==
  \A t \in Threads : \A i \in 1 .. Len(stack[t]) :
    (stack[t][i].pc \in {"specific", "any"}) <=> (i = 1 /\ mutex = t)

\* Every publish and every subscribe returns, re-entrant and concurrent ones
\* included, as long as callbacks themselves make finitely many calls
\* (event_bus.hpp:23, "Safe to call from any thread").
AllCallsReturn == <>Finished

\* Calls alternate: a body runs above the publish() that calls it, which is fanning
\* out then, and a publish() above the body that makes it.  So the fan-outs of a
\* stack are every second call from the innermost one on.
Innermost(calls) ==
  IF calls = <<>> \/ calls[1].pc = "body" THEN 2
  ELSE IF calls[1].pc = "fan_out" THEN 1 ELSE 3

FanOuts(calls) ==
  LET first == Innermost(calls)
  IN  [i \in 1 .. (Len(calls) - first + 1) \div 2 |->
         LET call == calls[first + 2 * (i - 1)]
         IN  [event |-> call.event, targets |-> call.targets]]

\* Each publish is one instant of the abstract fan-out: it serves the
\* subscribers of that instant, all of them, each once, in order, however other
\* threads and its own callbacks subscribe meanwhile.
Abstract == INSTANCE Fanout WITH owed <- [t \in Threads |-> FanOuts(stack[t])]

ImplementsFanout == Abstract!Spec
=============================================================================
