---------------------------- MODULE EventBusProofs ----------------------------
(***************************************************************************)
(* Mutual exclusion on the bus, and that it implements Fanout, for any     *)
(* threads, topics, programs and callbacks, however deep callbacks publish *)
(* from inside callbacks.                                                  *)
(***************************************************************************)
EXTENDS EventBus, SequenceTheorems, TLAPS

Frames == Bodies \cup Publishes

\* The lock property is inductive as it stands, given that every call on a stack
\* is a body or a publish(), which is what the types say.
BusInv == TypeOK /\ NoCallbackUnderLock

-----------------------------------------------------------------------------
(* Stacks.                                                                 *)

\* Changing the innermost call changes no other.
LEMMA ReplaceTop ==
  ASSUME NEW S, NEW s \in Seq(S), s # <<>>, NEW e \in S
  PROVE  /\ [s EXCEPT ![1] = e] \in Seq(S)
         /\ Len([s EXCEPT ![1] = e]) = Len(s)
         /\ [s EXCEPT ![1] = e][1] = e
         /\ \A i \in 2 .. Len(s) : [s EXCEPT ![1] = e][i] = s[i]
<1>1. 1 \in 1 .. Len(s)
  OBVIOUS
<1> QED
  BY <1>1, ExceptSeq

\* A call returns: what is left are the calls below it.
LEMMA PopTop ==
  ASSUME NEW S, NEW s \in Seq(S), s # <<>>
  PROVE  /\ Tail(s) \in Seq(S)
         /\ Len(Tail(s)) = Len(s) - 1
         /\ \A i \in 1 .. Len(Tail(s)) : Tail(s)[i] = s[i + 1]
OBVIOUS

\* A call is made: the caller is replaced and the callee put above it.
LEMMA PushTop ==
  ASSUME NEW S, NEW s \in Seq(S), s # <<>>, NEW e \in S, NEW f \in S
  PROVE  /\ <<e, f>> \o Tail(s) \in Seq(S)
         /\ Len(<<e, f>> \o Tail(s)) = Len(s) + 1
         /\ (<<e, f>> \o Tail(s))[1] = e
         /\ (<<e, f>> \o Tail(s))[2] = f
         /\ \A i \in 3 .. Len(s) + 1 : (<<e, f>> \o Tail(s))[i] = s[i - 1]
<1>1. Tail(s) \in Seq(S) /\ Len(Tail(s)) = Len(s) - 1
  BY PopTop
<1>2. \A i \in 1 .. Len(Tail(s)) : Tail(s)[i] = s[i + 1]
  BY PopTop
<1>3. <<e, f>> \in Seq(S) /\ Len(<<e, f>>) = 2
  OBVIOUS
<1> QED
  BY <1>1, <1>2, <1>3

-----------------------------------------------------------------------------
(* The lock.                                                               *)

Critical == {"specific", "any"}

\* A step of t that gives it the stack s, and takes or releases the lock for t
\* only, preserves the invariant when s does.
LEMMA OneThreadSteps ==
  ASSUME BusInv, NEW t \in Threads, NEW s \in Seq(Frames),
         stack' = [stack EXCEPT ![t] = s],
         subscribers' \in [Topics -> Seq(Callbacks)],
         mutex' \in Threads \cup {Nobody},
         \A u \in Threads \ {t} : mutex' = u <=> mutex = u,
         \A i \in 1 .. Len(s) : s[i].pc \in Critical <=> (i = 1 /\ mutex' = t)
  PROVE  BusInv'
<1>1. stack \in [Threads -> Seq(Frames)]
  BY DEF BusInv, TypeOK, Frames
<1>2. stack' \in [Threads -> Seq(Frames)]
  BY <1>1
<1>3. TypeOK'
  BY <1>2 DEF TypeOK, Frames
<1>4. stack'[t] = s /\ \A u \in Threads \ {t} : stack'[u] = stack[u]
  BY <1>1
<1>5. \A u \in Threads : \A i \in 1 .. Len(stack'[u]) :
        stack'[u][i].pc \in Critical <=> (i = 1 /\ mutex' = u)
  <2>1. ASSUME NEW u \in Threads \ {t}
        PROVE  \A i \in 1 .. Len(stack'[u]) :
                 stack'[u][i].pc \in Critical <=> (i = 1 /\ mutex' = u)
    BY <1>4, <2>1 DEF BusInv, NoCallbackUnderLock, Critical
  <2> QED
    BY <1>4, <2>1
<1> QED
  BY <1>3, <1>5 DEF BusInv, NoCallbackUnderLock, Critical

\* What the invariant says of a thread whose innermost call has got to some pc.
LEMMA TopFrame ==
  ASSUME BusInv, NEW t \in Threads, stack[t] # <<>>
  PROVE  /\ stack[t] \in Seq(Frames)
         /\ stack[t][1] \in Frames
         /\ stack[t][1].pc # "body" => stack[t][1] \in Publishes
         /\ stack[t][1].pc = "body" => stack[t][1] \in Bodies
         /\ stack[t][1].pc \in Critical <=> mutex = t
         /\ \A i \in 2 .. Len(stack[t]) : stack[t][i].pc \notin Critical
<1>1. stack[t] \in Seq(Frames)
  BY DEF BusInv, TypeOK, Frames
<1>2. 1 \in 1 .. Len(stack[t])
  BY <1>1
<1>3. stack[t][1] \in Frames
  BY <1>1, <1>2
<1>4. stack[t][1].pc # "body" => stack[t][1] \in Publishes
  BY <1>3 DEF Frames, Bodies
<1>5. stack[t][1].pc = "body" => stack[t][1] \in Bodies
  BY <1>3 DEF Frames, Publishes
<1>6. \A i \in 1 .. Len(stack[t]) : stack[t][i].pc \in Critical <=> (i = 1 /\ mutex = t)
  BY DEF BusInv, NoCallbackUnderLock, Critical
<1>7. \A i \in 2 .. Len(stack[t]) : stack[t][i].pc \notin Critical
  BY <1>1, <1>6
<1> QED
  BY <1>1, <1>2, <1>3, <1>4, <1>5, <1>6, <1>7

\* The innermost call goes on as the frame e: the lock is with t exactly when e
\* is in the critical section.
LEMMA TopChanges ==
  ASSUME BusInv, NEW t \in Threads, stack[t] # <<>>, NEW e \in Frames,
         stack' = [stack EXCEPT ![t] = [stack[t] EXCEPT ![1] = e]],
         subscribers' \in [Topics -> Seq(Callbacks)],
         mutex' \in Threads \cup {Nobody},
         \A u \in Threads \ {t} : mutex' = u <=> mutex = u,
         e.pc \in Critical <=> mutex' = t
  PROVE  BusInv'
<1> DEFINE s == [stack[t] EXCEPT ![1] = e]
<1>1. stack[t] \in Seq(Frames) /\ \A i \in 2 .. Len(stack[t]) : stack[t][i].pc \notin Critical
  BY TopFrame
<1>2. /\ s \in Seq(Frames) /\ Len(s) = Len(stack[t]) /\ s[1] = e
      /\ \A i \in 2 .. Len(stack[t]) : s[i] = stack[t][i]
  BY <1>1, ReplaceTop
<1>3. \A i \in 1 .. Len(s) : s[i].pc \in Critical <=> (i = 1 /\ mutex' = t)
  <2> SUFFICES ASSUME NEW i \in 1 .. Len(s)
               PROVE  s[i].pc \in Critical <=> (i = 1 /\ mutex' = t)
    OBVIOUS
  <2>1. CASE i = 1
    BY <1>2, <2>1
  <2>2. CASE i # 1
    <3>1. i \in 2 .. Len(stack[t])
      BY <1>1, <1>2, <2>2
    <3>2. s[i].pc \notin Critical
      BY <1>1, <1>2, <3>1
    <3> QED
      BY <2>2, <3>2
  <2> QED
    BY <2>1, <2>2
<1> HIDE DEF s
<1>4. stack' = [stack EXCEPT ![t] = s]
  BY DEF s
<1> QED
  BY <1>2, <1>3, <1>4, OneThreadSteps

\* A call is made from outside the critical section.
LEMMA CallIsMade ==
  ASSUME BusInv, NEW t \in Threads, stack[t] # <<>>, mutex # t,
         NEW e \in Frames, NEW f \in Frames,
         e.pc \notin Critical, f.pc \notin Critical,
         stack' = [stack EXCEPT ![t] = <<e, f>> \o Tail(stack[t])],
         UNCHANGED <<subscribers, mutex>>
  PROVE  BusInv'
<1> DEFINE s == <<e, f>> \o Tail(stack[t])
<1>1. stack[t] \in Seq(Frames) /\ \A i \in 2 .. Len(stack[t]) : stack[t][i].pc \notin Critical
  BY TopFrame
<1>2. /\ s \in Seq(Frames) /\ Len(s) = Len(stack[t]) + 1 /\ s[1] = e /\ s[2] = f
      /\ \A i \in 3 .. Len(stack[t]) + 1 : s[i] = stack[t][i - 1]
  BY <1>1, PushTop
<1> HIDE DEF s
<1>3. \A i \in 1 .. Len(s) : s[i].pc \notin Critical
  <2> SUFFICES ASSUME NEW i \in 1 .. Len(s)
               PROVE  s[i].pc \notin Critical
    OBVIOUS
  <2>1. CASE i \in {1, 2}
    BY <1>2, <2>1
  <2>2. CASE i \notin {1, 2}
    <3>1. i \in 3 .. Len(stack[t]) + 1 /\ i - 1 \in 2 .. Len(stack[t])
      BY <1>1, <1>2, <2>2
    <3> QED
      BY <1>1, <1>2, <3>1
  <2> QED
    BY <2>1, <2>2
<1>4. stack' = [stack EXCEPT ![t] = s]
  BY DEF s
<1>5. /\ subscribers' \in [Topics -> Seq(Callbacks)]
      /\ mutex' \in Threads \cup {Nobody} /\ mutex' = mutex
  BY DEF BusInv, TypeOK
<1> QED
  BY <1>2, <1>3, <1>4, <1>5, OneThreadSteps

\* A call returns from outside the critical section.
LEMMA CallReturns ==
  ASSUME BusInv, NEW t \in Threads, stack[t] # <<>>, mutex # t,
         stack' = [stack EXCEPT ![t] = Tail(stack[t])],
         UNCHANGED <<subscribers, mutex>>
  PROVE  BusInv'
<1> DEFINE s == Tail(stack[t])
<1>1. stack[t] \in Seq(Frames) /\ \A i \in 2 .. Len(stack[t]) : stack[t][i].pc \notin Critical
  BY TopFrame
<1>2. /\ s \in Seq(Frames) /\ Len(s) = Len(stack[t]) - 1
      /\ \A i \in 1 .. Len(s) : s[i] = stack[t][i + 1]
  BY <1>1, PopTop
<1> HIDE DEF s
<1>3. \A i \in 1 .. Len(s) : s[i].pc \notin Critical
  <2> SUFFICES ASSUME NEW i \in 1 .. Len(s)
               PROVE  s[i].pc \notin Critical
    OBVIOUS
  <2>1. i + 1 \in 2 .. Len(stack[t])
    BY <1>1, <1>2
  <2> QED
    BY <1>1, <1>2, <2>1
<1>4. stack' = [stack EXCEPT ![t] = s]
  BY DEF s
<1>5. /\ subscribers' \in [Topics -> Seq(Callbacks)]
      /\ mutex' \in Threads \cup {Nobody} /\ mutex' = mutex
  BY DEF BusInv, TypeOK
<1> QED
  BY <1>2, <1>3, <1>4, <1>5, OneThreadSteps

-----------------------------------------------------------------------------
(* The actions.                                                            *)

\* subscribe() takes and gives back the lock (event_bus.cpp:5-8).
LEMMA SubscribeKeepsInv ==
  ASSUME BusInv, NEW t \in Threads, Subscribe(t)
  PROVE  BusInv'
<1> DEFINE e == stack[t][1]
           call == Head(e.left)
           f == [e EXCEPT !.left = Tail(e.left)]
<1>1. stack[t] # <<>> /\ e.pc = "body" /\ e.left # <<>> /\ mutex = Nobody /\ mutex' = mutex
  BY DEF Subscribe, At
<1>2. e \in Bodies
  BY <1>1, TopFrame
<1>3. e.left \in Seq(Calls)
  BY <1>2 DEF Bodies
<1>4. call \in Calls /\ Tail(e.left) \in Seq(Calls)
  BY <1>1, <1>3
<1>5. f \in Frames /\ f.pc = "body"
  BY <1>1, <1>2, <1>4 DEF Bodies, Frames
<1>6. call.op = "subscribe"
  BY DEF Subscribe
<1>7. call.topic \in Topics /\ call.cb \in Callbacks
  BY <1>4, <1>6 DEF Calls
<1>8. subscribers' = [subscribers EXCEPT ![call.topic] = Append(@, call.cb)]
  BY DEF Subscribe
<1>9. subscribers' \in [Topics -> Seq(Callbacks)]
  BY <1>7, <1>8 DEF BusInv, TypeOK
<1>10. stack' = [stack EXCEPT ![t] = [stack[t] EXCEPT ![1] = f]]
  BY DEF Subscribe
<1>11. mutex' \in Threads \cup {Nobody} /\ mutex' # t
  BY <1>1, ProgramsAssumption
<1> QED
  BY <1>1, <1>5, <1>9, <1>10, <1>11, TopChanges DEF Critical

\* The critical section of publish() (event_bus.cpp:15-22).
LEMMA PublishKeepsInv ==
  ASSUME BusInv, NEW t \in Threads, Publish(t)
  PROVE  BusInv'
<1> DEFINE e == stack[t][1]
           call == Head(e.left)
           frame == [pc |-> "lock", event |-> call.event, targets |-> <<>>]
           rest == RunBody(Tail(e.left))
<1>1. stack[t] # <<>> /\ e.pc = "body" /\ e.left # <<>>
  BY DEF Publish, At
<1>2. e \in Bodies /\ mutex # t
  BY <1>1, TopFrame DEF Critical
<1>3. e.left \in Seq(Calls)
  BY <1>2 DEF Bodies
<1>4. call \in Calls /\ Tail(e.left) \in Seq(Calls)
  BY <1>1, <1>3
<1>5. call.op = "publish"
  BY DEF Publish
<1>6. call.event \in Events
  BY <1>4, <1>5 DEF Calls
<1>7. frame \in Frames /\ frame.pc = "lock"
  BY <1>6 DEF Publishes, Frames
<1>8. rest \in Frames /\ rest.pc = "body"
  BY <1>4 DEF RunBody, Bodies, Frames
<1>9. stack' = [stack EXCEPT ![t] = <<frame, rest>> \o Tail(stack[t])]
  BY DEF Publish
<1>10. UNCHANGED <<subscribers, mutex>>
  BY DEF Publish
<1> HIDE DEF frame, rest
<1> QED
  BY <1>1, <1>2, <1>7, <1>8, <1>9, <1>10, CallIsMade DEF Critical

\* The steps of publish() up to the fan-out.
LEMMA CopyKeepsInv ==
  ASSUME BusInv, NEW t \in Threads, Lock(t) \/ CopySpecific(t) \/ CopyAny(t)
  PROVE  BusInv'
<1> DEFINE e == stack[t][1]
<1>1. stack[t] # <<>> /\ e.pc \in {"lock", "specific", "any"}
  BY DEF Lock, CopySpecific, CopyAny, At
<1>2. e \in Publishes /\ (e.pc \in Critical <=> mutex = t)
  BY <1>1, TopFrame
<1>3. subscribers' = subscribers
  BY DEF Lock, CopySpecific, CopyAny
<1>4. subscribers' \in [Topics -> Seq(Callbacks)]
  BY <1>3 DEF BusInv, TypeOK
<1>5. CASE Lock(t)
  <2> DEFINE f == [e EXCEPT !.pc = "specific"]
  <2>1. f \in Frames /\ f.pc = "specific"
    BY <1>2 DEF Publishes, Frames
  <2>2. stack' = [stack EXCEPT ![t] = [stack[t] EXCEPT ![1] = f]]
    BY <1>5 DEF Lock
  <2>3. mutex = Nobody /\ mutex' = t /\ Nobody \notin Threads
    BY <1>5, ProgramsAssumption DEF Lock
  <2> HIDE DEF f
  <2> QED
    BY <1>1, <1>4, <2>1, <2>2, <2>3, TopChanges DEF Critical
<1>6. CASE CopySpecific(t)
  <2> DEFINE f == [e EXCEPT !.targets = subscribers[TypeOf(e.event)], !.pc = "any"]
  <2>1. e.event \in Events
    BY <1>2 DEF Publishes
  <2>2. subscribers[TypeOf(e.event)] \in Seq(Callbacks)
    BY <2>1, ProgramsAssumption DEF BusInv, TypeOK
  <2>3. f \in Frames /\ f.pc = "any"
    BY <1>2, <2>2 DEF Publishes, Frames
  <2>4. stack' = [stack EXCEPT ![t] = [stack[t] EXCEPT ![1] = f]]
    BY <1>6 DEF CopySpecific
  <2>5. mutex = t /\ mutex' = t
    BY <1>2, <1>6 DEF CopySpecific, At, Critical
  <2> HIDE DEF f
  <2> QED
    BY <1>1, <1>4, <2>3, <2>4, <2>5, TopChanges DEF Critical
<1>7. CASE CopyAny(t)
  <2> DEFINE f == [e EXCEPT !.targets = e.targets \o subscribers[Any], !.pc = "fan_out"]
  <2>1. e.targets \in Seq(Callbacks)
    BY <1>2 DEF Publishes
  <2>2. subscribers[Any] \in Seq(Callbacks)
    BY ProgramsAssumption DEF BusInv, TypeOK
  <2>3. e.targets \o subscribers[Any] \in Seq(Callbacks)
    BY <2>1, <2>2
  <2>4. f \in Frames /\ f.pc = "fan_out"
    BY <1>2, <2>3 DEF Publishes, Frames
  <2>5. stack' = [stack EXCEPT ![t] = [stack[t] EXCEPT ![1] = f]]
    BY <1>7 DEF CopyAny
  <2>6. mutex = t /\ mutex' = Nobody /\ Nobody \notin Threads
    BY <1>2, <1>7, ProgramsAssumption DEF CopyAny, At, Critical
  <2> HIDE DEF f
  <2> QED
    BY <1>1, <1>4, <2>4, <2>5, <2>6, TopChanges DEF Critical
<1> QED
  BY <1>5, <1>6, <1>7

\* Calling the next copied callback (event_bus.cpp:23).
LEMMA InvokeKeepsInv ==
  ASSUME BusInv, NEW t \in Threads, Invoke(t)
  PROVE  BusInv'
<1> DEFINE e == stack[t][1]
           callee == RunBody(Body(Head(e.targets)))
           rest == [e EXCEPT !.targets = Tail(e.targets)]
<1>1. stack[t] # <<>> /\ e.pc = "fan_out" /\ e.targets # <<>>
  BY DEF Invoke, At
<1>2. e \in Publishes /\ mutex # t
  BY <1>1, TopFrame DEF Critical
<1>3. e.targets \in Seq(Callbacks)
  BY <1>2 DEF Publishes
<1>4. Head(e.targets) \in Callbacks /\ Tail(e.targets) \in Seq(Callbacks)
  BY <1>1, <1>3
<1>5. callee \in Frames /\ callee.pc = "body"
  BY <1>4, ProgramsAssumption DEF RunBody, Bodies, Frames
<1>6. rest \in Frames /\ rest.pc = "fan_out"
  BY <1>1, <1>2, <1>4 DEF Publishes, Frames
<1>7. stack' = [stack EXCEPT ![t] = <<callee, rest>> \o Tail(stack[t])]
  BY DEF Invoke
<1>8. UNCHANGED <<subscribers, mutex>>
  BY DEF Invoke
<1> HIDE DEF callee, rest
<1> QED
  BY <1>1, <1>2, <1>5, <1>6, <1>7, <1>8, CallIsMade DEF Critical

\* The end of a call.
LEMMA ReturnKeepsInv ==
  ASSUME BusInv, NEW t \in Threads, Return(t)
  PROVE  BusInv'
<1>1. stack[t] # <<>> /\ stack[t][1].pc \in {"fan_out", "body"}
  BY DEF Return, At
<1>2. mutex # t
  BY <1>1, TopFrame DEF Critical
<1>3. stack' = [stack EXCEPT ![t] = Tail(stack[t])] /\ UNCHANGED <<subscribers, mutex>>
  BY DEF Return
<1> QED
  BY <1>1, <1>2, <1>3, CallReturns

\* The bus's invariant holds in every state.
LEMMA BusInvHolds == Spec => []BusInv
<1>1. Init => BusInv
  <2> SUFFICES ASSUME Init
               PROVE  BusInv
    OBVIOUS
  <2>1. \A t \in Threads : /\ stack[t] = <<RunBody(Program(t))>>
                           /\ RunBody(Program(t)) \in Bodies
    BY ProgramsAssumption DEF Init, RunBody, Bodies
  <2>2. ASSUME NEW t \in Threads
        PROVE  /\ stack[t] \in Seq(Bodies \cup Publishes)
               /\ Len(stack[t]) = 1 /\ stack[t][1].pc = "body"
    <3> DEFINE b == RunBody(Program(t))
    <3>1. b \in Bodies /\ b.pc = "body" /\ stack[t] = <<b>>
      BY <2>1 DEF RunBody
    <3> HIDE DEF b
    <3> QED
      BY <3>1
  <2>3. stack \in [Threads -> Seq(Bodies \cup Publishes)]
    BY <2>2 DEF Init
  <2>4. subscribers \in [Topics -> Seq(Callbacks)] /\ mutex = Nobody
    BY DEF Init
  <2>5. NoCallbackUnderLock
    BY <2>2, <2>4, ProgramsAssumption DEF NoCallbackUnderLock
  <2> QED
    BY <2>3, <2>4, <2>5 DEF BusInv, TypeOK
<1>2. BusInv /\ [Next]_vars => BusInv'
  <2> SUFFICES ASSUME BusInv, [Next]_vars
               PROVE  BusInv'
    OBVIOUS
  <2>1. ASSUME NEW t \in Threads, Step(t)
        PROVE  BusInv'
    BY <2>1, SubscribeKeepsInv, PublishKeepsInv, CopyKeepsInv, InvokeKeepsInv,
       ReturnKeepsInv DEF Step
  <2>2. CASE UNCHANGED vars
    BY <2>2 DEF BusInv, TypeOK, NoCallbackUnderLock, vars
  <2> QED
    BY <2>1, <2>2 DEF Next
<1> QED
  BY <1>1, <1>2, PTL DEF Spec

\* The bus keeps its types: stacks of calls, with callbacks to be called.
THEOREM BusTypeCorrect == Spec => []TypeOK
<1>1. BusInv => TypeOK
  BY DEF BusInv
<1> QED
  BY <1>1, BusInvHolds, PTL

\* publish() calls its callbacks with mutex_ released (event_bus.cpp:11-23),
\* whatever callbacks do with the bus: no thread ever waits for itself.
THEOREM NoThreadLocksItselfOut == Spec => []NoCallbackUnderLock
<1>1. BusInv => NoCallbackUnderLock
  BY DEF BusInv
<1> QED
  BY <1>1, BusInvHolds, PTL

-----------------------------------------------------------------------------
(* The fan-outs of a stack.                                                *)

Fan(call) == [event |-> call.event, targets |-> call.targets]
Count(s) == (Len(s) - Innermost(s) + 1) \div 2
FanAt(s, i) == Fan(s[Innermost(s) + 2 * (i - 1)])

\* How many there are and which.
LEMMA FanOutsAre == ASSUME NEW s PROVE FanOuts(s) = [i \in 1 .. Count(s) |-> FanAt(s, i)]
BY DEF FanOuts, Fan, Count, FanAt

\* Two stacks have the same fan-outs, if those of one are those of the other moved by
\* as many places as there are more calls.
LEMMA SameFanOuts ==
  ASSUME NEW s, NEW r, Len(s) \in Nat, Len(r) \in Nat,
         NEW a \in {1, 2, 3}, NEW b \in {1, 2, 3}, Innermost(s) = a, Innermost(r) = b,
         Len(r) - b = Len(s) - a, \A i \in a .. Len(s) : Fan(r[i + (b - a)]) = Fan(s[i])
  PROVE  FanOuts(r) = FanOuts(s)
<1>1. PICK n \in Nat : Len(s) = n
  OBVIOUS
<1>2. PICK m \in Nat : Len(r) = m
  OBVIOUS
<1>3. Count(r) = Count(s) /\ Count(s) = (n - a + 1) \div 2
  BY <1>1, <1>2 DEF Count
<1>4. ASSUME NEW i \in 1 .. Count(s)
      PROVE  FanAt(r, i) = FanAt(s, i)
  <2>1. a + 2 * (i - 1) \in a .. n /\ (a + 2 * (i - 1)) + (b - a) = b + 2 * (i - 1)
    BY <1>3
  <2>2. Fan(r[b + 2 * (i - 1)]) = Fan(s[a + 2 * (i - 1)])
    BY <1>1, <2>1
  <2> QED
    BY <2>2 DEF FanAt
<1>5. FanOuts(r) = [i \in 1 .. Count(s) |-> FanAt(s, i)]
  <2>1. FanOuts(r) = [i \in 1 .. Count(s) |-> FanAt(r, i)]
    BY <1>3, FanOutsAre
  <2> QED
    BY <1>4, <2>1
<1> QED
  BY <1>5, FanOutsAre

\* A stack with one more fan-out on top.
LEMMA OneMoreFanOut ==
  ASSUME NEW s, NEW r, Len(s) \in Nat, Len(s) = Len(r), Len(s) >= 2,
         Innermost(s) = 3, Innermost(r) = 1,
         \A i \in 2 .. Len(s) : r[i] = s[i]
  PROVE  FanOuts(r) = <<Fan(r[1])>> \o FanOuts(s)
<1>1. PICK n \in Nat : Len(s) = n
  OBVIOUS
<1>2. Count(r) = Count(s) + 1 /\ Count(s) \in Nat /\ Count(s) = (n - 2) \div 2
  BY <1>1 DEF Count
<1>3. ASSUME NEW i \in 1 .. Count(s)
      PROVE  FanAt(r, i + 1) = FanAt(s, i)
  <2>1. 3 + 2 * (i - 1) \in 2 .. n /\ 1 + 2 * ((i + 1) - 1) = 3 + 2 * (i - 1)
    BY <1>2
  <2>2. r[3 + 2 * (i - 1)] = s[3 + 2 * (i - 1)]
    BY <1>1, <2>1
  <2> QED
    BY <2>1, <2>2 DEF FanAt
<1>4. FanAt(r, 1) = Fan(r[1])
  BY DEF FanAt
<1>5. PICK k \in Nat : k = Count(s)
  BY <1>2
<1>6. PICK t : t = FanOuts(s) /\ t = [i \in 1 .. k |-> FanAt(s, i)]
  BY <1>5, FanOutsAre
<1>7. FanOuts(r) = [i \in 1 .. k + 1 |-> FanAt(r, i)]
  BY <1>2, <1>5, FanOutsAre
<1>8. <<Fan(r[1])>> \o t = [i \in 1 .. k + 1 |-> IF i = 1 THEN Fan(r[1]) ELSE t[i - 1]]
  <2>1. Len(t) = k
    BY <1>6
  <2> QED
    BY <2>1
<1>9. ASSUME NEW i \in 1 .. k + 1
      PROVE  FanAt(r, i) = IF i = 1 THEN Fan(r[1]) ELSE t[i - 1]
  <2>1. CASE i = 1
    BY <1>4, <2>1
  <2>2. CASE i # 1
    <3>1. i - 1 \in 1 .. k /\ (i - 1) + 1 = i
      BY <2>2
    <3>2. FanAt(r, i) = FanAt(s, i - 1)
      BY <1>3, <1>5, <3>1
    <3>3. t[i - 1] = FanAt(s, i - 1)
      BY <1>6, <3>1
    <3> QED
      BY <2>2, <3>2, <3>3
  <2> QED
    BY <2>1, <2>2
<1> QED
  BY <1>6, <1>7, <1>8, <1>9

\* A stack whose innermost fan-out goes on to the next callback.
LEMMA NextTarget ==
  ASSUME NEW s, NEW r, Len(s) \in Nat, Len(r) = Len(s) + 1, Len(s) >= 2,
         Innermost(s) = 1, Innermost(r) = 2,
         \A i \in 2 .. Len(s) : r[i + 1] = s[i],
         r[2].event = s[1].event, r[2].targets = Tail(s[1].targets)
  PROVE  /\ FanOuts(s) # <<>> /\ FanOuts(s)[1] = Fan(s[1])
         /\ FanOuts(r) = [FanOuts(s) EXCEPT ![1].targets = Tail(@)]
<1>1. PICK n \in Nat : Len(s) = n
  OBVIOUS
<1>2. Count(r) = Count(s) /\ Count(s) \in Nat /\ Count(s) >= 1 /\ Count(s) = n \div 2
  BY <1>1 DEF Count
<1>3. FanAt(s, 1) = Fan(s[1]) /\ FanAt(r, 1) = Fan(r[2])
  BY DEF FanAt
<1>4. ASSUME NEW i \in 2 .. Count(s)
      PROVE  FanAt(r, i) = FanAt(s, i)
  <2>1. 1 + 2 * (i - 1) \in 2 .. n /\ 2 + 2 * (i - 1) = (1 + 2 * (i - 1)) + 1
    BY <1>2
  <2>2. r[2 + 2 * (i - 1)] = s[1 + 2 * (i - 1)]
    BY <1>1, <2>1
  <2> QED
    BY <2>2 DEF FanAt
<1>5. PICK k \in Nat : k = Count(s) /\ 1 \in 1 .. k
  BY <1>2
<1>6. PICK t : t = FanOuts(s) /\ t = [i \in 1 .. k |-> FanAt(s, i)]
  BY <1>5, FanOutsAre
<1>7. t # <<>> /\ t[1] = Fan(s[1])
  <2>1. Len(t) = k
    BY <1>6
  <2> QED
    BY <1>3, <1>5, <1>6, <2>1
<1>8. FanOuts(r) = [i \in 1 .. k |-> FanAt(r, i)]
  BY <1>2, <1>5, FanOutsAre
<1>9. Fan(r[2]) = [t[1] EXCEPT !.targets = Tail(@)]
  <2>1. PICK e, q : e = s[1].event /\ q = s[1].targets
    OBVIOUS
  <2>2. t[1] = [event |-> e, targets |-> q]
    BY <1>7, <2>1 DEF Fan
  <2>3. Fan(r[2]) = [event |-> e, targets |-> Tail(q)]
    BY <2>1 DEF Fan
  <2>4. [[event |-> e, targets |-> q] EXCEPT !.targets = Tail(@)] = [event |-> e, targets |-> Tail(q)]
    <3>1. PICK x : x = Tail(q)
      OBVIOUS
    <3>2. [event |-> e, targets |-> q].targets = q
      OBVIOUS
    <3>3. [[event |-> e, targets |-> q] EXCEPT !.targets = x] = [event |-> e, targets |-> x]
      OBVIOUS
    <3> QED
      BY <3>1, <3>2, <3>3
  <2> QED
    BY <2>2, <2>3, <2>4
<1>10. ASSUME NEW i \in 1 .. k
       PROVE  FanAt(r, i) = [t EXCEPT ![1].targets = Tail(@)][i]
  <2>1. CASE i = 1
    BY <1>3, <1>5, <1>6, <1>9, <2>1
  <2>2. CASE i # 1
    BY <1>4, <1>5, <1>6, <2>2
  <2> QED
    BY <2>1, <2>2
<1>11. [t EXCEPT ![1].targets = Tail(@)] = [i \in 1 .. k |-> [t EXCEPT ![1].targets = Tail(@)][i]]
  BY <1>6
<1> QED
  BY <1>6, <1>7, <1>8, <1>10, <1>11

\* What is left of a sequence without its first element.
LEMMA TailIs ==
  ASSUME NEW S, NEW s \in Seq(S), s # <<>>, NEW k, Len(s) = k + 1, k \in Nat
  PROVE  Tail(s) = [i \in 1 .. k |-> s[i + 1]]
<1>1. PICK u : u = Tail(s)
  OBVIOUS
<1>2. u \in Seq(S) /\ Len(u) = Len(s) - 1 /\ \A i \in 1 .. Len(u) : u[i] = s[i + 1]
  BY <1>1, PopTop
<1>3. Len(u) = k
  BY <1>2
<1>4. u = [i \in 1 .. Len(u) |-> u[i]]
  BY <1>2
<1> QED
  BY <1>1, <1>2, <1>3, <1>4

\* A stack whose innermost fan-out has returned.
LEMMA OneFanOutLess ==
  ASSUME NEW s, NEW r, Len(s) \in Nat, Len(s) = Len(r) + 1, Len(s) >= 2,
         Innermost(s) = 1, Innermost(r) = 2,
         \A i \in 1 .. Len(r) : r[i] = s[i + 1]
  PROVE  /\ FanOuts(s) # <<>> /\ FanOuts(s)[1] = Fan(s[1])
         /\ FanOuts(r) = Tail(FanOuts(s))
<1>1. PICK n \in Nat : Len(s) = n /\ Len(r) = n - 1
  OBVIOUS
<1>2. Count(s) = Count(r) + 1 /\ Count(r) \in Nat /\ Count(s) = n \div 2
  BY <1>1 DEF Count
<1>3. FanAt(s, 1) = Fan(s[1])
  BY DEF FanAt
<1>4. PICK k \in Nat : k = Count(r)
  BY <1>2
<1>5. PICK t : t = FanOuts(s) /\ t = [i \in 1 .. k + 1 |-> FanAt(s, i)]
  BY <1>2, <1>4, FanOutsAre
<1>6. Len(t) = k + 1 /\ 1 \in 1 .. k + 1
  BY <1>5
<1>7. t # <<>> /\ t[1] = Fan(s[1])
  BY <1>3, <1>5, <1>6
<1>8. ASSUME NEW i \in 1 .. k
      PROVE  FanAt(r, i) = FanAt(s, i + 1)
  <2>1. 2 + 2 * (i - 1) \in 1 .. n - 1 /\ (2 + 2 * (i - 1)) + 1 = 1 + 2 * ((i + 1) - 1)
    BY <1>2, <1>4
  <2>2. r[2 + 2 * (i - 1)] = s[1 + 2 * ((i + 1) - 1)]
    BY <1>1, <2>1
  <2> QED
    BY <2>2 DEF FanAt
<1>9. FanOuts(r) = [i \in 1 .. k |-> FanAt(r, i)]
  BY <1>4, FanOutsAre
<1>10. Tail(t) = [i \in 1 .. k |-> t[i + 1]]
  <2>1. t \in Seq({FanAt(s, i) : i \in 1 .. k + 1})
    BY <1>5
  <2>2. PICK S : t \in Seq(S)
    BY <2>1
  <2>3. t # <<>> /\ Len(t) = k + 1
    BY <1>6, <1>7
  <2> QED
    BY <2>2, <2>3, TailIs
<1>11. \A i \in 1 .. k : t[i + 1] = FanAt(s, i + 1)
  BY <1>5
<1> QED
  BY <1>5, <1>7, <1>8, <1>9, <1>10, <1>11

-----------------------------------------------------------------------------
(* Stacks alternate.                                                       *)

\* Below a body is the publish() that runs it, below a publish() the body it is
\* called in, and a thread's own body is below them all.
Alternate(s) ==
  /\ \A i \in 1 .. Len(s) - 1 :
       /\ s[i].pc = "body" => s[i + 1].pc = "fan_out"
       /\ s[i].pc # "body" => s[i + 1].pc = "body"
  /\ s # <<>> => s[Len(s)].pc = "body"

\* A publish() that has copied its own topic's subscribers holds the lock, so that
\* they still are what it copied.
FanInv ==
  \A t \in Threads :
    /\ Alternate(stack[t])
    /\ At(t, "any") => stack[t][1].targets = subscribers[TypeOf(stack[t][1].event)]

\* The innermost call goes on.
LEMMA TopAlternates ==
  ASSUME NEW s \in Seq(Frames), s # <<>>, Alternate(s), NEW e \in Frames,
         e.pc = "body" <=> s[1].pc = "body"
  PROVE  Alternate([s EXCEPT ![1] = e])
<1>1. PICK r : r = [s EXCEPT ![1] = e]
  OBVIOUS
<1>2. r \in Seq(Frames) /\ Len(r) = Len(s) /\ r[1] = e /\ \A i \in 2 .. Len(s) : r[i] = s[i]
  BY <1>1, ReplaceTop
<1>3. PICK n \in Nat : n = Len(s) /\ n = Len(r) /\ n >= 1
  BY <1>2, EmptySeq
<1>4. \A i \in 1 .. n : r[i].pc = "body" <=> s[i].pc = "body"
  BY <1>2, <1>3
<1>5. \A i \in 2 .. n : r[i] = s[i]
  BY <1>2, <1>3
<1>6. ASSUME NEW i \in 1 .. n - 1
      PROVE  /\ r[i].pc = "body" => r[i + 1].pc = "fan_out"
             /\ r[i].pc # "body" => r[i + 1].pc = "body"
  <2>1. i \in 1 .. n /\ i + 1 \in 2 .. n
    OBVIOUS
  <2> QED
    BY <1>3, <1>4, <1>5, <2>1 DEF Alternate
<1>7. r[n].pc = "body"
  BY <1>3, <1>4 DEF Alternate
<1>8. Alternate(r)
  BY <1>3, <1>6, <1>7 DEF Alternate
<1> QED
  BY <1>1, <1>8

\* A call is made: the calls below it are as before.
LEMMA PushAlternates ==
  ASSUME NEW s \in Seq(Frames), s # <<>>, Alternate(s), NEW e \in Frames, NEW f \in Frames,
         f.pc = s[1].pc, e.pc = "body" => f.pc = "fan_out", e.pc # "body" => f.pc = "body"
  PROVE  Alternate(<<e, f>> \o Tail(s))
<1>1. PICK r : r = <<e, f>> \o Tail(s)
  OBVIOUS
<1>2. /\ r \in Seq(Frames) /\ Len(r) = Len(s) + 1 /\ r[1] = e /\ r[2] = f
      /\ \A i \in 3 .. Len(s) + 1 : r[i] = s[i - 1]
  BY <1>1, PushTop
<1>3. PICK n \in Nat : n = Len(s) /\ n + 1 = Len(r) /\ n >= 1
  BY <1>2, EmptySeq
<1>4. ASSUME NEW i \in 2 .. n + 1
      PROVE  r[i].pc = s[i - 1].pc
  BY <1>2, <1>3
<1>5. ASSUME NEW i \in 1 .. (n + 1) - 1
      PROVE  /\ r[i].pc = "body" => r[i + 1].pc = "fan_out"
             /\ r[i].pc # "body" => r[i + 1].pc = "body"
  <2>1. CASE i = 1
    BY <1>2, <2>1
  <2>2. CASE i # 1
    <3>1. i \in 2 .. n + 1 /\ i + 1 \in 2 .. n + 1 /\ i - 1 \in 1 .. n - 1 /\ (i + 1) - 1 = (i - 1) + 1
      BY <2>2
    <3>2. r[i].pc = s[i - 1].pc /\ r[i + 1].pc = s[(i - 1) + 1].pc
      BY <1>4, <3>1
    <3> QED
      BY <1>3, <3>1, <3>2 DEF Alternate
  <2> QED
    BY <2>1, <2>2
<1>6. r[n + 1].pc = "body"
  <2>1. r[n + 1].pc = s[n].pc
    BY <1>3, <1>4
  <2> QED
    BY <1>3, <2>1 DEF Alternate
<1>7. Alternate(r)
  BY <1>3, <1>5, <1>6 DEF Alternate
<1> QED
  BY <1>1, <1>7

\* A call returns.
LEMMA PopAlternates ==
  ASSUME NEW s \in Seq(Frames), s # <<>>, Alternate(s)
  PROVE  Alternate(Tail(s))
<1>1. PICK r : r = Tail(s)
  OBVIOUS
<1>2. r \in Seq(Frames) /\ Len(r) = Len(s) - 1 /\ \A i \in 1 .. Len(r) : r[i] = s[i + 1]
  BY <1>1, PopTop
<1>3. PICK n \in Nat : n = Len(r) /\ n + 1 = Len(s)
  BY <1>2
<1>4. ASSUME NEW i \in 1 .. n - 1
      PROVE  /\ r[i].pc = "body" => r[i + 1].pc = "fan_out"
             /\ r[i].pc # "body" => r[i + 1].pc = "body"
  <2>1. i + 1 \in 1 .. (n + 1) - 1 /\ i \in 1 .. n /\ i + 1 \in 1 .. n
    OBVIOUS
  <2>2. r[i] = s[i + 1] /\ r[i + 1] = s[(i + 1) + 1]
    BY <1>2, <1>3, <2>1
  <2> QED
    BY <1>3, <2>1, <2>2 DEF Alternate
<1>5. r # <<>> => r[n].pc = "body"
  <2>1. r # <<>> => r[n] = s[n + 1]
    BY <1>2, <1>3, EmptySeq
  <2>2. s[n + 1].pc = "body"
    BY <1>3 DEF Alternate
  <2> QED
    BY <2>1, <2>2
<1>6. Alternate(r)
  BY <1>3, <1>4, <1>5 DEF Alternate
<1> QED
  BY <1>1, <1>6

\* A publish() is called by someone.
LEMMA PublishHasCaller ==
  ASSUME NEW s \in Seq(Frames), s # <<>>, Alternate(s), s[1].pc # "body"
  PROVE  Len(s) \in Nat /\ Len(s) >= 2 /\ s[2].pc = "body"
<1>1. PICK n \in Nat : n = Len(s) /\ n >= 1
  BY EmptySeq
<1>2. n # 1
  BY <1>1 DEF Alternate
<1>3. 1 \in 1 .. n - 1 /\ 1 + 1 = 2
  BY <1>1, <1>2
<1> QED
  BY <1>1, <1>2, <1>3 DEF Alternate

-----------------------------------------------------------------------------
(* The steps of the bus as steps of the fan-out.                           *)

\* Fanout's owed, as EventBus defines it.
Owed == [u \in Threads |-> FanOuts(stack[u])]

\* A step of t that gives it the stack s keeps FanInv when s does, and touches what
\* t owes only.
LEMMA OneThreadFansOut ==
  ASSUME BusInv, FanInv, NEW t \in Threads, NEW s \in Seq(Frames), Alternate(s),
         stack' = [stack EXCEPT ![t] = s],
         s # <<>> /\ s[1].pc = "any" => s[1].targets = subscribers'[TypeOf(s[1].event)],
         subscribers' = subscribers \/ mutex = Nobody
  PROVE  /\ FanInv'
         /\ Owed' = [Owed EXCEPT ![t] = FanOuts(s)]
         /\ FanOuts(s) = FanOuts(stack[t]) => Owed' = Owed
         /\ t \in DOMAIN Owed /\ Owed[t] = FanOuts(stack[t])
<1>1. stack \in [Threads -> Seq(Frames)]
  BY DEF BusInv, TypeOK, Frames
<1>2. stack'[t] = s /\ \A u \in Threads \ {t} : stack'[u] = stack[u]
  BY <1>1
<1>3. ASSUME NEW u \in Threads \ {t}, At(u, "any")
      PROVE  stack[u][1].targets = subscribers'[TypeOf(stack[u][1].event)]
  <2>1. mutex = u
    BY <1>3, TopFrame DEF At, Critical
  <2>2. subscribers' = subscribers
    BY <2>1, ProgramsAssumption
  <2> QED
    BY <1>3, <2>2 DEF FanInv
<1>4. FanInv'
  <2> SUFFICES ASSUME NEW u \in Threads
               PROVE  /\ Alternate(stack'[u])
                      /\ stack'[u] # <<>> /\ stack'[u][1].pc = "any" =>
                           stack'[u][1].targets = subscribers'[TypeOf(stack'[u][1].event)]
    BY DEF FanInv, At
  <2>1. CASE u = t
    BY <1>2, <2>1
  <2>2. CASE u # t
    BY <1>2, <1>3, <2>2 DEF FanInv, At
  <2> QED
    BY <2>1, <2>2
<1>5. \A u \in Threads : FanOuts(stack'[u]) = IF u = t THEN FanOuts(s) ELSE FanOuts(stack[u])
  BY <1>2
<1>6. Owed' = [u \in Threads |-> IF u = t THEN FanOuts(s) ELSE FanOuts(stack[u])]
  BY <1>5 DEF Owed
<1>7. Owed' = [Owed EXCEPT ![t] = FanOuts(s)]
  BY <1>6 DEF Owed
<1>8. FanOuts(s) = FanOuts(stack[t]) => Owed' = Owed
  BY <1>6 DEF Owed
<1> QED
  BY <1>4, <1>7, <1>8 DEF Owed

\* A subscribe() is one of the fan-out, and changes no list that is being copied.
LEMMA SubscribeFansOut ==
  ASSUME BusInv, FanInv, NEW t \in Threads, Subscribe(t)
  PROVE  FanInv' /\ Abstract!Next
<1> DEFINE e == stack[t][1]
           call == Head(e.left)
           f == [e EXCEPT !.left = Tail(e.left)]
           s == [stack[t] EXCEPT ![1] = f]
<1>1. stack[t] # <<>> /\ e.pc = "body" /\ e.left # <<>> /\ mutex = Nobody
  BY DEF Subscribe, At
<1>2. e \in Bodies /\ stack[t] \in Seq(Frames)
  BY <1>1, TopFrame
<1>3. call \in Calls /\ Tail(e.left) \in Seq(Calls)
  <2>1. e.left \in Seq(Calls)
    BY <1>2 DEF Bodies
  <2> QED
    BY <1>1, <2>1
<1>4. f \in Frames /\ f.pc = "body"
  BY <1>1, <1>2, <1>3 DEF Bodies, Frames
<1>5. call.op = "subscribe"
  BY DEF Subscribe
<1>6. call.topic \in Topics /\ call.cb \in Callbacks
  BY <1>3, <1>5 DEF Calls
<1>7. subscribers' = [subscribers EXCEPT ![call.topic] = Append(@, call.cb)] /\ stack' = [stack EXCEPT ![t] = s]
  BY DEF Subscribe
<1> HIDE DEF f
<1>8. /\ s \in Seq(Frames) /\ Len(s) = Len(stack[t]) /\ s[1] = f
      /\ \A i \in 2 .. Len(stack[t]) : s[i] = stack[t][i]
  BY <1>1, <1>2, <1>4, ReplaceTop
<1>9. Alternate(s)
  BY <1>1, <1>2, <1>4, TopAlternates DEF FanInv
<1> HIDE DEF s
<1>10. FanOuts(s) = FanOuts(stack[t])
  <2>1. Innermost(s) = 2 /\ Innermost(stack[t]) = 2
    BY <1>1, <1>4, <1>8 DEF Innermost
  <2>2. Len(s) \in Nat /\ Len(stack[t]) \in Nat
    BY <1>2, <1>8
  <2>3. \A i \in 2 .. Len(stack[t]) : Fan(s[i + (2 - 2)]) = Fan(stack[t][i])
    BY <1>8
  <2> QED
    BY <1>8, <2>1, <2>2, <2>3, SameFanOuts
<1>11. FanInv' /\ Owed' = Owed
  BY <1>1, <1>4, <1>7, <1>8, <1>9, <1>10, OneThreadFansOut
<1>12. Abstract!Subscribe(call.topic, call.cb)
  BY <1>7, <1>11 DEF Abstract!Subscribe, Owed
<1> QED
  BY <1>6, <1>11, <1>12 DEF Abstract!Next

\* A publish() that has not locked yet serves nobody.
LEMMA PublishFansOut ==
  ASSUME BusInv, FanInv, NEW t \in Threads, Publish(t)
  PROVE  FanInv' /\ Owed' = Owed
<1> DEFINE e == stack[t][1]
           call == Head(e.left)
           frame == [pc |-> "lock", event |-> call.event, targets |-> <<>>]
           rest == RunBody(Tail(e.left))
           s == <<frame, rest>> \o Tail(stack[t])
<1>1. stack[t] # <<>> /\ e.pc = "body" /\ e.left # <<>>
  BY DEF Publish, At
<1>2. e \in Bodies /\ stack[t] \in Seq(Frames)
  BY <1>1, TopFrame
<1>3. call \in Calls /\ Tail(e.left) \in Seq(Calls)
  <2>1. e.left \in Seq(Calls)
    BY <1>2 DEF Bodies
  <2> QED
    BY <1>1, <2>1
<1>4. call.event \in Events
  <2>1. call.op = "publish"
    BY DEF Publish
  <2> QED
    BY <1>3, <2>1 DEF Calls
<1>5. frame \in Frames /\ frame.pc = "lock"
  BY <1>4 DEF Publishes, Frames
<1>6. rest \in Frames /\ rest.pc = "body"
  BY <1>3 DEF RunBody, Bodies, Frames
<1>7. stack' = [stack EXCEPT ![t] = s] /\ subscribers' = subscribers
  BY DEF Publish
<1> HIDE DEF frame, rest
<1>8. /\ s \in Seq(Frames) /\ Len(s) = Len(stack[t]) + 1 /\ s[1] = frame /\ s[2] = rest
      /\ \A i \in 3 .. Len(stack[t]) + 1 : s[i] = stack[t][i - 1]
  BY <1>1, <1>2, <1>5, <1>6, PushTop
<1>9. Alternate(s)
  BY <1>1, <1>2, <1>5, <1>6, PushAlternates DEF FanInv
<1> HIDE DEF s
<1>10. Len(s) \in Nat /\ Len(stack[t]) \in Nat /\ s # <<>>
  BY <1>2, <1>8, EmptySeq
<1>11. FanOuts(s) = FanOuts(stack[t])
  <2>1. Innermost(s) = 3 /\ Innermost(stack[t]) = 2
    BY <1>1, <1>5, <1>8, <1>10 DEF Innermost
  <2>2. \A i \in 2 .. Len(stack[t]) : Fan(s[i + (3 - 2)]) = Fan(stack[t][i])
    <3> SUFFICES ASSUME NEW i \in 2 .. Len(stack[t])
                 PROVE  s[i + (3 - 2)] = stack[t][i]
      OBVIOUS
    <3>1. i + 1 \in 3 .. Len(stack[t]) + 1 /\ (i + 1) - 1 = i /\ i + (3 - 2) = i + 1
      BY <1>10
    <3> QED
      BY <1>8, <3>1
  <2>3. Len(s) - 3 = Len(stack[t]) - 2
    BY <1>8, <1>10
  <2> QED
    BY <1>10, <2>1, <2>2, <2>3, SameFanOuts
<1> QED
  BY <1>5, <1>7, <1>8, <1>9, <1>11, OneThreadFansOut

\* Locking and the first half of the copying serve nobody yet.
LEMMA LockFansOut ==
  ASSUME BusInv, FanInv, NEW t \in Threads, Lock(t) \/ CopySpecific(t)
  PROVE  FanInv' /\ Owed' = Owed
<1> DEFINE e == stack[t][1]
<1>1. stack[t] # <<>> /\ e.pc \in {"lock", "specific"} /\ subscribers' = subscribers
  BY DEF Lock, CopySpecific, At
<1>2. e \in Publishes /\ stack[t] \in Seq(Frames)
  BY <1>1, TopFrame
<1>3. PICK f \in Frames : /\ f.pc \in {"specific", "any"}
                          /\ f.pc = "any" => f.targets = subscribers[TypeOf(f.event)]
                          /\ stack' = [stack EXCEPT ![t] = [stack[t] EXCEPT ![1] = f]]
  <2>1. CASE Lock(t)
    <3> DEFINE f == [e EXCEPT !.pc = "specific"]
    <3>1. f \in Frames /\ f.pc = "specific"
      BY <1>2 DEF Publishes, Frames
    <3>2. stack' = [stack EXCEPT ![t] = [stack[t] EXCEPT ![1] = f]]
      BY <2>1 DEF Lock
    <3> HIDE DEF f
    <3> QED
      BY <3>1, <3>2
  <2>2. CASE CopySpecific(t)
    <3> DEFINE f == [e EXCEPT !.targets = subscribers[TypeOf(e.event)], !.pc = "any"]
    <3>1. subscribers[TypeOf(e.event)] \in Seq(Callbacks)
      <4>1. e.event \in Events
        BY <1>2 DEF Publishes
      <4> QED
        BY <4>1, ProgramsAssumption DEF BusInv, TypeOK
    <3>2. f \in Frames /\ f.pc = "any" /\ f.targets = subscribers[TypeOf(f.event)]
      BY <1>2, <3>1 DEF Publishes, Frames
    <3>3. stack' = [stack EXCEPT ![t] = [stack[t] EXCEPT ![1] = f]]
      BY <2>2 DEF CopySpecific
    <3> HIDE DEF f
    <3> QED
      BY <3>2, <3>3
  <2> QED
    BY <2>1, <2>2
<1> DEFINE s == [stack[t] EXCEPT ![1] = f]
<1>4. /\ s \in Seq(Frames) /\ Len(s) = Len(stack[t]) /\ s[1] = f
      /\ \A i \in 2 .. Len(stack[t]) : s[i] = stack[t][i]
  BY <1>1, <1>2, ReplaceTop
<1>5. Alternate(s)
  BY <1>1, <1>2, <1>3, TopAlternates DEF FanInv
<1>6. stack' = [stack EXCEPT ![t] = s]
  BY <1>3
<1> HIDE DEF s
<1>7. Len(s) \in Nat /\ Len(stack[t]) \in Nat /\ s # <<>>
  BY <1>1, <1>2, <1>4, EmptySeq
<1>8. FanOuts(s) = FanOuts(stack[t])
  <2>1. Innermost(s) = 3 /\ Innermost(stack[t]) = 3
    BY <1>1, <1>3, <1>4, <1>7 DEF Innermost
  <2>2. \A i \in 3 .. Len(stack[t]) : Fan(s[i + (3 - 3)]) = Fan(stack[t][i])
    BY <1>4
  <2>3. Len(s) - 3 = Len(stack[t]) - 3
    BY <1>4
  <2> QED
    BY <1>7, <2>1, <2>2, <2>3, SameFanOuts
<1> QED
  BY <1>1, <1>3, <1>4, <1>5, <1>6, <1>8, OneThreadFansOut

\* The end of the critical section is the instant of the fan-out.
LEMMA CopyFansOut ==
  ASSUME BusInv, FanInv, NEW t \in Threads, CopyAny(t)
  PROVE  FanInv' /\ Abstract!Next
<1> DEFINE e == stack[t][1]
           all == subscribers[TypeOf(e.event)] \o subscribers[Any]
           f == [e EXCEPT !.targets = e.targets \o subscribers[Any], !.pc = "fan_out"]
           s == [stack[t] EXCEPT ![1] = f]
<1>1. stack[t] # <<>> /\ e.pc = "any" /\ subscribers' = subscribers
  BY DEF CopyAny, At
<1>2. e \in Publishes /\ stack[t] \in Seq(Frames)
  BY <1>1, TopFrame
<1>3. e.targets = subscribers[TypeOf(e.event)] /\ e.event \in Events
  BY <1>1, <1>2 DEF FanInv, At, Publishes
<1>4. e.targets \o subscribers[Any] \in Seq(Callbacks)
  <2>1. e.targets \in Seq(Callbacks)
    BY <1>2 DEF Publishes
  <2>2. subscribers[Any] \in Seq(Callbacks)
    BY ProgramsAssumption DEF BusInv, TypeOK
  <2> QED
    BY <2>1, <2>2
<1>5. f \in Frames /\ f.pc = "fan_out" /\ f.event = e.event /\ f.targets = all
  BY <1>2, <1>3, <1>4 DEF Publishes, Frames
<1>6. stack' = [stack EXCEPT ![t] = s]
  BY DEF CopyAny
<1> HIDE DEF f, all
<1>7. /\ s \in Seq(Frames) /\ Len(s) = Len(stack[t]) /\ s[1] = f
      /\ \A i \in 2 .. Len(stack[t]) : s[i] = stack[t][i]
  BY <1>1, <1>2, <1>5, ReplaceTop
<1>8. Alternate(s)
  BY <1>1, <1>2, <1>5, TopAlternates DEF FanInv
<1> HIDE DEF s
<1>9. Len(stack[t]) \in Nat /\ Len(stack[t]) >= 2
  BY <1>1, <1>2, PublishHasCaller DEF FanInv
<1>10. s # <<>>
  BY <1>7, <1>9
<1>11. FanOuts(s) = <<Fan(s[1])>> \o FanOuts(stack[t])
  <2>1. Innermost(s) = 1 /\ Innermost(stack[t]) = 3
    BY <1>1, <1>5, <1>7, <1>10 DEF Innermost
  <2> QED
    BY <1>7, <1>9, <2>1, OneMoreFanOut
<1>12. Fan(s[1]) = [event |-> e.event, targets |-> all]
  BY <1>5, <1>7 DEF Fan
<1>13. /\ FanInv' /\ Owed' = [Owed EXCEPT ![t] = FanOuts(s)]
       /\ t \in DOMAIN Owed /\ Owed[t] = FanOuts(stack[t])
  BY <1>1, <1>5, <1>6, <1>7, <1>8, OneThreadFansOut
<1>14. Owed' = [Owed EXCEPT ![t] = <<[event |-> e.event, targets |-> all]>> \o @]
  BY <1>11, <1>12, <1>13
<1>15. Abstract!Open(t, e.event)
  BY <1>1, <1>14 DEF Abstract!Open, Owed, all
<1> QED
  BY <1>3, <1>13, <1>15 DEF Abstract!Next

\* A callback is called: a delivery.
LEMMA InvokeFansOut ==
  ASSUME BusInv, FanInv, NEW t \in Threads, Invoke(t)
  PROVE  FanInv' /\ Abstract!Next
<1> DEFINE e == stack[t][1]
           callee == RunBody(Body(Head(e.targets)))
           rest == [e EXCEPT !.targets = Tail(e.targets)]
           s == <<callee, rest>> \o Tail(stack[t])
<1>1. stack[t] # <<>> /\ e.pc = "fan_out" /\ e.targets # <<>>
  BY DEF Invoke, At
<1>2. e \in Publishes /\ stack[t] \in Seq(Frames)
  BY <1>1, TopFrame
<1>3. Head(e.targets) \in Callbacks /\ Tail(e.targets) \in Seq(Callbacks)
  <2>1. e.targets \in Seq(Callbacks)
    BY <1>2 DEF Publishes
  <2> QED
    BY <1>1, <2>1
<1>4. callee \in Frames /\ callee.pc = "body"
  BY <1>3, ProgramsAssumption DEF RunBody, Bodies, Frames
<1>5. /\ rest \in Frames /\ rest.pc = "fan_out"
      /\ rest.event = e.event /\ rest.targets = Tail(e.targets)
  BY <1>1, <1>2, <1>3 DEF Publishes, Frames
<1>6. stack' = [stack EXCEPT ![t] = s] /\ subscribers' = subscribers
  BY DEF Invoke
<1> HIDE DEF callee, rest
<1>7. /\ s \in Seq(Frames) /\ Len(s) = Len(stack[t]) + 1 /\ s[1] = callee /\ s[2] = rest
      /\ \A i \in 3 .. Len(stack[t]) + 1 : s[i] = stack[t][i - 1]
  BY <1>1, <1>2, <1>4, <1>5, PushTop
<1>8. Alternate(s)
  BY <1>1, <1>2, <1>4, <1>5, PushAlternates DEF FanInv
<1> HIDE DEF s
<1>9. Len(stack[t]) \in Nat /\ Len(stack[t]) >= 2
  BY <1>1, <1>2, PublishHasCaller DEF FanInv
<1>10. s # <<>>
  BY <1>7, <1>9
<1>11. /\ FanOuts(stack[t]) # <<>> /\ FanOuts(stack[t])[1] = Fan(e)
       /\ FanOuts(s) = [FanOuts(stack[t]) EXCEPT ![1].targets = Tail(@)]
  <2>1. Innermost(s) = 2 /\ Innermost(stack[t]) = 1
    BY <1>1, <1>4, <1>7, <1>10 DEF Innermost
  <2>2. \A i \in 2 .. Len(stack[t]) : s[i + 1] = stack[t][i]
    <3> SUFFICES ASSUME NEW i \in 2 .. Len(stack[t])
                 PROVE  s[i + 1] = stack[t][i]
      OBVIOUS
    <3>1. i + 1 \in 3 .. Len(stack[t]) + 1 /\ (i + 1) - 1 = i
      BY <1>9
    <3> QED
      BY <1>7, <3>1
  <2>3. s[2].event = stack[t][1].event /\ s[2].targets = Tail(stack[t][1].targets)
    BY <1>5, <1>7
  <2> QED
    BY <1>7, <1>9, <2>1, <2>2, <2>3, NextTarget
<1>12. /\ FanInv' /\ Owed' = [Owed EXCEPT ![t] = FanOuts(s)]
       /\ t \in DOMAIN Owed /\ Owed[t] = FanOuts(stack[t])
  BY <1>4, <1>6, <1>7, <1>8, OneThreadFansOut
<1>13. Owed[t] # <<>> /\ Owed[t][1].targets # <<>>
  BY <1>1, <1>11, <1>12 DEF Fan
<1>14. Owed' = [Owed EXCEPT ![t][1].targets = Tail(@)]
  BY <1>11, <1>12
<1>15. Abstract!Deliver(t)
  BY <1>6, <1>13, <1>14 DEF Abstract!Deliver, Owed
<1> QED
  BY <1>12, <1>15 DEF Abstract!Next

\* A publish() that returns has served all it owed; a body that returns owes nothing.
LEMMA ReturnFansOut ==
  ASSUME BusInv, FanInv, NEW t \in Threads, Return(t)
  PROVE  FanInv' /\ (Abstract!Next \/ Owed' = Owed)
<1> DEFINE s == Tail(stack[t])
<1>1. stack[t] # <<>> /\ stack' = [stack EXCEPT ![t] = s] /\ subscribers' = subscribers
  BY DEF Return, At
<1>2. stack[t] \in Seq(Frames)
  BY <1>1, TopFrame
<1>3. s \in Seq(Frames) /\ Len(s) = Len(stack[t]) - 1 /\ \A i \in 1 .. Len(s) : s[i] = stack[t][i + 1]
  BY <1>1, <1>2, PopTop
<1>4. Alternate(s) /\ Alternate(stack[t])
  BY <1>1, <1>2, PopAlternates DEF FanInv
<1>5. stack[t][1].pc # "any"
  BY DEF Return, At
<1> HIDE DEF s
<1>6. Len(stack[t]) \in Nat /\ Len(s) \in Nat /\ Len(stack[t]) >= 1
  BY <1>1, <1>2, <1>3, EmptySeq
<1>7. s # <<>> => s[1].pc # "any" /\ s[1] = stack[t][2] /\ 1 \in 1 .. Len(stack[t]) - 1
  <2> SUFFICES ASSUME s # <<>>
               PROVE  s[1].pc # "any" /\ s[1] = stack[t][2] /\ 1 \in 1 .. Len(stack[t]) - 1
    OBVIOUS
  <2>1. 1 \in 1 .. Len(s) /\ 1 \in 1 .. Len(stack[t]) - 1 /\ 1 + 1 = 2
    BY <1>3, <1>6, EmptySeq
  <2>2. s[1] = stack[t][2]
    BY <1>3, <2>1
  <2>3. stack[t][2].pc \in {"body", "fan_out"}
    BY <1>4, <2>1 DEF Alternate
  <2> QED
    BY <2>1, <2>2, <2>3
<1>8. /\ FanInv' /\ Owed' = [Owed EXCEPT ![t] = FanOuts(s)]
      /\ FanOuts(s) = FanOuts(stack[t]) => Owed' = Owed
      /\ t \in DOMAIN Owed /\ Owed[t] = FanOuts(stack[t])
  BY <1>1, <1>3, <1>4, <1>7, OneThreadFansOut
<1>9. CASE stack[t][1].pc = "body"
  <2>1. Innermost(stack[t]) = 2
    BY <1>9 DEF Innermost
  <2>2. CASE s = <<>>
    <3>1. Innermost(s) = 2 /\ Len(s) = 0 /\ Len(stack[t]) = 1
      BY <1>3, <1>6, <2>2 DEF Innermost
    <3>2. Count(s) = Count(stack[t]) /\ 1 .. Count(s) = {} /\ 1 .. Count(stack[t]) = {}
      BY <2>1, <3>1 DEF Count
    <3>3. FanOuts(s) = FanOuts(stack[t])
      BY <3>2, FanOutsAre
    <3> QED
      BY <1>8, <3>3
  <2>3. CASE s # <<>>
    <3>1. s[1].pc = "fan_out"
      BY <1>4, <1>7, <1>9, <2>3 DEF Alternate
    <3>2. Innermost(s) = 1
      BY <2>3, <3>1 DEF Innermost
    <3>3. \A i \in 2 .. Len(stack[t]) : Fan(s[i + (1 - 2)]) = Fan(stack[t][i])
      <4> SUFFICES ASSUME NEW i \in 2 .. Len(stack[t])
                   PROVE  s[i + (1 - 2)] = stack[t][i]
        OBVIOUS
      <4>1. i - 1 \in 1 .. Len(s) /\ (i - 1) + 1 = i /\ i + (1 - 2) = i - 1
        BY <1>3, <1>6
      <4> QED
        BY <1>3, <4>1
    <3>4. Len(s) - 1 = Len(stack[t]) - 2
      BY <1>3, <1>6
    <3>5. FanOuts(s) = FanOuts(stack[t])
      BY <1>6, <2>1, <3>2, <3>3, <3>4, SameFanOuts
    <3> QED
      BY <1>8, <3>5
  <2> QED
    BY <2>2, <2>3
<1>10. CASE stack[t][1].pc = "fan_out"
  <2>1. Len(stack[t]) >= 2 /\ stack[t][2].pc = "body"
    BY <1>1, <1>2, <1>4, <1>10, PublishHasCaller
  <2>2. s # <<>> /\ s[1].pc = "body"
    BY <1>3, <1>6, <1>7, <2>1
  <2>3. Innermost(stack[t]) = 1 /\ Innermost(s) = 2
    BY <1>1, <1>10, <2>2 DEF Innermost
  <2>4. /\ FanOuts(stack[t]) # <<>> /\ FanOuts(stack[t])[1] = Fan(stack[t][1])
        /\ FanOuts(s) = Tail(FanOuts(stack[t]))
    BY <1>3, <1>6, <2>1, <2>3, OneFanOutLess
  <2>5. stack[t][1].targets = <<>>
    BY <1>10 DEF Return, At
  <2>6. Owed[t] # <<>> /\ Owed[t][1].targets = <<>> /\ Owed' = [Owed EXCEPT ![t] = Tail(@)]
    BY <1>8, <2>4, <2>5 DEF Fan
  <2>7. Abstract!Close(t)
    BY <1>1, <2>6 DEF Abstract!Close, Owed
  <2> QED
    BY <1>8, <2>7 DEF Abstract!Next
<1> QED
  BY <1>9, <1>10 DEF Return, At

\* Every step of the bus is a step of the fan-out, or none.
LEMMA BusStepFansOut ==
  BusInv /\ FanInv /\ [Next]_vars => FanInv' /\ [Abstract!Next]_(Abstract!fanoutVars)
<1> SUFFICES ASSUME BusInv, FanInv, [Next]_vars
             PROVE  FanInv' /\ [Abstract!Next]_(Abstract!fanoutVars)
  OBVIOUS
<1>1. ASSUME Owed' = Owed, subscribers' = subscribers
      PROVE  [Abstract!Next]_(Abstract!fanoutVars)
  BY <1>1 DEF Owed, Abstract!fanoutVars
<1>2. ASSUME NEW t \in Threads, Subscribe(t) \/ CopyAny(t) \/ Invoke(t)
      PROVE  FanInv' /\ [Abstract!Next]_(Abstract!fanoutVars)
  BY <1>2, SubscribeFansOut, CopyFansOut, InvokeFansOut
<1>3. ASSUME NEW t \in Threads, Publish(t) \/ Lock(t) \/ CopySpecific(t) \/ Return(t)
      PROVE  FanInv' /\ [Abstract!Next]_(Abstract!fanoutVars)
  <2>1. subscribers' = subscribers
    BY <1>3 DEF Publish, Lock, CopySpecific, Return
  <2>2. FanInv' /\ (Abstract!Next \/ Owed' = Owed)
    BY <1>3, PublishFansOut, LockFansOut, ReturnFansOut
  <2> QED
    BY <1>1, <2>1, <2>2
<1>4. CASE UNCHANGED vars
  <2>1. stack' = stack /\ subscribers' = subscribers /\ Owed' = Owed
    BY <1>4 DEF vars, Owed
  <2>2. FanInv'
    BY <2>1 DEF FanInv, At
  <2> QED
    BY <1>1, <2>1, <2>2
<1> QED
  BY <1>2, <1>3, <1>4 DEF Next, Step

\* The bus implements the fan-out, for any threads, programs and callbacks, however
\* deep callbacks publish and subscribe from inside callbacks: whatever one thread
\* copies under the lock (event_bus.cpp:10-22) is what all subscribers of that
\* instant are, and each of them is called once, in order (event_bus.cpp:23).
THEOREM BusImplementsFanout == Spec => ImplementsFanout
<1>1. Init => FanInv /\ Abstract!Init
  <2> SUFFICES ASSUME Init
               PROVE  FanInv /\ Abstract!Init
    OBVIOUS
  <2>1. ASSUME NEW t \in Threads
        PROVE  Alternate(stack[t]) /\ ~At(t, "any") /\ FanOuts(stack[t]) = <<>>
    <3>1. PICK b : b = RunBody(Program(t))
      OBVIOUS
    <3>2. stack[t] = <<b>> /\ b.pc = "body"
      BY <3>1 DEF Init, RunBody
    <3>3. Len(<<b>>) = 1 /\ <<b>>[1] = b /\ 1 .. 1 - 1 = {}
      OBVIOUS
    <3>4. Innermost(<<b>>) = 2 /\ Count(<<b>>) = 0
      BY <3>2, <3>3 DEF Innermost, Count
    <3>5. FanOuts(<<b>>) = [i \in {} |-> FanAt(<<b>>, i)]
      BY <3>4, FanOutsAre
    <3>6. Alternate(<<b>>)
      BY <3>2, <3>3 DEF Alternate
    <3> QED
      BY <3>2, <3>3, <3>5, <3>6 DEF At
  <2>2. FanInv
    BY <2>1 DEF FanInv
  <2>3. [t \in Threads |-> FanOuts(stack[t])] = [t \in Threads |-> <<>>]
    BY <2>1
  <2> QED
    BY <2>2, <2>3 DEF Init, Abstract!Init
<1> QED
  BY <1>1, BusInvHolds, BusStepFansOut, PTL DEF Spec, ImplementsFanout, Abstract!Spec
=============================================================================
