------------------------- MODULE TelemetryServerProofs -------------------------
(***************************************************************************)
(* What stop() guarantees when it returns, the types of the server's state *)
(* and what it publishes of a stream, for any set of clients, any streams  *)
(* and any number of restarts.                                             *)
(***************************************************************************)
EXTENDS TelemetryServer, WellFoundedInduction, TLAPS

\* The server has a thread only between start() and the end of join(), and the
\* thread shows a client as connected only while it serves one.
StoppedInv ==
  /\ main = "down" => pc = "none"
  /\ pc \in {"none", "loop", "accept"} => client_connected = FALSE

\* The server is stopped before its first start().
LEMMA StoppedInit == Init => StoppedInv
BY DEF Init, StoppedInv

USE DEF mainVars, threadVars, socketVars

\* No step gives a stopped server a thread.
LEMMA StoppedInductive == StoppedInv /\ [Next]_vars => StoppedInv'
<1> SUFFICES ASSUME StoppedInv, [Next]_vars
             PROVE  StoppedInv'
  OBVIOUS
<1> USE DEF StoppedInv
<1>1. CASE Start
  BY <1>1 DEF Start
<1>2. CASE Stop
  BY <1>2 DEF Stop
<1>3. CASE StopStep
  BY <1>3 DEF StopStep, ShutListener, Join
<1>4. CASE TestLoop \/ AcceptErrs \/ AcceptFails \/ TestServe \/ PeerClosed
  BY <1>4 DEF TestLoop, AcceptErrs, AcceptFails, TestServe, PeerClosed
<1>5. CASE Accept
  BY <1>5 DEF Accept
<1>6. CASE Receive
  BY <1>6 DEF Receive
<1>7. CASE Split
  <2>1. pc = "split" /\ pc' \in {"split", "serve"} /\ main' = main
    BY <1>7 DEF Split
  <2> QED
    BY <2>1
<1>8. CASE CloseClient
  BY <1>8 DEF CloseClient
<1>9. ASSUME NEW c \in Clients, Connect(c) \/ Send(c) \/ Leave(c)
      PROVE  StoppedInv'
  BY <1>9 DEF Connect, Send, Leave
<1>10. CASE UNCHANGED vars
  BY <1>10 DEF vars
<1> QED
  BY <1>1, <1>2, <1>3, <1>4, <1>5, <1>6, <1>7, <1>8, <1>9, <1>10 DEF Next, Thread

\* Without a thread no line is published.
LEMMA SilentWhenDown ==
  StoppedInv /\ [Next]_vars
    => [main = "down" => published' = published /\ ~client_connected]_vars
<1> SUFFICES ASSUME StoppedInv, [Next]_vars, main = "down"
             PROVE  published' = published /\ ~client_connected
  OBVIOUS
<1>1. pc = "none" /\ client_connected = FALSE
  BY DEF StoppedInv
<1>2. CASE Next
  <2>1. ~Thread /\ ~AcceptErrs
    BY <1>1 DEF Thread, TestLoop, Accept, AcceptErrs, AcceptFails, TestServe, Receive,
                PeerClosed, Split, CloseClient
  <2>2. CASE Start \/ Stop \/ StopStep
    BY <1>1, <2>2 DEF Start, Stop, StopStep, ShutListener, Join
  <2>3. ASSUME NEW c \in Clients, Connect(c) \/ Send(c) \/ Leave(c)
        PROVE  published' = published
    BY <2>3 DEF Connect, Send, Leave
  <2> QED
    BY <1>1, <1>2, <2>1, <2>2, <2>3 DEF Next
<1>3. CASE UNCHANGED vars
  BY <1>1, <1>3 DEF vars
<1> QED
  BY <1>2, <1>3

\* After stop() (telemetry_server.cpp:59-69) nothing is published and no client
\* is shown as connected until the next start().
THEOREM StoppedServerIsSilent == Spec => StopMeansStopped
<1>1. StoppedInv /\ [Next]_vars => StoppedInv'
  BY StoppedInductive
<1> QED
  BY <1>1, StoppedInit, SilentWhenDown, PTL DEF Spec, StopMeansStopped

-----------------------------------------------------------------------------
(* Types.                                                                  *)

\* The thread is in serve_client() with a client only.
TypeInv ==
  TypeOK /\ (pc \in {"serve", "recv", "split", "close"} => client \in Clients)

\* The two halves of a cut stream are streams.
LEMMA CutStream ==
  ASSUME NEW s \in Streams, NEW n \in 0 .. Len(s)
  PROVE  SubSeq(s, 1, n) \in Streams /\ SubSeq(s, n + 1, Len(s)) \in Streams
BY DEF Streams

\* Two byte streams, one after the other, are one.
LEMMA JoinedStreams ==
  ASSUME NEW s \in Streams, NEW t \in Streams
  PROVE  s \o t \in Streams
BY DEF Streams

\* A set of numbers has a least member.
LEMMA LeastMember ==
  ASSUME NEW T \in SUBSET Nat, T # {}
  PROVE  Min(T) \in T /\ \A n \in T : Min(T) <= n
<1> DEFINE R == OpToRel(<, Nat)
<1>1. IsWellFoundedOn(R, Nat)
  BY NatLessThanWellFounded
<1>2. \A x, y \in Nat : <<y, x>> \in R <=> y < x
  BY DEF OpToRel
<1> HIDE DEF R
<1>3. \E x \in T : \A y \in T : ~ (<<y, x>> \in R)
  BY <1>1, WFMin
<1>4. \E x \in T : \A y \in T : x <= y
  <2>1. PICK x \in T : \A y \in T : ~ (<<y, x>> \in R)
    BY <1>3
  <2>2. ASSUME NEW y \in T
        PROVE  x <= y
    <3>1. x \in Nat /\ y \in Nat /\ ~(y < x)
      BY <1>2, <2>1
    <3> QED
      BY <3>1
  <2> QED
    BY <2>2
<1> QED
  BY <1>4 DEF Min

\* A stream with a newline has a first one.
LEMMA FirstNewline ==
  ASSUME NEW s \in Streams, Contains(s, NL)
  PROVE  SelectInSeq(s, LAMBDA x : x = NL) \in 0 .. Len(s)
<1> DEFINE I == {i \in 1 .. Len(s) : s[i] = NL}
<1>1. Len(s) \in Nat /\ I \subseteq 1 .. Len(s) /\ I # {}
  BY DEF Streams, Contains
<1>2. I \in SUBSET Nat
  BY <1>1
<1>3. SelectInSeq(s, LAMBDA x : x = NL) = Min(I)
  BY <1>1 DEF SelectInSeq
<1> HIDE DEF I
<1>4. Min(I) \in I
  BY <1>1, <1>2, LeastMember
<1> QED
  BY <1>1, <1>3, <1>4

\* The types hold at first.
LEMMA TypeInit == Init => TypeInv
<1> SUFFICES ASSUME Init
             PROVE  TypeInv
  OBVIOUS
<1>1. <<>> \in Streams /\ <<>> \in Seq(Clients) /\ <<>> \in Seq(WellFormed)
  BY DEF Streams
<1>2. {running, listener, client_connected} \subseteq BOOLEAN
  BY DEF Init
<1>3. starts \in 0 .. MaxStarts
  BY ServerAssumption DEF Init
<1> QED
  BY <1>1, <1>2, <1>3 DEF Init, TypeInv, TypeOK

\* recv() appends to the line buffer.
LEMMA ReceiveType == TypeInv /\ Receive => TypeInv'
<1> SUFFICES ASSUME TypeInv, Receive
             PROVE  TypeInv'
  OBVIOUS
<1>1. client \in Clients /\ wire[client] \in Streams /\ received[client] \in Streams /\ pending \in Streams
  BY DEF TypeInv, TypeOK, Receive
<1>2. PICK n \in 1 .. Len(wire[client]) :
        /\ pending' = pending \o SubSeq(wire[client], 1, n)
        /\ received' = [received EXCEPT ![client] = @ \o SubSeq(wire[client], 1, n)]
        /\ wire' = [wire EXCEPT ![client] = SubSeq(@, n + 1, Len(@))]
  BY DEF Receive
<1>3. n \in 0 .. Len(wire[client])
  BY <1>1 DEF Streams
<1>4. /\ SubSeq(wire[client], 1, n) \in Streams
      /\ SubSeq(wire[client], n + 1, Len(wire[client])) \in Streams
  BY <1>1, <1>3, CutStream
<1>5. pending' \in Streams /\ received[client] \o SubSeq(wire[client], 1, n) \in Streams
  BY <1>1, <1>2, <1>4, JoinedStreams
<1>6. wire' \in [Clients -> Streams] /\ received' \in [Clients -> Streams]
  BY <1>2, <1>4, <1>5 DEF TypeInv, TypeOK
<1> QED
  BY <1>5, <1>6 DEF TypeInv, TypeOK, Receive

\* Taking the first line off the buffer leaves a buffer.
LEMMA SplitType == TypeInv /\ Split => TypeInv'
<1> SUFFICES ASSUME TypeInv, Split
             PROVE  TypeInv'
  OBVIOUS
<1> DEFINE nl == SelectInSeq(pending, LAMBDA s : s = NL)
           line == SubSeq(pending, 1, nl - 1)
<1>1. client \in Clients /\ published[client] \in Seq(WellFormed) /\ pending \in Streams
  BY DEF TypeInv, TypeOK, Split
<1>2. CASE ~Contains(pending, NL)
  BY <1>2 DEF TypeInv, TypeOK, Split
<1>3. CASE Contains(pending, NL)
  <2>1. nl \in 0 .. Len(pending)
    BY <1>1, <1>3, FirstNewline
  <2> HIDE DEF nl
  <2>2. pending' = SubSeq(pending, nl + 1, Len(pending)) /\ pc' = pc
    BY <1>3 DEF Split, nl
  <2>3. pending' \in Streams
    BY <1>1, <2>1, <2>2, CutStream
  <2>4. published' = IF Parses(line) THEN [published EXCEPT ![client] = Append(@, line)] ELSE published
    BY <1>3 DEF Split, nl
  <2> HIDE DEF line
  <2>5. published' \in [Clients -> Seq(WellFormed)]
    BY <1>1, <2>4 DEF Parses, TypeInv, TypeOK
  <2> QED
    BY <2>2, <2>3, <2>5 DEF TypeInv, TypeOK, Split
<1> QED
  BY <1>2, <1>3

\* No step leaves the types.
LEMMA TypeInductive == TypeInv /\ [Next]_vars => TypeInv'
<1> SUFFICES ASSUME TypeInv, [Next]_vars
             PROVE  TypeInv'
  OBVIOUS
<1>1. <<>> \in Streams
  BY DEF Streams
<1>2. CASE Start \/ Stop
  <2>1. {running, listener, client_connected}' \subseteq BOOLEAN
    BY <1>2 DEF Start, Stop, TypeInv, TypeOK
  <2>2. starts' \in 0 .. MaxStarts
    BY <1>2, ServerAssumption DEF Start, Stop, TypeInv, TypeOK
  <2> QED
    BY <1>2, <2>1, <2>2 DEF Start, Stop, TypeInv, TypeOK
<1>3. CASE ShutListener
  <2>1. {running, listener, client_connected}' \subseteq BOOLEAN
    BY <1>3 DEF ShutListener, TypeInv, TypeOK
  <2>2. /\ conn' \in [Clients -> {"new", "open", "closed"}] /\ wire' \in [Clients -> Streams]
        /\ backlog' \in Seq(Clients)
    BY <1>1, <1>3 DEF ShutListener, TypeInv, TypeOK
  <2> QED
    BY <1>3, <2>1, <2>2 DEF ShutListener, TypeInv, TypeOK
<1>4. CASE Join \/ TestLoop \/ AcceptErrs \/ AcceptFails \/ TestServe \/ PeerClosed
  BY <1>4 DEF Join, TestLoop, AcceptErrs, AcceptFails, TestServe, PeerClosed, TypeInv, TypeOK
<1>5. CASE Accept
  BY <1>1, <1>5 DEF Accept, TypeInv, TypeOK
<1>6. CASE CloseClient
  BY <1>1, <1>6 DEF CloseClient, TypeInv, TypeOK
<1>7. ASSUME NEW c \in Clients, Connect(c)
      PROVE  TypeInv'
  BY <1>7 DEF Connect, TypeInv, TypeOK
<1>8. ASSUME NEW c \in Clients, Send(c)
      PROVE  TypeInv'
  BY <1>8 DEF Send, TypeInv, TypeOK, Streams
<1>9. ASSUME NEW c \in Clients, Leave(c)
      PROVE  TypeInv'
  BY <1>1, <1>9 DEF Leave, TypeInv, TypeOK
<1>10. CASE UNCHANGED vars
  BY <1>10 DEF vars, TypeInv, TypeOK
<1> QED
  BY <1>2, <1>3, <1>4, <1>5, <1>6, <1>7, <1>8, <1>9, <1>10, ReceiveType, SplitType
     DEF Next, Thread, StopStep

\* The server's state keeps its types, and wherever the thread is between accept()
\* and close() it has a client, for any clients and streams.
THEOREM ServerTypeCorrect ==
  Spec => [](TypeOK /\ (pc \in {"serve", "recv", "split", "close"} => client \in Clients))
<1>1. TypeInv /\ [Next]_vars => TypeInv'
  BY TypeInductive
<1>2. TypeInv => TypeOK /\ (pc \in {"serve", "recv", "split", "close"} => client \in Clients)
  BY DEF TypeInv
<1> QED
  BY <1>1, <1>2, TypeInit, PTL DEF Spec

-----------------------------------------------------------------------------
(* The cut of a stream.                                                    *)

Uncut == [line |-> <<>>, lines |-> <<>>]
IsCut(g, s, k) == g = [n \in 0 .. k |-> IF n = 0 THEN Uncut ELSE Feed(g[n - 1], s[n])]

\* Cutting a stream is the recursion at its length.
LEMMA CutIs == ASSUME NEW s PROVE Cut(s) = (CHOOSE g : IsCut(g, s, Len(s)))[Len(s)]
BY Zenon DEF Cut, IsCut, Uncut

\* The recursion at one symbol.
LEMMA IsCutAt ==
  ASSUME NEW g, NEW s, NEW k \in Nat, IsCut(g, s, k)
  PROVE  g[0] = Uncut /\ \A n \in 1 .. k : g[n] = Feed(g[n - 1], s[n])
<1> HIDE DEF Uncut, Feed
<1>1. g = [n \in 0 .. k |-> IF n = 0 THEN Uncut ELSE Feed(g[n - 1], s[n])]
  BY DEF IsCut
<1>2. \A n \in 0 .. k : g[n] = IF n = 0 THEN Uncut ELSE Feed(g[n - 1], s[n])
  BY <1>1
<1>3. 0 \in 0 .. k /\ \A n \in 1 .. k : n \in 0 .. k /\ n # 0
  OBVIOUS
<1> QED
  BY <1>2, <1>3

\* A stream of any length can be cut.
LEMMA CutExists == ASSUME NEW s, NEW k \in Nat PROVE \E g : IsCut(g, s, k)
<1> DEFINE Bad == {n \in 0 .. k : ~ \E g : IsCut(g, s, n)}
<1> SUFFICES ASSUME Bad # {} PROVE FALSE
  OBVIOUS
<1>1. PICK n \in Bad : \A m \in Bad : n <= m
  <2>1. Bad \in SUBSET Nat
    OBVIOUS
  <2> HIDE DEF Bad
  <2> QED
    BY <2>1, LeastMember
<1>2. n # 0
  <2>1. IsCut([m \in 0 .. 0 |-> Uncut], s, 0)
    <3>1. \A m \in 0 .. 0 : m = 0
      OBVIOUS
    <3> QED
      BY <3>1 DEF IsCut
  <2> QED
    BY <2>1
<1>3. PICK g : IsCut(g, s, n - 1)
  <2>1. n - 1 \in 0 .. k /\ ~(n <= n - 1)
    BY <1>2
  <2> QED
    BY <1>1, <2>1
<1> DEFINE h == [m \in 0 .. n |-> IF m = n THEN Feed(g[n - 1], s[n]) ELSE g[m]]
<1>4. g[0] = Uncut /\ \A m \in 1 .. n - 1 : g[m] = Feed(g[m - 1], s[m])
  BY <1>2, <1>3, IsCutAt
<1>5. ASSUME NEW m \in 0 .. n PROVE h[m] = IF m = 0 THEN Uncut ELSE Feed(h[m - 1], s[m])
  <2> HIDE DEF Bad
  <2>0. n \in Nat /\ n # 0
    BY <1>2 DEF Bad
  <2>1. CASE m = 0
    BY <1>4, <2>0, <2>1
  <2>2. CASE m = n
    <3>1. h[m] = Feed(g[n - 1], s[n]) /\ h[n - 1] = g[n - 1]
      BY <2>0, <2>2
    <3> HIDE DEF h
    <3> QED
      BY <2>0, <2>2, <3>1
  <2>3. CASE m \in 1 .. n - 1
    <3>1. h[m] = g[m] /\ h[m - 1] = g[m - 1] /\ m # 0
      BY <2>0, <2>3
    <3> HIDE DEF h
    <3> QED
      BY <1>4, <2>3, <3>1
  <2> QED
    BY <2>0, <2>1, <2>2, <2>3
<1>6. h = [m \in 0 .. n |-> h[m]]
  OBVIOUS
<1>7. IsCut(h, s, n)
  <2> HIDE DEF h
  <2> QED
    BY <1>5, <1>6 DEF IsCut
<1> QED
  BY <1>7

\* Only the symbols up to k matter to the cut up to k.
LEMMA CutUnique ==
  ASSUME NEW s, NEW t, NEW k \in Nat, NEW i \in Nat, NEW j \in Nat, k <= i, k <= j,
         NEW g, NEW h, IsCut(g, s, i), IsCut(h, t, j), \A n \in 1 .. k : s[n] = t[n]
  PROVE  g[k] = h[k]
<1> DEFINE Bad == {n \in 0 .. k : g[n] # h[n]}
<1> SUFFICES ASSUME Bad # {} PROVE FALSE
  OBVIOUS
<1>1. PICK n \in Bad : \A m \in Bad : n <= m
  <2>1. Bad \in SUBSET Nat
    OBVIOUS
  <2> HIDE DEF Bad
  <2> QED
    BY <2>1, LeastMember
<1>2. /\ g[0] = Uncut /\ \A m \in 1 .. i : g[m] = Feed(g[m - 1], s[m])
      /\ h[0] = Uncut /\ \A m \in 1 .. j : h[m] = Feed(h[m - 1], t[m])
  BY IsCutAt
<1>3. n # 0 /\ n \in 1 .. k
  BY <1>2
<1>4. g[n - 1] = h[n - 1]
  <2>1. n - 1 \in 0 .. k /\ ~(n <= n - 1)
    BY <1>3
  <2> QED
    BY <1>1, <2>1
<1>5. g[n] = h[n]
  <2>1. n \in 1 .. i /\ n \in 1 .. j /\ s[n] = t[n]
    BY <1>3
  <2> QED
    BY <1>2, <1>4, <2>1
<1> QED
  BY <1>5

\* One symbol more.
LEMMA CutOnce ==
  ASSUME NEW S, NEW s \in Seq(S), NEW x \in S
  PROVE  Cut(Append(s, x)) = Feed(Cut(s), x)
<1> DEFINE t == Append(s, x)
           k == Len(s)
           g == CHOOSE f : IsCut(f, s, k)
           h == CHOOSE f : IsCut(f, t, k + 1)
<1>1. k \in Nat /\ Len(t) = k + 1 /\ t[k + 1] = x /\ \A n \in 1 .. k : s[n] = t[n]
  OBVIOUS
<1>2. Cut(s) = g[k] /\ Cut(t) = h[k + 1]
  BY <1>1, CutIs
<1> HIDE DEF t, k
<1>3. IsCut(g, s, k) /\ IsCut(h, t, k + 1)
  <2>1. k \in Nat /\ k + 1 \in Nat
    BY <1>1
  <2> QED
    BY <2>1, CutExists
<1> HIDE DEF g, h
<1>4. g[k] = h[k]
  BY <1>1, <1>3, CutUnique
<1>5. h[k + 1] = Feed(h[k], t[k + 1])
  <2> DEFINE m == k + 1
  <2>1. m \in Nat /\ m \in 1 .. m /\ m - 1 = k /\ IsCut(h, t, m)
    BY <1>1, <1>3
  <2> HIDE DEF m
  <2>2. h[m] = Feed(h[m - 1], t[m])
    BY <2>1, IsCutAt
  <2> QED
    BY <2>1, <2>2 DEF m
<1> QED
  BY <1>1, <1>2, <1>4, <1>5 DEF t

\* Nothing is cut as no lines and no rest.
LEMMA CutNothing == Cut(<<>>) = Uncut
<1> DEFINE g == CHOOSE f : IsCut(f, <<>>, 0)
<1>1. Cut(<<>>) = g[0]
  BY CutIs
<1>2. IsCut(g, <<>>, 0)
  BY CutExists
<1> HIDE DEF g
<1> QED
  BY <1>1, <1>2, IsCutAt

\* The first symbols of a stream, one by one.
LEMMA FirstSymbols ==
  ASSUME NEW t \in Streams
  PROVE  /\ SubSeq(t, 1, 0) = <<>> /\ SubSeq(t, 1, Len(t)) = t
         /\ \A n \in 1 .. Len(t) :
              /\ t[n] \in Symbols \cup {NL}
              /\ SubSeq(t, 1, n) \in Streams /\ SubSeq(t, 1, n - 1) \in Streams
              /\ SubSeq(t, 1, n) = Append(SubSeq(t, 1, n - 1), t[n])
BY DEF Streams

\* One more symbol.
LEMMA FeedKeepsType ==
  ASSUME NEW cut \in [line : Streams, lines : Seq(WellFormed)], NEW x \in Symbols \cup {NL}
  PROVE  Feed(cut, x) \in [line : Streams, lines : Seq(WellFormed)]
<1>1. <<>> \in Streams /\ Append(cut.line, x) \in Streams
  BY DEF Streams
<1>2. cut.line \in WellFormed => Append(cut.lines, cut.line) \in Seq(WellFormed)
  OBVIOUS
<1> QED
  BY <1>1, <1>2 DEF Feed

\* A stream is cut as lines that parse and a rest.
LEMMA CutType ==
  ASSUME NEW s \in Streams
  PROVE  Cut(s) \in [line : Streams, lines : Seq(WellFormed)]
<1> DEFINE first(n) == SubSeq(s, 1, n)
           Bad == {n \in 0 .. Len(s) : Cut(first(n)) \notin [line : Streams, lines : Seq(WellFormed)]}
<1>1. Bad = {}
  <2> SUFFICES ASSUME Bad # {} PROVE FALSE
    OBVIOUS
  <2>1. PICK n \in Bad : \A m \in Bad : n <= m
    <3>1. Bad \in SUBSET Nat
      OBVIOUS
    <3> HIDE DEF Bad
    <3> QED
      BY <3>1, LeastMember
  <2>2. n # 0
    <3>1. Uncut \in [line : Streams, lines : Seq(WellFormed)]
      BY DEF Uncut, Streams
    <3> QED
      BY <3>1, FirstSymbols, CutNothing
  <2>3. n \in 1 .. Len(s) /\ n - 1 \in 0 .. Len(s) /\ ~(n <= n - 1)
    BY <2>2 DEF Streams
  <2>4. Cut(first(n - 1)) \in [line : Streams, lines : Seq(WellFormed)]
    BY <2>1, <2>3
  <2>5. /\ first(n - 1) \in Streams /\ s[n] \in Symbols \cup {NL}
        /\ first(n) = Append(first(n - 1), s[n])
    BY <2>3, FirstSymbols
  <2>6. Cut(first(n)) = Feed(Cut(first(n - 1)), s[n])
    BY <2>5, CutOnce DEF Streams
  <2> QED
    BY <2>4, <2>5, <2>6, FeedKeepsType
<1>2. Cut(first(Len(s))) \in [line : Streams, lines : Seq(WellFormed)]
  BY <1>1 DEF Streams
<1> QED
  BY <1>2, FirstSymbols

\* Two streams that are cut alike stay so, whatever is received after them.
Ahead(s, t, before) == Cut(s).line = Cut(t).line /\ Cut(s).lines = before \o Cut(t).lines

\* One symbol more on both sides.
LEMMA AheadOnce ==
  ASSUME NEW s \in Streams, NEW t \in Streams, NEW before \in Seq(WellFormed), Ahead(s, t, before),
         NEW x \in Symbols \cup {NL}
  PROVE  Ahead(Append(s, x), Append(t, x), before)
<1> DEFINE a == Cut(s)
           b == Cut(t)
<1>1. Cut(Append(s, x)) = Feed(a, x) /\ Cut(Append(t, x)) = Feed(b, x)
  BY CutOnce DEF Streams
<1>2. /\ a \in [line : Streams, lines : Seq(WellFormed)]
      /\ b \in [line : Streams, lines : Seq(WellFormed)]
      /\ a.line = b.line /\ a.lines = before \o b.lines
  BY CutType DEF Ahead
<1> HIDE DEF a, b
<1>3. Feed(a, x).line = Feed(b, x).line
  BY <1>2 DEF Feed
<1>4. ASSUME NEW l \in WellFormed PROVE Append(a.lines, l) = before \o Append(b.lines, l)
  <2>1. PICK w \in Seq(WellFormed) : b.lines = w /\ a.lines = before \o w
    BY <1>2
  <2>2. Append(before \o w, l) = before \o Append(w, l)
    OBVIOUS
  <2> QED
    BY <2>1, <2>2
<1>5. Feed(a, x).lines = before \o Feed(b, x).lines
  BY <1>2, <1>4 DEF Feed
<1> QED
  BY <1>1, <1>3, <1>5 DEF Ahead

\* Any number of symbols more on both sides, as after recv().
LEMMA AheadMore ==
  ASSUME NEW s \in Streams, NEW t \in Streams, NEW before \in Seq(WellFormed), Ahead(s, t, before),
         NEW u \in Streams
  PROVE  Ahead(s \o u, t \o u, before)
<1> DEFINE first(n) == SubSeq(u, 1, n)
           Bad == {n \in 0 .. Len(u) : ~Ahead(s \o first(n), t \o first(n), before)}
<1>1. Bad = {}
  <2> SUFFICES ASSUME Bad # {} PROVE FALSE
    OBVIOUS
  <2>1. PICK n \in Bad : \A m \in Bad : n <= m
    <3>1. Bad \in SUBSET Nat
      OBVIOUS
    <3> HIDE DEF Bad
    <3> QED
      BY <3>1, LeastMember
  <2>2. n # 0
    <3>1. s \o first(0) = s /\ t \o first(0) = t
      BY FirstSymbols DEF Streams
    <3> QED
      BY <3>1
  <2>3. n \in 1 .. Len(u) /\ n - 1 \in 0 .. Len(u) /\ ~(n <= n - 1)
    BY <2>2 DEF Streams
  <2>4. Ahead(s \o first(n - 1), t \o first(n - 1), before)
    BY <2>1, <2>3
  <2>5. /\ first(n - 1) \in Streams /\ u[n] \in Symbols \cup {NL}
        /\ first(n) = Append(first(n - 1), u[n])
    BY <2>3, FirstSymbols
  <2> DEFINE v == first(n - 1)
             x == u[n]
  <2>6. /\ s \o v \in Streams /\ t \o v \in Streams
        /\ s \o Append(v, x) = Append(s \o v, x)
        /\ t \o Append(v, x) = Append(t \o v, x)
    <3> HIDE DEF v, x
    <3> QED
      BY <2>5 DEF Streams, v, x
  <2>7. Ahead(Append(s \o v, x), Append(t \o v, x), before)
    BY <2>4, <2>5, <2>6, AheadOnce
  <2> QED
    BY <2>5, <2>6, <2>7
<1>2. Ahead(s \o first(Len(u)), t \o first(Len(u)), before)
  BY <1>1 DEF Streams
<1> QED
  BY <1>2, FirstSymbols

\* A symbol of a line only lengthens the rest.
LEMMA FeedUnfinished ==
  ASSUME NEW v, NEW w, NEW x, x # NL
  PROVE  Feed([line |-> v, lines |-> w], x) = [line |-> Append(v, x), lines |-> w]
BY DEF Feed

\* Sequences with the same members in the same places are the same.
LEMMA SameSequence ==
  ASSUME NEW S, NEW s \in Seq(S), NEW t \in Seq(S), Len(s) = Len(t),
         \A i \in 1 .. Len(s) : s[i] = t[i]
  PROVE  s = t
<1>1. s = [i \in 1 .. Len(s) |-> s[i]] /\ t = [i \in 1 .. Len(t) |-> t[i]]
  OBVIOUS
<1> QED
  BY <1>1

\* A stream without a newline is one unfinished line.
LEMMA CutUnfinished ==
  ASSUME NEW s \in Streams, \A i \in 1 .. Len(s) : s[i] # NL
  PROVE  Cut(s) = [line |-> s, lines |-> <<>>]
<1> DEFINE first(n) == SubSeq(s, 1, n)
           Bad == {n \in 0 .. Len(s) : Cut(first(n)) # [line |-> first(n), lines |-> <<>>]}
<1>1. Bad = {}
  <2> SUFFICES ASSUME Bad # {} PROVE FALSE
    OBVIOUS
  <2>1. PICK n \in Bad : \A m \in Bad : n <= m
    <3>1. Bad \in SUBSET Nat
      OBVIOUS
    <3> HIDE DEF Bad
    <3> QED
      BY <3>1, LeastMember
  <2>2. n # 0
    BY FirstSymbols, CutNothing DEF Uncut
  <2>3. n \in 1 .. Len(s) /\ n - 1 \in 0 .. Len(s) /\ ~(n <= n - 1)
    BY <2>2 DEF Streams
  <2>4. Cut(first(n - 1)) = [line |-> first(n - 1), lines |-> <<>>]
    BY <2>1, <2>3
  <2>5. /\ first(n - 1) \in Streams /\ s[n] \in Symbols \cup {NL}
        /\ first(n) = Append(first(n - 1), s[n]) /\ s[n] # NL
    BY <2>3, FirstSymbols
  <2>6. Cut(first(n)) = Feed(Cut(first(n - 1)), s[n])
    BY <2>5, CutOnce DEF Streams
  <2>7. Feed([line |-> first(n - 1), lines |-> <<>>], s[n])
          = [line |-> Append(first(n - 1), s[n]), lines |-> <<>>]
    BY <2>5, FeedUnfinished
  <2>8. Cut(first(n)) = [line |-> first(n), lines |-> <<>>]
    <3> HIDE DEF first
    <3> QED
      BY <2>4, <2>5, <2>6, <2>7
  <2> QED
    BY <2>1, <2>8
<1>2. Cut(first(Len(s))) = [line |-> first(Len(s)), lines |-> <<>>]
  <2>1. Len(s) \in 0 .. Len(s)
    BY DEF Streams
  <2> HIDE DEF first
  <2> QED
    BY <1>1, <2>1
<1> QED
  BY <1>2, FirstSymbols

\* The first newline of a stream ends its first line.
LEMMA FirstLine ==
  ASSUME NEW s \in Streams, Contains(s, NL)
  PROVE  LET nl == SelectInSeq(s, LAMBDA x : x = NL)
             line == SubSeq(s, 1, nl - 1)
         IN  /\ nl \in 1 .. Len(s) /\ line \in Streams /\ \A i \in 1 .. Len(line) : line[i] # NL
             /\ SubSeq(s, nl + 1, Len(s)) \in Streams
             /\ s = Append(line, NL) \o SubSeq(s, nl + 1, Len(s))
<1> DEFINE nl == SelectInSeq(s, LAMBDA x : x = NL)
           line == SubSeq(s, 1, nl - 1)
           rest == SubSeq(s, nl + 1, Len(s))
           I == {i \in 1 .. Len(s) : s[i] = NL}
<1>1. Len(s) \in Nat /\ I \subseteq 1 .. Len(s) /\ I # {}
  BY DEF Streams, Contains
<1>2. I \in SUBSET Nat
  BY <1>1
<1>3. nl = Min(I)
  BY <1>1 DEF SelectInSeq
<1>4. Min(I) \in I /\ \A i \in I : Min(I) <= i
  <2> HIDE DEF I
  <2> QED
    BY <1>1, <1>2, LeastMember
<1>5. nl \in 1 .. Len(s) /\ s[nl] = NL /\ \A i \in 1 .. Len(s) : s[i] = NL => nl <= i
  <2> HIDE DEF nl
  <2> QED
    BY <1>3, <1>4
<1> HIDE DEF nl, I
<1>6. line \in Streams /\ rest \in Streams /\ Len(line) = nl - 1 /\ Len(rest) = Len(s) - nl
  BY <1>1, <1>5 DEF Streams
<1>7. \A i \in 1 .. nl - 1 : line[i] = s[i]
  BY <1>1, <1>5 DEF Streams
<1>8. \A i \in 1 .. Len(s) - nl : rest[i] = s[nl + i]
  BY <1>1, <1>5 DEF Streams
<1>9. \A i \in 1 .. Len(line) : line[i] # NL
  <2> HIDE DEF line
  <2> QED
    BY <1>1, <1>5, <1>6, <1>7
<1>10. s = Append(line, NL) \o rest
  <2> DEFINE a == Append(line, NL)
  <2>1. a \in Streams /\ Len(a) = nl /\ a[nl] = NL /\ \A i \in 1 .. nl - 1 : a[i] = s[i]
    <3> HIDE DEF line
    <3> QED
      BY <1>5, <1>6, <1>7 DEF Streams
  <2> HIDE DEF a, rest
  <2>2. /\ a \o rest \in Streams /\ Len(a \o rest) = Len(s)
        /\ \A i \in 1 .. Len(s) : (a \o rest)[i] = IF i <= nl THEN a[i] ELSE rest[i - nl]
    BY <1>1, <1>5, <1>6, <2>1 DEF Streams
  <2>3. ASSUME NEW i \in 1 .. Len(s) PROVE (a \o rest)[i] = s[i]
    <3>1. CASE i <= nl
      BY <1>5, <2>1, <2>2, <3>1
    <3>2. CASE ~(i <= nl)
      <4>1. i - nl \in 1 .. Len(s) - nl /\ nl + (i - nl) = i
        BY <1>1, <1>5, <3>2
      <4> QED
        BY <1>8, <2>2, <3>2, <4>1
    <3> QED
      BY <3>1, <3>2
  <2> QED
    <3>1. s = a \o rest
      BY <2>2, <2>3, SameSequence DEF Streams
    <3> QED
      BY <3>1 DEF a
<1> QED
  BY <1>5, <1>6, <1>9, <1>10 DEF nl

\* Cutting off the first line of a stream takes what that line says from its lines.
LEMMA FirstLineCut ==
  ASSUME NEW s \in Streams, Contains(s, NL)
  PROVE  LET nl == SelectInSeq(s, LAMBDA x : x = NL)
             line == SubSeq(s, 1, nl - 1)
             said == IF Parses(line) THEN <<line>> ELSE <<>>
         IN  said \in Seq(WellFormed) /\ Ahead(s, SubSeq(s, nl + 1, Len(s)), said)
<1> DEFINE nl == SelectInSeq(s, LAMBDA x : x = NL)
           line == SubSeq(s, 1, nl - 1)
           rest == SubSeq(s, nl + 1, Len(s))
           said == IF Parses(line) THEN <<line>> ELSE <<>>
           a == Append(line, NL)
<1>1. /\ line \in Streams /\ \A i \in 1 .. Len(line) : line[i] # NL
      /\ rest \in Streams /\ s = a \o rest
  BY FirstLine
<1> HIDE DEF nl, line, rest
<1>2. Cut(line) = [line |-> line, lines |-> <<>>]
  BY <1>1, CutUnfinished
<1>3. Cut(a) = Feed(Cut(line), NL)
  BY <1>1, CutOnce DEF Streams
<1>4. Parses(line) <=> line \in WellFormed
  BY ServerAssumption DEF Parses
<1>5. Cut(a) = [line |-> <<>>, lines |-> said]
  BY <1>2, <1>3, <1>4 DEF Feed
<1>6. said \in Seq(WellFormed) /\ a \in Streams /\ <<>> \in Streams
  BY <1>1, <1>4 DEF Streams
<1> HIDE DEF said, a
<1>7. Ahead(a, <<>>, said)
  BY <1>5, <1>6, CutNothing DEF Ahead, Uncut
<1>8. Ahead(a \o rest, <<>> \o rest, said)
  BY <1>1, <1>6, <1>7, AheadMore
<1>9. <<>> \o rest = rest
  BY <1>1 DEF Streams
<1> QED
  BY <1>1, <1>6, <1>8, <1>9 DEF said, line, rest, nl

-----------------------------------------------------------------------------
(* Framing.                                                                *)

\* A client is served once: until then nothing was received of it, and while it
\* is served what was received is cut as what is published and still buffered.
Untouched(c) == conn[c] = "new" \/ c \in ToSet(backlog)
FramingInv ==
  /\ TypeInv /\ StoppedInv
  /\ pc \in {"none", "loop", "accept"} => client = NoClient
  /\ pc \in {"serve", "recv", "close"} => ~Contains(pending, NL)
  /\ client # NoClient => Ahead(received[client], pending, published[client])
  /\ \A c \in Clients : c # client => Lines(received[c]) = published[c]
  /\ \A c \in Clients : Untouched(c) => c # client /\ received[c] = <<>>
  /\ \A c \in Clients : conn[c] = "new" => c \notin ToSet(backlog)
  /\ \A i, j \in 1 .. Len(backlog) : i < j => backlog[i] # backlog[j]

\* Lines taken off in two steps are the lines taken off in one.
LEMMA AheadTwice ==
  ASSUME NEW s \in Streams, NEW t \in Streams, NEW u \in Streams,
         NEW b \in Seq(WellFormed), NEW d \in Seq(WellFormed), Ahead(s, t, b), Ahead(t, u, d)
  PROVE  Ahead(s, u, b \o d)
<1>1. PICK w \in Seq(WellFormed) : Cut(u).lines = w
  BY CutType
<1>2. b \o (d \o w) = (b \o d) \o w
  OBVIOUS
<1> QED
  BY <1>1, <1>2 DEF Ahead

\* Nothing received, nothing published.
LEMMA FramingAtStart == Init => FramingInv
<1> SUFFICES ASSUME Init PROVE FramingInv
  OBVIOUS
<1>1. TypeInv /\ StoppedInv
  BY TypeInit, StoppedInit
<1>2. Lines(<<>>) = <<>>
  BY CutNothing DEF Lines, Uncut
<1>3. Len(backlog) = 0 /\ ToSet(backlog) = {}
  BY DEF Init, ToSet
<1> QED
  BY <1>1, <1>2, <1>3, ServerAssumption DEF Init, FramingInv, Untouched

\* The steps that neither receive nor split nor change the client.
LEMMA OthersKeepFraming ==
  ASSUME FramingInv, TypeInv', StoppedInv', UNCHANGED <<client, pending, received, published>>,
         \A c \in Clients : Untouched(c)' => Untouched(c),
         \A c \in Clients : conn'[c] = "new" => c \notin ToSet(backlog'),
         \A i, j \in 1 .. Len(backlog') : i < j => backlog'[i] # backlog'[j],
         pc' \in {"none", "loop", "accept"} => pc \in {"none", "loop", "accept"},
         pc' \in {"serve", "recv", "close"} => pc \in {"serve", "recv", "close"} \/ ~Contains(pending, NL)
  PROVE  FramingInv'
BY DEF FramingInv

\* A new client finds an empty buffer.
LEMMA AcceptKeepsFraming ==
  ASSUME FramingInv, TypeInv', StoppedInv', Accept
  PROVE  FramingInv'
<1> DEFINE new == Head(backlog)
<1>1. /\ client = NoClient /\ client' = new /\ backlog' = Tail(backlog) /\ pending' = <<>>
      /\ pc' = "serve" /\ UNCHANGED <<published, conn, received>>
      /\ backlog \in Seq(Clients) /\ backlog # <<>>
  BY DEF Accept, FramingInv, TypeInv, TypeOK
<1>2. /\ new \in Clients /\ new \in ToSet(backlog) /\ new = backlog[1]
      /\ Len(backlog') = Len(backlog) - 1 /\ Len(backlog) \in Nat \ {0}
      /\ \A i \in 1 .. Len(backlog') : backlog'[i] = backlog[i + 1]
  BY <1>1 DEF ToSet
<1>3. received[new] = <<>> /\ conn[new] # "new" /\ published[new] = <<>>
  <2>1. Lines(<<>>) = <<>>
    BY CutNothing DEF Lines, Uncut
  <2> HIDE DEF new
  <2> QED
    BY <1>1, <1>2, <2>1, ServerAssumption DEF FramingInv, Untouched
<1>4. Ahead(received'[client'], pending', published'[client'])
  BY <1>1, <1>3, CutNothing DEF Ahead, Uncut
<1>5. /\ \A i, j \in 1 .. Len(backlog') : i < j => backlog'[i] # backlog'[j]
      /\ new \notin ToSet(backlog') /\ ToSet(backlog') \subseteq ToSet(backlog)
  <2>1. \A i, j \in 1 .. Len(backlog) : i < j => backlog[i] # backlog[j]
    BY DEF FramingInv
  <2>2. \A i \in 1 .. Len(backlog') : i + 1 \in 1 .. Len(backlog) /\ 1 < i + 1
    BY <1>2
  <2>3. /\ ToSet(backlog') = {backlog'[i] : i \in 1 .. Len(backlog')}
        /\ ToSet(backlog) = {backlog[i] : i \in 1 .. Len(backlog)}
    <3>1. DOMAIN backlog' = 1 .. Len(backlog') /\ DOMAIN backlog = 1 .. Len(backlog)
      BY <1>1
    <3> QED
      BY <3>1 DEF ToSet
  <2>4. \A i, j \in 1 .. Len(backlog') : i < j => backlog'[i] # backlog'[j]
    BY <1>2, <2>1, <2>2
  <2>5. 1 \in 1 .. Len(backlog)
    BY <1>2
  <2> HIDE DEF new
  <2> QED
    BY <1>2, <2>1, <2>2, <2>3, <2>4, <2>5
<1>6. ~Contains(pending', NL)
  BY <1>1 DEF Contains
<1> HIDE DEF new
<1>7. \A c \in Clients : Untouched(c)' => c # new /\ Untouched(c)
  BY <1>1, <1>3, <1>5 DEF Untouched
<1> QED
  BY <1>1, <1>2, <1>4, <1>5, <1>6, <1>7, ServerAssumption DEF FramingInv

\* recv() adds the same to what was received and to the buffer.
LEMMA ReceiveKeepsFraming ==
  ASSUME FramingInv, TypeInv', StoppedInv', Receive
  PROVE  FramingInv'
<1>1. /\ client \in Clients /\ client # NoClient /\ wire[client] \in Streams
      /\ received \in [Clients -> Streams] /\ pending \in Streams
      /\ published[client] \in Seq(WellFormed) /\ Ahead(received[client], pending, published[client])
  BY ServerAssumption DEF FramingInv, TypeInv, TypeOK, Receive
<1>2. PICK n \in 1 .. Len(wire[client]) :
        /\ pending' = pending \o SubSeq(wire[client], 1, n)
        /\ received' = [received EXCEPT ![client] = @ \o SubSeq(wire[client], 1, n)]
  BY DEF Receive
<1>3. SubSeq(wire[client], 1, n) \in Streams
  <2>1. n \in 0 .. Len(wire[client])
    BY <1>1 DEF Streams
  <2> QED
    BY <1>1, <2>1, CutStream
<1>4. Ahead(received'[client], pending', published[client])
  BY <1>1, <1>2, <1>3, AheadMore
<1>5. pc' = "split" /\ UNCHANGED <<client, published, conn, backlog>>
  BY DEF Receive
<1>6. \A c \in Clients : c # client => received'[c] = received[c]
  BY <1>1, <1>2
<1>7. \A c \in Clients : Untouched(c)' = Untouched(c)
  BY <1>5 DEF Untouched
<1> QED
  BY <1>4, <1>5, <1>6, <1>7 DEF FramingInv

\* A line leaves the buffer and is published, or dropped if it does not parse.
LEMMA SplitKeepsFraming ==
  ASSUME FramingInv, TypeInv', StoppedInv', Split
  PROVE  FramingInv'
<1> DEFINE nl == SelectInSeq(pending, LAMBDA s : s = NL)
           line == SubSeq(pending, 1, nl - 1)
           said == IF Parses(line) THEN <<line>> ELSE <<>>
           rest == SubSeq(pending, nl + 1, Len(pending))
<1>1. /\ client \in Clients /\ client # NoClient /\ received[client] \in Streams /\ pending \in Streams
      /\ published \in [Clients -> Seq(WellFormed)] /\ Ahead(received[client], pending, published[client])
  BY ServerAssumption DEF FramingInv, TypeInv, TypeOK, Split
<1>2. UNCHANGED <<client, conn, backlog, received>> /\ \A c \in Clients : Untouched(c)' = Untouched(c)
  BY DEF Split, Untouched
<1>3. CASE ~Contains(pending, NL)
  <2>1. pc' = "serve" /\ pending' = pending /\ published' = published
    BY <1>3 DEF Split
  <2> QED
    BY <1>2, <1>3, <2>1, OthersKeepFraming DEF FramingInv
<1>4. CASE Contains(pending, NL)
  <2>1. said \in Seq(WellFormed) /\ Ahead(pending, rest, said)
    BY <1>1, <1>4, FirstLineCut
  <2>2. pending' = rest /\ pc' = "split"
    BY <1>4 DEF Split
  <2>3. published' = IF Parses(line) THEN [published EXCEPT ![client] = Append(@, line)] ELSE published
    BY <1>4 DEF Split
  <2>4. rest \in Streams
    BY <1>1, <1>4, FirstLine
  <2> HIDE DEF nl, line, rest
  <2>5. published'[client] = published[client] \o said /\ \A c \in Clients : c # client => published'[c] = published[c]
    <3>1. CASE Parses(line)
      <4>1. PICK w \in Seq(WellFormed) : published[client] = w
        BY <1>1
      <4>2. line \in WellFormed /\ said = <<line>>
        BY <3>1 DEF Parses
      <4>3. Append(w, line) = w \o <<line>>
        BY <4>2
      <4> QED
        BY <1>1, <2>3, <3>1, <4>1, <4>2, <4>3
    <3>2. CASE ~Parses(line)
      <4>1. PICK w \in Seq(WellFormed) : published[client] = w
        BY <1>1
      <4>2. w \o <<>> = w
        OBVIOUS
      <4> QED
        BY <2>3, <3>2, <4>1, <4>2
    <3> QED
      BY <3>1, <3>2
  <2> HIDE DEF said
  <2>6. Ahead(received[client], rest, published[client] \o said)
    BY <1>1, <2>1, <2>4, AheadTwice
  <2>7. Ahead(received'[client'], pending', published'[client'])
    BY <1>2, <2>2, <2>5, <2>6
  <2> QED
    BY <1>1, <1>2, <2>2, <2>5, <2>7 DEF FramingInv
<1> QED
  BY <1>3, <1>4

\* The end of a client drops its unfinished line.
LEMMA CloseKeepsFraming ==
  ASSUME FramingInv, TypeInv', StoppedInv', CloseClient
  PROVE  FramingInv'
<1>1. /\ client \in Clients /\ client # NoClient /\ received[client] \in Streams /\ pending \in Streams
      /\ published[client] \in Seq(WellFormed) /\ Ahead(received[client], pending, published[client])
      /\ ~Contains(pending, NL)
  BY ServerAssumption DEF FramingInv, TypeInv, TypeOK, CloseClient
<1>2. Lines(received[client]) = published[client]
  <2>1. Cut(pending).lines = <<>>
    <3>1. \A i \in 1 .. Len(pending) : pending[i] # NL
      BY <1>1 DEF Contains
    <3> QED
      BY <1>1, <3>1, CutUnfinished
  <2>2. PICK w \in Seq(WellFormed) : published[client] = w
    BY <1>1
  <2>3. w \o <<>> = w
    OBVIOUS
  <2> QED
    BY <1>1, <2>1, <2>2, <2>3 DEF Ahead, Lines
<1>3. /\ client' = NoClient /\ pc' = "loop" /\ conn' = [conn EXCEPT ![client] = "closed"]
      /\ UNCHANGED <<published, backlog, received>>
  BY DEF CloseClient
<1>4. \A c \in Clients : Untouched(c)' => Untouched(c)
  BY <1>1, <1>3 DEF Untouched, FramingInv, TypeInv, TypeOK
<1>5. \A c \in Clients : conn'[c] = "new" => conn[c] = "new"
  BY <1>1, <1>3 DEF FramingInv, TypeInv, TypeOK
<1> QED
  BY <1>2, <1>3, <1>4, <1>5, ServerAssumption DEF FramingInv

\* A client that connects has sent nothing yet.
LEMMA ConnectKeepsFraming ==
  ASSUME FramingInv, TypeInv', StoppedInv', NEW c \in Clients, Connect(c)
  PROVE  FramingInv'
<1>1. /\ conn[c] = "new" /\ conn' = [conn EXCEPT ![c] = "open"] /\ backlog' = Append(backlog, c)
      /\ UNCHANGED <<pc, client, pending, published, received>>
      /\ conn \in [Clients -> {"new", "open", "closed"}] /\ backlog \in Seq(Clients)
      /\ c \notin ToSet(backlog)
  BY DEF Connect, FramingInv, TypeInv, TypeOK
<1>2. /\ Len(backlog') = Len(backlog) + 1 /\ Len(backlog) \in Nat /\ backlog'[Len(backlog) + 1] = c
      /\ \A i \in 1 .. Len(backlog) : backlog'[i] = backlog[i] /\ backlog[i] # c
  BY <1>1 DEF ToSet
<1>3. ToSet(backlog') = ToSet(backlog) \cup {c}
  <2>1. /\ ToSet(backlog') = {backlog'[i] : i \in 1 .. Len(backlog) + 1}
        /\ ToSet(backlog) = {backlog[i] : i \in 1 .. Len(backlog)}
    BY <1>1, <1>2 DEF ToSet
  <2> QED
    BY <1>2, <2>1
<1>4. \A i, j \in 1 .. Len(backlog') : i < j => backlog'[i] # backlog'[j]
  <2>1. ASSUME NEW i \in 1 .. Len(backlog'), NEW j \in 1 .. Len(backlog'), i < j
        PROVE  backlog'[i] # backlog'[j]
    <3>1. i \in 1 .. Len(backlog) /\ (j \in 1 .. Len(backlog) \/ j = Len(backlog) + 1)
      BY <1>2, <2>1
    <3> QED
      BY <1>2, <2>1, <3>1 DEF FramingInv
  <2> QED
    BY <2>1
<1>5. /\ \A d \in Clients : Untouched(d)' => Untouched(d)
      /\ \A d \in Clients : conn'[d] = "new" => d \notin ToSet(backlog')
  BY <1>1, <1>3 DEF Untouched, FramingInv
<1> QED
  BY <1>1, <1>4, <1>5, OthersKeepFraming

\* No step loses, repeats or cuts a line.
LEMMA FramingInductive == FramingInv /\ [Next]_vars => FramingInv'
<1> SUFFICES ASSUME FramingInv, [Next]_vars PROVE FramingInv'
  OBVIOUS
<1>1. TypeInv' /\ StoppedInv'
  BY TypeInductive, StoppedInductive DEF FramingInv
<1>2. CASE Start
  <2>1. pc = "none" /\ pc' = "loop" /\ UNCHANGED <<client, pending, received, published, conn, backlog>>
    BY <1>2 DEF Start, FramingInv, StoppedInv
  <2> QED
    BY <1>1, <2>1, OthersKeepFraming DEF FramingInv, Untouched
<1>3. CASE Stop \/ Join \/ TestLoop \/ AcceptErrs \/ AcceptFails \/ TestServe \/ PeerClosed \/ UNCHANGED vars
  <2>1. UNCHANGED <<client, pending, received, published, conn, backlog>>
    BY <1>3 DEF Stop, Join, TestLoop, AcceptErrs, AcceptFails, TestServe, PeerClosed, vars
  <2>2. \/ pc \in {"none", "loop", "accept"} /\ pc' \in {"none", "loop", "accept"}
        \/ pc \in {"serve", "recv", "close"} /\ pc' \in {"serve", "recv", "close"}
        \/ pc' = pc
    BY <1>3 DEF Stop, Join, TestLoop, AcceptErrs, AcceptFails, TestServe, PeerClosed, vars
  <2>3. \A c \in Clients : Untouched(c)' = Untouched(c)
    BY <2>1 DEF Untouched
  <2> QED
    BY <1>1, <2>1, <2>2, <2>3, OthersKeepFraming DEF FramingInv
<1>4. CASE ShutListener
  <2>1. /\ UNCHANGED <<pc, client, pending, received, published>> /\ backlog' = <<>>
        /\ conn' = [c \in Clients |-> IF c \in ToSet(backlog) THEN "closed" ELSE conn[c]]
    BY <1>4 DEF ShutListener
  <2>2. Len(backlog') = 0 /\ ToSet(backlog') = {}
    BY <2>1 DEF ToSet
  <2>3. \A c \in Clients : Untouched(c)' => Untouched(c)
    BY <2>1, <2>2 DEF Untouched
  <2> QED
    BY <1>1, <2>1, <2>2, <2>3, OthersKeepFraming
<1>5. ASSUME NEW c \in Clients, Send(c) \/ Leave(c) PROVE FramingInv'
  <2>1. /\ UNCHANGED <<pc, client, pending, received, published, backlog>>
        /\ conn' = conn \/ conn' = [conn EXCEPT ![c] = "closed"]
    BY <1>5 DEF Send, Leave
  <2>2. conn \in [Clients -> {"new", "open", "closed"}]
    BY DEF FramingInv, TypeInv, TypeOK
  <2>3. \A d \in Clients : conn'[d] = "new" => conn[d] = "new"
    BY <2>1, <2>2
  <2>4. \A d \in Clients : Untouched(d)' => Untouched(d)
    BY <2>1, <2>3 DEF Untouched
  <2> QED
    BY <1>1, <2>1, <2>3, <2>4, OthersKeepFraming DEF FramingInv
<1>6. ASSUME NEW c \in Clients, Connect(c) PROVE FramingInv'
  BY <1>1, <1>6, ConnectKeepsFraming
<1>7. CASE Accept
  BY <1>1, <1>7, AcceptKeepsFraming
<1>8. CASE Receive
  BY <1>1, <1>8, ReceiveKeepsFraming
<1>9. CASE Split
  BY <1>1, <1>9, SplitKeepsFraming
<1>10. CASE CloseClient
  BY <1>1, <1>10, CloseKeepsFraming
<1> QED
  BY <1>2, <1>3, <1>4, <1>5, <1>6, <1>7, <1>8, <1>9, <1>10 DEF Next, Thread, StopStep

\* However TCP cuts the streams, for any packets and any number of clients, the
\* loop of telemetry_server.cpp:94-108 publishes of each client exactly the
\* well-formed lines received, and nothing that another client left in the buffer.
THEOREM FramingLosesNothing == Spec => []FramingLossless
<1>1. FramingInv => FramingLossless
  <2> SUFFICES ASSUME FramingInv, NEW c \in Clients
               PROVE  Lines(received[c]) = published[c] \o (IF c = client THEN Lines(pending) ELSE <<>>)
    BY DEF FramingLossless
  <2>1. CASE c = client
    BY <2>1, ServerAssumption DEF FramingInv, Ahead, Lines
  <2>2. CASE c # client
    <3>1. PICK w \in Seq(WellFormed) : published[c] = w
      BY DEF FramingInv, TypeInv, TypeOK
    <3>2. w \o <<>> = w
      OBVIOUS
    <3> QED
      BY <2>2, <3>1, <3>2 DEF FramingInv
  <2> QED
    BY <2>1, <2>2
<1>2. FramingInv /\ [Next]_vars => FramingInv'
  BY FramingInductive
<1> QED
  BY <1>1, <1>2, FramingAtStart, PTL DEF Spec
=============================================================================
