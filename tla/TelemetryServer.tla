--------------------------- MODULE TelemetryServer ---------------------------
(***************************************************************************)
(* TelemetryServer of src/instrumentation/telemetry_server.cpp: the main   *)
(* thread starts and stops it, its own thread accepts one client at a time *)
(* and publishes every well-formed line the client sends.  Clients and the *)
(* kernel's socket queues are the environment.  A packet is a line of      *)
(* symbols that parses (WellFormed) or does not; recv() returns any        *)
(* non-empty part of what has arrived, cut wherever it likes.              *)
(***************************************************************************)
EXTENDS Integers, Sequences, SequencesExt

CONSTANTS
  Clients,
  Symbols, NL,      \* what a packet is made of, and the newline
  WellFormed,       \* the lines that parse as a TelemetryEvent
  Backlog,          \* connections the kernel queues for listen(fd, 1)
  MaxSent(_),       \* bound: symbols a client sends
  MaxStarts,        \* bound: calls of start()
  NoClient

\* An empty line is no JSON text.
ASSUME ServerAssumption ==
  MaxStarts \in Nat /\ NL \notin Symbols /\ <<>> \notin WellFormed /\ NoClient \notin Clients

VARIABLES
  main,             \* "down" | "up" | "shutdown" | "join", the last two in stop()
  starts,           \* how often start() has succeeded
  running,          \* running_
  listener,         \* listen_fd_ accepts connections
  client_connected, \* client_connected_
  pc, client, pending,                 \* the thread: where, whom, what is buffered
  conn, backlog, wire,                 \* the sockets
  received, published                  \* history, per client

mainVars == <<main, starts, running>>
threadVars == <<client_connected, pc, client, pending, published>>
socketVars == <<listener, conn, backlog, wire, received>>
vars == <<mainVars, threadVars, socketVars>>

Streams == Seq(Symbols \cup {NL})

TypeOK ==
  /\ main \in {"down", "up", "shutdown", "join"} /\ starts \in 0 .. MaxStarts
  /\ {running, listener, client_connected} \subseteq BOOLEAN
  /\ pc \in {"none", "loop", "accept", "serve", "recv", "split", "close"}
  /\ client \in Clients \cup {NoClient} /\ pending \in Streams
  /\ conn \in [Clients -> {"new", "open", "closed"}]
  /\ backlog \in Seq(Clients)
  /\ wire \in [Clients -> Streams] /\ received \in [Clients -> Streams]
  /\ published \in [Clients -> Seq(WellFormed)]

Init ==
  /\ main = "down" /\ starts = 0
  /\ running = FALSE /\ listener = FALSE /\ client_connected = FALSE
  /\ pc = "none" /\ client = NoClient /\ pending = <<>>
  /\ conn = [c \in Clients |-> "new"] /\ backlog = <<>>
  /\ wire = [c \in Clients |-> <<>>]
  /\ received = [c \in Clients |-> <<>>]
  /\ published = [c \in Clients |-> <<>>]

-----------------------------------------------------------------------------
(* The main thread.                                                        *)

\* start().  When socket(), bind() or listen() fails it returns false with
\* listen_fd_ = -1 again, which is the state it was called in.
Start ==
  /\ main = "down" /\ ~running /\ starts < MaxStarts
  /\ main' = "up" /\ starts' = starts + 1
  /\ running' = TRUE /\ listener' = TRUE
  /\ pc' = "loop"
  /\ UNCHANGED <<client_connected, client, pending, published, conn, backlog,
                 wire, received>>

\* stop(): running_.exchange(false)
Stop ==
  /\ main = "up" /\ running
  /\ main' = "shutdown" /\ running' = FALSE
  /\ UNCHANGED <<starts, threadVars, socketVars>>

\* stop() that leaves the listening socket to the destructor.
ShutNothing ==
  /\ main = "shutdown"
  /\ main' = "join"
  /\ UNCHANGED <<starts, running, threadVars, socketVars>>

\* stop(): shutdown() and close() of the listening socket.  The kernel resets
\* the connections that are still queued, and accept() returns an error.
ShutListener ==
  /\ main = "shutdown"
  /\ main' = "join" /\ listener' = FALSE
  /\ conn' = [c \in Clients |-> IF c \in ToSet(backlog) THEN "closed" ELSE conn[c]]
  /\ wire' = [c \in Clients |-> IF c \in ToSet(backlog) THEN <<>> ELSE wire[c]]
  /\ backlog' = <<>>
  /\ UNCHANGED <<starts, running, threadVars, received>>

\* stop() without the join.
JoinAtOnce ==
  /\ main = "join"
  /\ main' = "down"
  /\ UNCHANGED <<starts, running, threadVars, socketVars>>

\* stop(): join().
Join ==
  /\ main = "join" /\ pc = "none"
  /\ main' = "down"
  /\ UNCHANGED <<starts, running, threadVars, socketVars>>

-----------------------------------------------------------------------------
(* The server's thread.                                                    *)

\* accept_loop(): while (running_)
TestLoop ==
  /\ pc = "loop"
  /\ pc' = IF running THEN "accept" ELSE "none"
  /\ UNCHANGED <<mainVars, client_connected, client, pending, published, socketVars>>

\* accept() blocks until a connection is queued ...
Accept ==
  /\ pc = "accept" /\ listener /\ backlog # <<>>
  /\ client' = Head(backlog) /\ backlog' = Tail(backlog)
  /\ client_connected' = TRUE
  /\ pending' = <<>> /\ pc' = "serve"
  /\ UNCHANGED <<mainVars, published, listener, conn, wire, received>>

\* ... or fails with the socket still there: once more, unless running_ is off ...
AcceptErrs ==
  /\ pc = "accept" /\ listener
  /\ pc' = IF running THEN "loop" ELSE "none"
  /\ UNCHANGED <<mainVars, client_connected, client, pending, published, socketVars>>

\* ... or until the socket is shut down.
AcceptFails ==
  /\ pc = "accept" /\ ~listener
  /\ pc' = IF running THEN "loop" ELSE "none"
  /\ UNCHANGED <<mainVars, client_connected, client, pending, published, socketVars>>

\* serve_client(): while (running_)
TestServe ==
  /\ pc = "serve"
  /\ pc' = IF running THEN "recv" ELSE "close"
  /\ UNCHANGED <<mainVars, client_connected, client, pending, published, socketVars>>

\* Receive() that starts the buffer afresh at every chunk.
ReceiveFresh ==
  /\ pc = "recv"
  /\ \E n \in 1 .. Len(wire[client]) :
       /\ pending' = SubSeq(wire[client], 1, n)
       /\ received' = [received EXCEPT ![client] = @ \o SubSeq(wire[client], 1, n)]
       /\ wire' = [wire EXCEPT ![client] = SubSeq(@, n + 1, Len(@))]
  /\ pc' = "split"
  /\ UNCHANGED <<mainVars, client_connected, client, published, listener, conn, backlog>>

\* recv() of a chunk: it blocks until something arrives.
Receive ==
  /\ pc = "recv"
  /\ \E n \in 1 .. Len(wire[client]) :
       /\ pending' = pending \o SubSeq(wire[client], 1, n)
       /\ received' = [received EXCEPT ![client] = @ \o SubSeq(wire[client], 1, n)]
       /\ wire' = [wire EXCEPT ![client] = SubSeq(@, n + 1, Len(@))]
  /\ pc' = "split"
  /\ UNCHANGED <<mainVars, client_connected, client, published, listener, conn, backlog>>

\* recv() of nothing: the client has closed, and all it sent has been read.
PeerClosed ==
  /\ pc = "recv" /\ wire[client] = <<>> /\ conn[client] = "closed"
  /\ pc' = "close"
  /\ UNCHANGED <<mainVars, client_connected, client, pending, published, socketVars>>

\* A try block that publishes whatever it has parsed so far.
ParsesAnything(line) == line # <<>>

\* The line is neither empty nor malformed.
Parses(line) == line # <<>> /\ line \in WellFormed

\* Split() that publishes one line per chunk and leaves the rest for later.
SplitOnce ==
  /\ pc = "split"
  /\ pc' = "serve"
  /\ IF ~Contains(pending, NL)
     THEN UNCHANGED <<pending, published>>
     ELSE LET nl == SelectInSeq(pending, LAMBDA s : s = NL)
              line == SubSeq(pending, 1, nl - 1)
          IN  /\ pending' = SubSeq(pending, nl + 1, Len(pending))
              /\ published' = IF Parses(line)
                              THEN [published EXCEPT ![client] = Append(@, line)]
                              ELSE published
  /\ UNCHANGED <<mainVars, client_connected, client, socketVars>>

\* The inner loop: take the next complete line, publish it if it parses, drop it
\* if it is malformed or empty.  It does not look at running_.
Split ==
  /\ pc = "split"
  /\ IF ~Contains(pending, NL)
     THEN pc' = "serve" /\ UNCHANGED <<pending, published>>
     ELSE LET nl == SelectInSeq(pending, LAMBDA s : s = NL)
              line == SubSeq(pending, 1, nl - 1)
          IN  /\ pending' = SubSeq(pending, nl + 1, Len(pending))
              /\ published' = IF Parses(line)
                              THEN [published EXCEPT ![client] = Append(@, line)]
                              ELSE published
              /\ UNCHANGED pc
  /\ UNCHANGED <<mainVars, client_connected, client, socketVars>>

\* Back in accept_loop(): the flag is cleared and the client's socket closed.
CloseClient ==
  /\ pc = "close"
  /\ client_connected' = FALSE
  /\ conn' = [conn EXCEPT ![client] = "closed"]
  /\ wire' = [wire EXCEPT ![client] = <<>>]
  /\ client' = NoClient /\ pending' = <<>> /\ pc' = "loop"
  /\ UNCHANGED <<mainVars, published, listener, backlog, received>>

-----------------------------------------------------------------------------
(* The clients.                                                            *)

Connect(c) ==
  /\ conn[c] = "new" /\ listener /\ Len(backlog) < Backlog
  /\ conn' = [conn EXCEPT ![c] = "open"] /\ backlog' = Append(backlog, c)
  /\ UNCHANGED <<mainVars, threadVars, listener, wire, received>>

Send(c) ==
  /\ conn[c] = "open"
  /\ Len(received[c]) + Len(wire[c]) < MaxSent(c)
  /\ \E s \in Symbols \cup {NL} : wire' = [wire EXCEPT ![c] = Append(@, s)]
  /\ UNCHANGED <<mainVars, threadVars, listener, conn, backlog, received>>

\* close(), after which what was sent still arrives, or a reset, which drops it.
Leave(c) ==
  /\ conn[c] = "open"
  /\ conn' = [conn EXCEPT ![c] = "closed"]
  /\ wire' \in {wire, [wire EXCEPT ![c] = <<>>]}
  /\ UNCHANGED <<mainVars, threadVars, listener, backlog, received>>

Thread == \/ TestLoop \/ Accept \/ AcceptFails \/ TestServe \/ Receive
          \/ PeerClosed \/ Split \/ CloseClient

StopStep == ShutListener \/ Join

Next ==
  \/ Start \/ Stop \/ StopStep \/ Thread \/ AcceptErrs
  \/ \E c \in Clients : Connect(c) \/ Send(c) \/ Leave(c)

\* Both threads are scheduled and blocking calls return when they can.  Nothing
\* obliges the program to start or stop, a client to do anything at all, or accept()
\* to fail.
Spec == Init /\ [][Next]_vars /\ WF_vars(StopStep) /\ WF_vars(Thread)

-----------------------------------------------------------------------------

\* What a stream is cut into: its well-formed lines, and what follows the last
\* newline, which is no line.
Feed(cut, symbol) ==
  IF symbol # NL THEN [line |-> Append(cut.line, symbol), lines |-> cut.lines]
  ELSE [line |-> <<>>,
        lines |-> IF cut.line \in WellFormed THEN Append(cut.lines, cut.line) ELSE cut.lines]
Cut(stream) ==
  LET upTo[n \in 0 .. Len(stream)] ==
        IF n = 0 THEN [line |-> <<>>, lines |-> <<>>] ELSE Feed(upTo[n - 1], stream[n])
  IN  upTo[Len(stream)]
Lines(stream) == Cut(stream).lines

\* What a client gets published is exactly the well-formed lines of what was
\* received from it, in order, wherever recv() cut the stream, and nothing of
\* the client served before it (telemetry_server.cpp:94-108).
FramingLossless ==
  \A c \in Clients :
    Lines(received[c]) = published[c] \o (IF c = client THEN Lines(pending) ELSE <<>>)

\* After stop() has returned nothing is published and no client is shown as
\* connected: main() may destroy the bus and its subscribers.
StopMeansStopped ==
  [][main = "down" => published' = published /\ ~client_connected]_vars

\* A well-formed line that reaches the server while it serves the client is
\* published, unless the program stops the server or the client resets first.
Sent(c) == received[c] \o wire[c]
LinesArePublished ==
  \A c \in Clients : \A k \in 1 .. MaxSent(c) :
    (client = c /\ Len(Lines(Sent(c))) >= k)
      ~> (Len(published[c]) >= k \/ Len(Lines(Sent(c))) < k \/ ~running)

\* stop() returns as long as the connected client leaves or the server gets rid
\* of it; stop() itself never disconnects it.
Stopping == main \in {"shutdown", "join"}
StopReturnsIfClientsLeave ==
  (\A c \in Clients : conn[c] = "open" ~> conn[c] # "open") => (Stopping ~> main = "down")

\* stop() always returns, as "q / Esc: quit" needs (README.md:347): a connected
\* client that sends nothing keeps the thread in recv() and stop() in join().
StopReturns == Stopping ~> main = "down"
=============================================================================
