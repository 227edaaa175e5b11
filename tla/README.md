# llm-trace: a TLA+ model

llm-trace receives telemetry of a running transformer over TCP (or simulates
it), keeps recent history in memory and shows it in a terminal dashboard. It is
a small multi-threaded C++ program: the main thread is the UI, the telemetry
server has a thread, the simulator has another, and both of these call straight
into the consumers. This directory models the parts of it where the order of
events matters, checks them with TLC and proves the central ones with TLAPS.

`PROJECT.json` lists the runs, the source lines each definition stands for, the
hazards and which property covers each, the findings and the theorems. This file
says how it all fits together.

    tlc -config MCPipeline.cfg MCPipeline       a run: <cfg>, <module>
    tlapm EventBusProofs.tla                    a proof module

## 1. The system

| component | state | operations | threads |
|---|---|---|---|
| EventBus (`src/telemetry/event_bus.cpp`) | topic -> callbacks, a mutex | subscribe, publish | publishes run callbacks in the publisher's thread, after unlocking |
| RingBuffer (`src/storage/ring_buffer.cpp`) | slots, write position, size, latest matrix per layer | push, get_all, latest_attention, clear | one lock per call |
| TelemetryAggregator (`src/telemetry/aggregator.cpp`) | per-layer call counts and averages, totals, device counts | process_event, reset, slowest_layers and other queries | one lock per call |
| AnomalyDetector (`src/anomaly/anomaly_detector.cpp`) | a ledger of alerts | process_event, record, alerts, clear | one lock per appended alert |
| TelemetryServer (`src/instrumentation/telemetry_server.cpp`) | running_, listening socket, connected flag, line buffer | start, stop, accept_loop, serve_client | its own thread; stop() joins it |
| MockTracer (`src/instrumentation/mock_tracer.cpp`) | running_, event id, sequence | start, stop, loop, emit_token_pass | its own thread; stop() joins it |
| Dashboard (`src/tui/dashboard.cpp`) | tab, focus, cursors, selection, model, active matrix, call-tree expansion | on_event, keys, build_ui, snapshot | on_event in the sources' threads, the rest in the UI thread |
| Panels (`src/tui/panels.cpp`) | none | topology_nodes, render_*: rows, windows, call tree, token cycles | UI thread |
| DeviceMonitor (`src/instrumentation/device_monitor.cpp`) | previous CPU counters | get_stats, sample_cpu | UI thread, once a frame |
| main (`src/main.cpp`) | lifetimes of all of the above | boot, three modes, tear-down | main thread |
| wire format (`include/telemetry/types.hpp`, `docs/protocol.md`) | none | from_json; to_json, which the program never calls | from_json in the server's thread |
| Log (`include/util/log.hpp`), Python hook (`examples/hook.py`) | a sink; a client process | | any; another process |

Interactions. A source (server or simulator) publishes an event on the bus. The
bus copies the callbacks of the event's type and of `"*"`, unlocks, and calls
them in the source's thread. The one subscriber of the program is a `"*"`
callback (a lambda of `main` with `--headless`, the Dashboard otherwise), which
gives the event to ring, aggregator and detector in that order; the Dashboard's
also updates `model_` and `selected_event_` and posts a redraw through
`g_screen`. The UI thread reads ring, aggregator and ledger under their locks,
and `model_` and `selected_event_` under none; its `p` key starts and stops the
simulator, which means joining a thread that may be inside the UI's callback.

What is hard:

- two sources in the same callback at once, each consumer locked on its own;
- callbacks that publish and subscribe while a publish is being delivered;
- `stop()` at any moment of the thread it stops, with clients connected, queued,
  gone, or silent;
- a byte stream cut anywhere, and one line buffer used for one client after
  another;
- bounded stores at their limit: the ring wraps, the ledger evicts;
- the order of start-up and tear-down, with callbacks that outlive what they
  captured;
- UI state (cursors, head, window, selection) that indexes data which other
  threads replace;
- figures of one frame that are read one after the other, each under a lock of
  its own;
- packets with keys missing, under an alias or of the wrong type, whose defaults
  the detector then judges;
- unsigned differences of counters that wrap or go down;
- names that two components make up separately and must agree on, and numbers that
  two fields of one packet give separately;
- a test and an assignment in on_event() with keys and another source in between.

Correctness, per component:

- EventBus: a publish serves one snapshot of the subscribers, in order, each
  once; no callback runs under the lock; every call returns.
- RingBuffer: `get_all()` is the last `capacity` events, oldest first;
  `latest_attention()` the last matrix of the layer; nothing stale after clear.
- Aggregator: every event counted once, per layer; the derived totals agree.
- AnomalyDetector: newest alerts kept, in order, and a bound on the ledger.
- Server: the published lines are the well-formed lines received, whatever the
  chunks; after stop() nothing happens; stop() returns.
- MockTracer: a pause cuts a run short and never leaves a hole in it; after a
  pause it is silent; a pause returns.
- main: threads end before their data does; no model description is missed; the
  program ends, and a pause returns while the paused thread posts to the UI.
- Dashboard: cursors, head and window are inside the data they index; a
  selection is the user's; the row highlighted is the row inspected; a frame's
  totals are not behind what it shows beside them, and a snapshot shows the matrix
  it found; what is drawn does not change under the drawing.
- Panels: the keys walk the rows that are drawn; the call tree accounts for all
  the time, the token cycles for every trace.
- Wire format: an alert is about what was reported, not about a default, and what
  was reported and is alarming is told.
- DeviceMonitor: the load is the busy share of the time since the last reading.

## 2. The modules

| module | models | abstract specification | checked in | proved in |
|---|---|---|---|---|
| `BoundedLog` | contract of RingBuffer | is one | | |
| `RingBuffer` | RingBuffer | `BoundedLog` | `MCRingBuffer` | `RingBufferProofs` |
| `Fanout` | contract of EventBus | is one | | |
| `EventBus` | EventBus and re-entrant callbacks | `Fanout` | `MCEventBus` | `EventBusProofs` |
| `Aggregator` | TelemetryAggregator | | with `Pipeline` | with `Pipeline` |
| `AnomalyDetector` | AnomalyDetector | | with `Pipeline` | with `Pipeline` |
| `WireFormat` | from_json | | with `Pipeline` | with `Pipeline` |
| `Pipeline` | the `"*"` subscriber: RingBuffer, Aggregator and AnomalyDetector composed, fed by two threads, one of which decodes packets | | with `Frame` | `PipelineProofs` |
| `DeviceMonitor` | sample_cpu of both platforms | | with `Frame` | `PipelineProofs` |
| `Frame` | what a frame reads: `Pipeline` and `DeviceMonitor` composed | | `MCPipeline` | `PipelineProofs` |
| `TelemetryServer` | TelemetryServer, its clients and the sockets | | `MCTelemetryServer` | `TelemetryServerProofs` |
| `MockTracer` | MockTracer | | with `SimulatedProfile` | `MockTracerProofs` |
| `Panels` | what the panels compute from data | | with `Dashboard`, `SimulatedProfile` | `DashboardProofs`, `MockTracerProofs` |
| `SimulatedProfile` | the call tree of the simulator's traces: `MockTracer` and `Panels` composed | | `MCMockTracer.cfg` | `MockTracerProofs` |
| `Session` | main, from boot to exit, with both sources' threads | | `MCSession.cfg` | `SessionProofs` |
| `Dashboard` | navigation, selection, on_event and snapshot, over `BoundedLog` | | `MCDashboard` | `DashboardProofs` |

How state and actions correspond to the code:

**RingBuffer.** `buffer`, `write_ptr`, `size` and `latest_attn` are the members
of the same names. Each member function holds the mutex throughout, so each is
one action (`Push`, `PushAttention`, `Clear`) or one operator (`GetAll`). `Clear`
leaves the slots as they are, as the code does: that nothing stale shows again is
a property and not an assumption. `ImplementsBoundedLog` maps the abstract log to
`GetAll` and the abstract latest matrices to `latest_attn`.

**EventBus.** A thread is a stack of calls. `publish()` is four actions: `Lock`,
the two copies, the second of which unlocks, and one `Invoke` per callback, which
pushes the callback's body on the stack of the same thread; a body makes further
calls of the bus. `subscribe()` is one action because its whole body is a
critical section. What threads and callbacks call is given by the constants
`Program` and `Body`. The refinement maps an open publish that has copied to the
list of callbacks it still owes, so all of a publish happens, abstractly, at its
second copy.

**Aggregator, AnomalyDetector, Pipeline.** `Aggregator` keeps averages as the
code does, incrementally, over numbers scaled so that the division is exact for
the counts reached (`Scale`). `AnomalyDetector` abstracts statistics to the
classes its comparisons distinguish, NaN included. `Verdicts` is the list of
alerts a trace raises, `Record` and `PassThrough` the two ways to the ledger.
`Pipeline` gives each producer a program counter over the three consumers;
`Raise` is one locked `record()` at a time, so that another thread gets between
two alerts of one event. The producers in `Remote` are handed JSON: `Publish`
decodes it, and a packet that does not decode never becomes an event, as in
serve_client().

**WireFormat.** A JSON object is a function from the keys that are present;
`Wrong` stands for a value of a type the field cannot take, `Null` for null.
`Decodes` says when parse() and from_json() throw nothing, `Decode` which event
they return, defaults included; which keys are required, which optional and which
of two aliases wins is as in the code. The default statistics are all 0, which the
detector calls dead: a `layer_trace` that reports no statistics raises that alert,
and `AlertsAreReported` says that this is the only alert not about a reported
value. `AnomalyAlert`'s time and texts are left out: no consumer decides
anything by them. to_json() is not modelled, since the program never calls it (the
Python client writes packets of its own).

**DeviceMonitor.** The counters of /proc/stat are two here, `busy` and `waiting`,
since only their sums are used. `prev_busy`, `prev_total` and `have_prev` are the
members of the same names, `Sample` and `SampleFails` the two ways out of
sample_cpu(). `since`, `lost` and `spent` are history: what really passed, which
the code does not know. A load of more than 100 percent is possible, after an
iowait that went down; the property says exactly when the figure is right.

**Frame.** A frame of the Dashboard reads the host, the rows or the call tree, the
ledger and the figures of the performance panel one after the other, each under
the lock of its owner; `Read` is one of these. A piece is reduced to its
`Evidence`, the number of events that whoever sees it knows to have been there.
`Drop` is the other outcome of the server's try block: a packet that does not
decode, of which no consumer learns.
The tabs `attention` and `help` read one piece or none and are left out.

**TelemetryServer.** `main` is where the controlling thread is in start() and
stop(), `pc` where the server's thread is in its two loops. `pending` is the line
buffer of serve_client(). Clients connect, send symbols and newlines, close or
reset whenever they like; `Receive` takes any non-empty part of what has arrived.
accept() fails for good once the listener is shut (`AcceptFails`), and may fail for
a moment before (`AcceptErrs`).
A line parses when it is in the constant `WellFormed`.

**MockTracer.** `Pass` is the list of the statements of one forward pass that test
`running_` or publish something; `at` is the next one. Which of them look at
`running_` and which do not is as in the code. `SimulatedProfile` adds the names
and latencies under which they are published, and looks them up as
render_flame_graph() does.

**Session.** `main` is the statement main() is at; `dash`, `subscribed` and
`g_screen` are the lifetimes that its callbacks depend on. Both sources are
reduced to a thread that may publish until it is joined, which is what the modules
`TelemetryServer` (`StopMeansStopped`) and `MockTracer` (`PausedMeansSilent`)
establish of them. The server's thread publishes only while it serves a client, and
between publications waits in recv(), from where only the client (`Client`) takes
it; stop() does not, so the join() of main() may wait for ever, as `stop_hangs`
shows in detail. A thread in the Dashboard's callback posts to g_screen (`Post`), also
while the UI thread waits for it in the join() of a pause. A headless process that
has a server never ends by itself, so the model lets it run for ever.

**Dashboard.** One action per kind of key, `BeginFrame` and `EndFrame` around a
drawing, and on_event() once per source, in steps: `Push`, and then the branch of
the event's type. For a trace these are the test of on_event() (`TestTrace`) and
the assignment (`ShowTrace`), between which keys and the other source may act;
`following` are the sources in between. `overwrote` is history: which sources have
replaced a selection since a trace last found the inspector empty. A matrix
event has `heads`, the num_heads that the keys count to, and `matrices`, the number
of matrices that the panel draws from.
select_topology_node() and the stream's j and k read the ring twice, so they are
two actions each, with events arriving in between. snapshot() of the attention
tab is the actions `BeginProbe`, `Probe` (one latest_attention() each) and
`SelectFound`; `probe` holds its local variables. The ring is the module
`BoundedLog`: `RingBuffer` is proved to implement it. The computations of
panels.cpp (`TopologyNodes`, `StreamRow`, `Cycles`, `ViewStart`, `FlameRows`,
`FlameTime`) are in `Panels`; the Dashboard has code of its own for the row
inspected (`FromNewest`) and the rows its keys walk (`Visible`), and the
properties say that the two agree. Each assignment to
`model_` and to `selected_event_` is a single step here. They are not synchronised
in the code, and `StateIsImmutableWhileDrawn` shows that they do overlap with
reads; what a torn read would show is not modelled, so the other properties of
the Dashboard are about executions in which such an assignment takes effect as a
whole.

## 3. The runs

Passing runs:

| run | asks | bounds and why they are enough |
|---|---|---|
| `ring` | is the ring the bounded log? | four slots, three events, two layers, two matrices, unbounded length: every fill level, every write position and every mixture of stale and fresh slots |
| `bus` | one snapshot per publish, no callback under the lock, all calls return | two threads and callbacks that publish (two levels) and subscribe to the topic being delivered |
| `pipeline` | is anything lost, miscounted or reordered, do frames contradict themselves, is the load right? | three events of the server and two of the tracer, of every type; ring of two and ledger of two, so both overflow and evict while the other thread is inside; in a load of its own the server is also sent seven packets that do not decode, which are dropped before, between and after two events. Frames are read under two smaller loads (two events of the server; one of each), since what breaks a frame is one event between two reads. An idle host's counters of size 4 wrap within the three readings of a run; unsigned arithmetic is modulo 16 |
| `server` | framing, silence after stop(), return of stop() | two clients, lines of one and two symbols that parse and of three that do not, every cut; two start()s, two queued connections |
| `tracer` | where may a pause cut a pass, and does the call tree know every name? | two layers, two starts, two passes: stop() at each statement, resume, and stop() again |
| `session` | start-up and tear-down in all three modes, and does a pause return? | three events per source, two presses of p; any number of clients, each of which may stay silent for ever |
| `dashboard` | do cursors and selections fit the data? | ring of three; one session per panel or pair of panels that share state, with the events that matter to it (`MCSessions` in `MCDashboard`), delivered by one source or, where sources disturb each other, by two; packets with as many matrices as heads, with fewer and with none; the viewport runs from 2 to 5 around matrices of 1 to 6 tokens, so the matrix is smaller than, as large as and larger than the window; in the sixth session main() takes a snapshot while models, matrices and traces arrive |

What the properties say, beyond the comments at their definitions: in `pipeline`,
`RingKeepsEachStream` and `LedgerKeepsNewest` do not fix an order between the
producers, since the code has none (ring and ledger may disagree about it); they
say that each producer's own order survives and that nothing is evicted early.
`FrameIsCoherent` rests on an order of reads that nobody wrote down: the number of
events is read after every figure it must cover. Rows are the exception, since an
event is stored (dashboard.cpp:58) before it is counted (59): of each source one
row may be shown that is not counted yet, and the property allows just that
(`Uncounted`). The headless line reads it first
(main.cpp:85) and may show more tokens than events. In
`tracer`, `MatrixFollowsTrace` holds only while `running_` is set: a stop()
between trace and matrix suppresses the trace and not the matrix, and the
protocol's "sent alongside" is then broken by one event. In `dashboard`,
`TopologyCursorBound` and `FlameSelectionShown` are stated against the widest
model seen, because a smaller `model_info` does leave cursor and selection on
rows that no longer exist; so does `SnapshotShowsMatrix` except such a model,
between the search of snapshot() and its selection. `StreamRowIsInspected` ends
with the next event, since the cursor counts from the newest row and the
highlight then moves on to a row that is not the one inspected. `FlameRows` are
the rows once anything was traced: before, the panel draws none. Traces of whole
layers (`layers.3`), which the Python client may send, have no row in the call
tree and do not count in its total.

Deadlock is checked in every passing run but `server`, `tracer` and `session`,
where the program may stop for good (nobody starts it again, or it has ended).

Violation runs; each is a disagreement between the code and a line of the
repository, described under "findings":

| run | the code does | |
|---|---|---|
| `stop_hangs` | wait in stop() for a client that neither sends nor leaves | `StopReturnsIfClientsLeave` is what does hold |
| `dead_dashboard` | run the Dashboard's callback after the Dashboard is gone | `NoThreadOutlivesMain` is what does hold |
| `drawn_state` | replace model and selection under the frame being drawn | |
| `inspector_follows` | take the first trace into the inspector and then no other | |
| `non_finite` | drop a packet with a NaN before the detector sees it | `AlertsAreReported` is what does hold |

Where four passing properties stop, the code stops short of its text as well, and
a stronger property would fail. `LedgerBound` allows for sender-flagged anomalies,
which are appended past the cap of the ledger (anomaly_detector.cpp:36, against the
comment at 77). `SimulatedModelIsSeen` is about the simulator, since the server
accepts clients before the consumer is subscribed (main.cpp:69, against 70-71).
`OneLateTracePerSource` allows each source to overwrite one selection, with the
trace it has between the test and the assignment of on_event() (dashboard.cpp:67-68,
against 65-66). `HeadIsDrawn` is about packets with a matrix for each head, since the
keys count the heads announced and the panel the matrices (dashboard.cpp:253,
panels.cpp:168, against README.md:344 and the example of docs/protocol.md:48-50).

### Fairness

- `EventBus`, each thread: the operating system runs a thread that can run. Weak
  fairness is enough, since the lock is free again and again but a fair choice
  between two waiting threads matters only while both have calls left, and
  programs are finite.
- `TelemetryServer`, `MockTracer`, `Session`, `Dashboard`: a thread that can go on
  does, and join() returns when the thread it waits for has ended. A thread in
  recv() or accept() cannot go on by itself, and nothing obliges clients to connect,
  send or leave, accept() to fail for a moment, the user to press a key, or main()
  to stop: where a property needs a client to leave, it says so. So `ProgramEnds`
  has the condition that the server's thread is out of recv() again and again;
  without it `stop_hangs` is the counterexample. `PauseReturns` of `Session` needs
  no condition.
- `RingBuffer`, `Aggregator`, `AnomalyDetector`, `Pipeline`, `DeviceMonitor` and
  `Frame` have only safety properties, and no fairness.

## 4. The proofs

All for arbitrary constants. Every proof module extends the module it is about; all
safety properties of all passing runs are proved, and both refinements.

**Lemmas.** What the proofs of several components need. The prover cannot instantiate
an induction theorem, so each recursive function of the model and of the library has
its existence and its recursion proved from the least number (or the smallest set)
at which it would fail: `RecursionExists` for recursion over numbers, `SumExists`
and `SumUnique` for the library's sums, which choose the next member themselves.
From these follow that a sum may take its members in any order (`SumAny`), that
sums over disjoint sets add up (`SumUnion`) and that grouping by a function's value
leaves the sum (`SumByValue`); what `FlattenSeq` and `Those` do to members, lengths
and concatenations; and which nodes `FlameNodes` lists, and which are above each.

**RingBufferProofs.** From `CapacityAssumption` (the capacity is a natural
number; 0 becomes 1 as in the constructor). Invariant: `TypeOK` and
`FillsFrontToBack`. The second is needed because `get_all()` reads a ring that is
not full from slot 0, which is the oldest event only if the ring was filled from
there. `RingImplementsLog` proves the refinement: initial states map to initial
states, and each action to the abstract action of the same meaning. Its core is
that appending at the write position, modulo the capacity, drops the first of
`GetAll` and appends to it once the ring is full (`Wrap`).

**EventBusProofs.** From `ProgramsAssumption` (programs and bodies are sequences of
calls, `*` is a topic, nobody is no thread). Invariant: the types and
`NoCallbackUnderLock`, which is inductive given that a call on a stack is a body
or a publish. The stack lemmas say what replacing, pushing and popping the
innermost call leaves alone; `OneThreadSteps` reduces a step to the stack of the
thread that takes it. `BusImplementsFanout` has the invariant `FanInv`: bodies and
publishes alternate on a stack, so that the abstract deliveries in work (`FanOuts`)
are every second call, and what a publish has copied before its second copy is what
is subscribed now, because the lock is still held. That second copy is then the
abstract `Open`, an `Invoke` the `Deliver`, the return of a publish its `Close`, a
subscription itself, and every other step a stutter. Threads, topics, callbacks and
the depth of re-entrance are arbitrary.

**PipelineProofs.** The composed consumers, for any producers, packets, layers and
sizes. From `PacketAssumption`, `EmbeddingAssumption` (the embedding is a layer),
`LimitsAssumption` (the sizes are numbers, the cap of the ledger is not 0),
`StringsAssumption` (the strings the code itself compares with or defaults to are
strings a field can hold). Five invariants, each over the ones before:

- `Types`: what each producer has published it could have published, a producer
  inside the consumers has published something, and what a callback still has to
  raise is the rest of what its event calls for (`IsRest`).
- `StoredInv`: the ring is filled from the front and holds the last events.
  `RingKeepsEachStream` is inductive only together with the finiteness of
  `Stored`, since the ring's length is compared with a cardinality; a push keeps
  the newest of every stream because what it evicts is older than anything of its
  stream in the ring. The ring's part is cited from `RingBufferProofs`.
- `CountedInv`: the types of the aggregator, and that its counts are those of the
  events past it.
- `TotalsInv(N)`: `TalliesAgree`, which always holds, and `AveragesExact`, for the
  first N events: a running average is a fraction, and in units of 1/`Scale` it is
  a whole number only if `Scale` is a multiple of the number of calls. That bound
  is an assumption of `AggregatorTotals`, and so is that layers and devices are
  finitely many, without which there is no sum.
- `LedgerInv`: the alerts in the ledger are the newest of those raised, in the
  order of `Precedes`. One step appends one alert, so between two alerts of an
  event other producers' alerts may lie, and evictions happen with an event half
  raised: `Raised` counts what has been raised of it, which `IsRest` makes precise.

`AlertsReported` follows from what the ledger holds by the cases of `Verdicts` on a
decoded packet. The proof of `LedgerKeepsNewest` found a flaw in the statement: the cases
of `Pending` overlapped for a producer that was past the detector.

**Frames, in the same module.** `FrameSpecImplementsSpec`: every step of a frame or
of the host is a step of `Pipeline` or none, so that `ConsumersKeepTheirPromises` carries over all
of the above. `FramesAreCoherent` has the invariant `FrameInv`: what a frame has
shown so far is counted by now, and what was read before the number of events is at
most that number, rows but for one of each producer. It needs that a row is evidence
of itself and of all the events of its producer before it (`Types`, `StoredInv`), an
alert of its own (`LedgerInv`), a layer of its calls (`TotalsInv`); that what is
stored of a producer is what is counted of it and at most one event more
(`RowsCounted`); and that producers, layers and devices are finitely many. The slowest layers of the
performance panel are read after the number of events and are not compared with it.

`LoadIsBusyShare` is about the host's counters, from `SizeAssumption` (two
counters fit a word). Its invariant `LastReading` says where each counter is: at
the previous reading, plus the ticks since, less what it has lost by wrapping or
going down. From it the unsigned differences follow: with nothing lost they are
the ticks, and once a counter has wrapped the total is below the previous one, and
the code shows 0. Every step of a frame is a step of the monitor or none.

**TelemetryServerProofs, MockTracerProofs.** After stop() has returned, nothing is
published until the next start(). The invariant is that a stopped component has
no thread (and, for the server, that only a serving thread shows a client); the
join() in stop() establishes it. `ServerTypeCorrect` is the types together with the
fact that the thread has a client between accept() and close(); that a
buffer with a newline has a first one is the well-foundedness of the naturals.
`FramingLosesNothing`, from `ServerAssumption` (a newline is no symbol of a line, and
the empty line does not parse), has the invariant `FramingInv`: what was received
of the client being served is cut as what is published of it followed by the line
buffer (`Ahead`), a client is untouched until it is accepted, and is accepted once,
so nothing of another client is in the buffer, and the thread waits in recv() with no whole line in it. `Cut`
goes through a stream symbol by symbol, so `Ahead` survives whatever recv() appends
to both sides, and taking the first line off the buffer (`FirstLineCut`) moves it
to the published ones.

`MatrixAlwaysFollowsTrace` is the protocol's "sent alongside" for any number of
layers: the invariant says that in front of the statement that publishes a matrix
the last event published is the trace of the same layer, as long as `running_` is
set. `TracesNeverGap` has the invariant that, while `running_` is set, `event_id` is
100 plus the number of traces of the run, and that number is whole passes plus the
traces of this pass in front of the thread's statement (`GapInv`).

`TreeAccountsForAll`: whatever part of the pass was traced, the leaf that the call
tree looks up for a trace is one of its leaves and inside the root (`TraceIsLeaf`,
`LeavesBelowRoot`), so that the total, a sum over leaves of sums over traces, is the
sum over the traces (`SumByValue`). The statement is about names, and depends on the
state only through which traces there were.

**SessionProofs.** The types, that main() returns only after both threads have
ended, and that the simulated model description is always received. The invariant
says in which part of main() which thread may exist: none of the tracer's before
the consumer is attached, none after it was joined. What clients do keeps it
(`ClientKeepsInv`): they move the server's thread and never end it.

**DashboardProofs.** From `SessionAssumption` (models have a number of layers,
attention packets numbers of heads and of matrices, and `norm` and `lm_head` send none), `LimitAssumption`
(the ring's capacity is a number) and `ViewAssumption` (the bounds of the viewport
are numbers in order). The invariants, each in terms of those before it: `EventInv`
(the event in work is one of the session's), `ModelInv` (no model is wider than the
widest, nor is the one a snapshot searches), `CursorInv`, `MatrixInv` (what is kept
as a node's matrix is one, of that node), `HeadInv`, `ViewInv`, `SnapshotInv`,
`StreamInv`, `FlameInv`, `LateInv`.

- `SnapshotInv` follows a snapshot from the node it found to the matrix shown:
  matrices are never taken back, and two models agree on the place of a node that has
  a matrix (`SamePlace`), unless the second has fewer layers. `NodesOfModel` says
  where each node of a model is in the list.
- `HeadInv` says that the head is below the number of heads announced, or the first;
  `ReachableHeadsAreDrawn` follows for packets that bring a matrix for each.
- `LateInv` is about `overwrote`: a source that has replaced a selection is past the
  assignment, and to come back to it needs a test that finds the inspector empty,
  which is where `overwrote` begins anew.
  `SelectionIsTakenOnce` holds for any set of sources.
- `StreamInv` says that from a synchronisation to the next event or selection the
  inspector has the trace that many from the newest. `HighlightedRowIsInspected`
  adds that the row drawn as highlighted, which is counted within a window from the
  other end, is that trace.
- `JourneyAlwaysComplete` is about `Cycles` as a recursive function: by the least
  number of traces at which it fails, the cycles put together are the traces and
  each but the first begins at `embed_tokens`.
- `FlameInv`: the selected node is one of the widest model's, and all nodes above it
  are expanded. `SelectionStaysShown` needs besides that the keys' list of rows
  (`Visible`, collected level by level) is that of the panel (`FlameRows`, filtered):
  layer by layer both are the nodes all of whose ancestors are expanded.

Only model-checked is liveness (`AllCallsReturn`, `LinesArePublished`,
`StopReturnsIfClientsLeave`, `PauseReturns`, `ProgramEnds`): fairness is a statement
about ENABLED, which the proof system does not reach.

`TypeOK` of `EventBus` and of `Session` is proved and not listed in a run; that of
`MockTracer` is documentation.

## 5. Not modelled

- Values: latencies, tensor shapes, matrices and the text of alerts, except for
  the classes and sums the properties distinguish. render_attention() trusts
  token_count, tokens and the sides of the matrices to agree; here an attention
  packet is the number of heads it announces and the number of matrices it brings,
  and `ViewInMatrix` is about a number of tokens. The texts and the time of an alert.
- Text of JSON: a line is an object or does not parse.
- Layout, colours and formatting of the panels, which are most of panels.cpp and
  keep no state; contrast, which scales colours.
- Memory and GPU figures of DeviceMonitor: copied from the platform, with no state.
- The log: one critical section per line, and a sink that is set once, before any
  thread exists; no other component depends on it.
- The end of a headless process by a signal; the option parser.
- The Python hook, an external client; build files.

## 6. Plan

Done, in this order: ring and its contract, bus and its contract, consumers and
their composition, server, simulator, main, Dashboard; then the wire format behind
the consumers, the host's load, frames, snapshots, and the panels' computations;
with them the proofs of their invariants: first those of single components, then
those of the composed consumers, of frames, of the server's framing and of the
simulator's traces; last the refinement of `Fanout` and the panels' recursive
computations.

Possible next steps:

1. The safety half of the liveness properties: that no reachable state is stuck
   where a property says that something must still happen.
2. What a torn read of `model_` would show, should the race be given a meaning.
