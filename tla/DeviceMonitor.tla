----------------------------- MODULE DeviceMonitor -----------------------------
(***************************************************************************)
(* The CPU load of src/instrumentation/device_monitor.cpp: the busy share  *)
(* of the ticks between two readings of the host's counters.  macOS counts *)
(* in 32 bits and wraps; the iowait of Linux may also go down (proc(5)).   *)
(* user, system, nice and the interrupts are one counter here, busy, and   *)
(* idle and iowait are another, waiting.  A percentage is rounded down.    *)
(***************************************************************************)
EXTENDS Integers

CONSTANTS
  CounterSize,    \* 2^32: where a counter of the host starts again at 0
  WordSize        \* 2^64: where unsigned arithmetic does

ASSUME SizeAssumption ==
  CounterSize \in Nat \ {0} /\ WordSize \in Nat /\ 2 * CounterSize <= WordSize

VARIABLES
  host,                               \* the counters: busy, waiting
  prev_busy, prev_total, have_prev,
  cpu,                                \* cpu_usage, as last returned
  since,    \* history: the ticks of each counter since the last reading
  lost,     \* history: what each counter is short of them, by having wrapped or
            \* gone back
  spent     \* history: the ticks that cpu is the busy share of

prev == <<prev_busy, prev_total, have_prev>>
monitorVars == <<host, prev, cpu, since, lost, spent>>

Counters == {"busy", "waiting"}
NoTicks == [c \in Counters |-> 0]
NoSpan == [ticks |-> NoTicks, lost |-> NoTicks]

MonitorInit ==
  /\ host \in [Counters -> 0 .. CounterSize - 1]
  /\ prev_busy = 0 /\ prev_total = 0 /\ have_prev = FALSE
  /\ cpu = 0 /\ since = NoTicks /\ lost = NoTicks /\ spent = NoSpan

\* A counter advances; fewer than CounterSize ticks pass between two readings,
\* which on macOS are months apart otherwise.
Tick(c) ==
  /\ since["busy"] + since["waiting"] < CounterSize - 1
  /\ since' = [since EXCEPT ![c] = @ + 1]
  /\ IF host[c] = CounterSize - 1
     THEN host' = [host EXCEPT ![c] = 0] /\ lost' = [lost EXCEPT ![c] = @ + CounterSize]
     ELSE host' = [host EXCEPT ![c] = @ + 1] /\ UNCHANGED lost
  /\ UNCHANGED <<prev, cpu, spent>>

\* iowait goes down.
StepBack ==
  /\ host["waiting"] > 0
  /\ host' = [host EXCEPT !["waiting"] = @ - 1]
  /\ lost' = [lost EXCEPT !["waiting"] = @ + 1]
  /\ UNCHANGED <<prev, cpu, since, spent>>

-----------------------------------------------------------------------------

Minus(a, b) == (a - b) % WordSize

\* The load since the previous reading, if there is one and time has passed.
Load(busy, total) ==
  IF have_prev /\ total > prev_total
  THEN (100 * Minus(busy, prev_busy)) \div Minus(total, prev_total)
  ELSE 0

\* A reading that remembers the busy ticks only.
RememberBusy(busy, total) == prev_busy' = busy /\ have_prev' = TRUE /\ UNCHANGED prev_total

Remember(busy, total) == prev_busy' = busy /\ prev_total' = total /\ have_prev' = TRUE

\* sample_cpu() ...
Sample ==
  LET busy == host["busy"]
      total == (busy + host["waiting"]) % WordSize
  IN  /\ cpu' = Load(busy, total)
      /\ Remember(busy, total)
      /\ spent' = IF have_prev THEN [ticks |-> since, lost |-> lost] ELSE NoSpan
      /\ since' = NoTicks /\ lost' = NoTicks
      /\ UNCHANGED host

\* ... and when the host does not answer: 0, and nothing is remembered.
SampleFails == cpu' = 0 /\ spent' = NoSpan /\ UNCHANGED <<host, prev, since, lost>>

MonitorNext == (\E c \in Counters : Tick(c)) \/ StepBack \/ Sample \/ SampleFails

MonitorSpec == MonitorInit /\ [][MonitorNext]_monitorVars

-----------------------------------------------------------------------------

MonitorTypeOK ==
  /\ host \in [Counters -> 0 .. CounterSize - 1]
  /\ prev_busy \in Nat /\ prev_total \in Nat /\ have_prev \in BOOLEAN
  /\ since \in [Counters -> Nat] /\ lost \in [Counters -> Nat]
  /\ since["busy"] + since["waiting"] < CounterSize

Sum(f) == f["busy"] + f["waiting"]

Share(ticks) == IF Sum(ticks) = 0 THEN 0 ELSE (100 * ticks["busy"]) \div Sum(ticks)

\* The load shown is the busy share of all ticks since the reading before, over
\* failed readings as well, and 0 once a counter has wrapped: the unsigned
\* differences of device_monitor.cpp:66 and 112 never show garbage, unless iowait
\* goes down.
CpuIsBusyShare ==
  /\ Sum(spent.lost) = 0 => cpu = Share(spent.ticks)
  /\ Sum(spent.lost) >= CounterSize => cpu = 0
=============================================================================
