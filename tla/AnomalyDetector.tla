---------------------------- MODULE AnomalyDetector ----------------------------
(***************************************************************************)
(* AnomalyDetector of src/anomaly/anomaly_detector.cpp: which alerts a     *)
(* layer_trace raises, and the ledger they are kept in.  A statistic is    *)
(* abstracted to what the detector's comparisons can tell apart:           *)
(*   mean, min, max   "normal" | "huge" (beyond exploding_threshold) |     *)
(*                    "inf" | "nan"                                        *)
(*   variance         "negative" | "dead" (in [0, 1e-6)) | "live" | "nan"  *)
(*   sparsity         "low" | "high" (over 95 percent) | "nan"             *)
(* Each alert appended to the ledger is one critical section of mutex_.    *)
(***************************************************************************)
EXTENDS Integers, Sequences

CONSTANTS
  Cap,          \* 500 in the code
  Alerts

VARIABLES
  alerts,       \* the ledger, oldest first
  passed        \* history: how many sender-flagged anomalies it was handed

detVars == <<alerts, passed>>

Init == alerts = <<>> /\ passed = 0

TypeOK == alerts \in Seq(Alerts) /\ passed \in Nat

-----------------------------------------------------------------------------

NonFinite == {"inf", "nan"}

\* std::max(|max|, |min|) > exploding_threshold for a finite max: a comparison
\* with a NaN is false, so a NaN min yields |max|.
Exceeds(s) == s.max = "huge" \/ s.min \in {"huge", "inf"}

\* The alerts process_event() raises for the trace, in order.
Verdicts(layer_type, s) ==
  LET Flag(condition, kind) == IF condition THEN <<kind>> ELSE <<>>
  IN  IF {s.mean, s.max} \cap NonFinite # {}
      THEN <<"non_finite">>
      ELSE Flag(Exceeds(s), "exploding")
             \o Flag(s.variance = "dead" /\ layer_type # "Embedding", "dead")
             \o Flag(s.sparsity = "high", "sparse")

\* Room made by dropping the newest alert instead of the oldest.
RoomFromNewest == IF Len(alerts) >= Cap THEN SubSeq(alerts, 1, Len(alerts) - 1) ELSE alerts

\* Room made only when the cap is already exceeded.
RoomLate == IF Len(alerts) > Cap THEN Tail(alerts) ELSE alerts

\* At the cap the oldest alert makes room for a new one.
Room == IF Len(alerts) >= Cap THEN Tail(alerts) ELSE alerts

\* record()
Record(a) == alerts' = Append(Room, a) /\ UNCHANGED passed

\* process_event() of an "anomaly": appended whatever the ledger holds.
PassThrough(a) == alerts' = Append(alerts, a) /\ passed' = passed + 1

\* clear(); the program itself never calls it.
Clear == alerts' = <<>> /\ passed' = 0

Next == (\E a \in Alerts : Record(a) \/ PassThrough(a)) \/ Clear

Spec == Init /\ [][Next]_detVars

-----------------------------------------------------------------------------

\* What bounds the ledger: the cap, and beyond it one alert for every anomaly a
\* sender flagged, which is appended without a look at the cap (anomaly_detector.cpp:36).
\* A run without sender anomalies never exceeds Cap.
LedgerBound == Len(alerts) <= Cap + passed
=============================================================================
