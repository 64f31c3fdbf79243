--------------------------- MODULE TelemetryAlerts ---------------------------
(* evaluate_telemetry_thresholds for one metric, over every series of       *)
(* samples a target can have: the loop back from the newest sample, and     *)
(* what it is meant to compute.                                             *)
EXTENDS Naturals, Sequences, FiniteSetsExt

CONSTANTS
  Gaps,                    \* seconds from one sample to the next
  MaxSampleGap,            \* MAX_SAMPLE_GAP
  WarningFor, CriticalFor, \* seconds a load must last
  MaxSeries                \* bound: samples
ASSUME AlertAssumption == Gaps \subseteq Nat /\ {MaxSampleGap, WarningFor, CriticalFor, MaxSeries} \subseteq Nat

VARIABLE series            \* samples in order of time: time and load of each
alertVars == <<series>>

\* A load is below, above the warning or above the critical threshold.
Normal == 0
Warning == 1
Critical == 2
Missing == 9               \* the metric is absent from the sample
Loads == {Normal, Warning, Critical, Missing}

AlertInit == \E load \in Loads : series = <<[at |-> 0, load |-> load]>>
LatestSample == series[Len(series)]
AddSample(gap, load) ==
  /\ Len(series) < MaxSeries
  /\ series' = Append(series, [at |-> LatestSample.at + gap, load |-> load])
AlertNext == \E gap \in Gaps, load \in Loads : AddSample(gap, load)
AlertSpec == AlertInit /\ [][AlertNext]_alertVars

Above(sample, level) == sample.load # Missing /\ sample.load >= level
\* Mutant: a hole in the series does not end the streak.
SustainedAcrossGaps(level) ==
  LET back[i \in 0 .. Len(series)] ==
        IF i = 0 \/ ~Above(series[i], level) THEN i + 1 ELSE back[i - 1]
  IN back[Len(series)]

\* sustained_start: how far back from the newest sample the load reaches,
\* as the index of the first sample; past the end when there is none.
SustainedStart(level) ==
  LET back[i \in 0 .. Len(series)] ==
        IF \/ i = 0 \/ ~Above(series[i], level)
           \/ i < Len(series) /\ series[i + 1].at - series[i].at > MaxSampleGap
          THEN i + 1 ELSE back[i - 1]
  IN back[Len(series)]

Lasts(level, seconds) ==
  LET start == SustainedStart(level)
  IN start <= Len(series) /\ LatestSample.at - series[start].at >= seconds

\* evaluate_rule: critical before warning.
EvaluateRule ==
  IF LatestSample.load = Missing THEN "none"
  ELSE IF Lasts(Critical, CriticalFor) THEN "critical"
  ELSE IF Lasts(Warning, WarningFor) THEN "warning"
  ELSE "none"

(* "Fires only when recent, contiguous samples remain above a metric        *)
(* threshold. Missing samples break the streak": the alert is the gravest   *)
(* level whose samples, without a hole, reach from its duration ago to the  *)
(* newest one.                                                              *)
Streak(level, i) ==
  /\ \A k \in i .. Len(series) : Above(series[k], level)
  /\ \A k \in i .. Len(series) - 1 : series[k + 1].at <= series[k].at + MaxSampleGap
LongEnough(level, seconds) == \E i \in DOMAIN series : Streak(level, i) /\ series[i].at + seconds <= LatestSample.at
AlertsAreSustained ==
  /\ EvaluateRule = "critical" <=> LongEnough(Critical, CriticalFor)
  /\ EvaluateRule = "warning" <=> (LongEnough(Warning, WarningFor) /\ ~LongEnough(Critical, CriticalFor))
=============================================================================
