-------------------------- MODULE StationaryDetector --------------------------
(***************************************************************************)
(* The shadow estimator's detector of rest and the zero-velocity updates   *)
(* it applies.  A sample is quiet when it passes the enter thresholds and  *)
(* calm when it passes the looser exit thresholds, so quiet implies calm.  *)
(* Rest begins with enough quiet samples in the window, the first of them  *)
(* long enough ago; it ends when too few calm samples are left.            *)
(***************************************************************************)
EXTENDS Integers, Sequences, FiniteSets

CONSTANTS Window,      \* window_size
          EnterCount,  \* quiet samples for rest to begin
          ExitCount,   \* calm samples for rest to go on
          MinRest,     \* minimum_stationary_time_s, in ticks
          ZuptPeriod   \* 1 / max_update_rate_hz, in ticks

ASSUME DetectorAssumption ==
    /\ Window \in Nat \ {0} /\ EnterCount \in 1 .. Window /\ ExitCount \in 1 .. Window
    /\ MinRest \in Nat /\ ZuptPeriod \in Nat

Never == -1
Motion == {"quiet", "calm", "moving"}

\* billed: updates charged to intervals that have ended; applied: all that were accepted.
reset_stationary_detector ==
    [samples |-> <<>>, candidate |-> Never, start |-> Never, detected |-> FALSE,
     lastZupt |-> Never, open |-> 0, billed |-> 0, applied |-> 0]

Pushed(samples, sample) ==
    LET s == Append(samples, sample) IN IF Len(s) > Window THEN Tail(s) ELSE s

CountOf(samples, motions) == Cardinality({i \in DOMAIN samples : samples[i].motion \in motions})
FirstQuiet(samples) ==
    LET quiet == {i \in DOMAIN samples : samples[i].motion = "quiet"}
    IN  samples[CHOOSE i \in quiet : \A j \in quiet : i <= j].at

\* faulty: the count of the interval that ended is carried into the next one
finalize_uncleared(d) == [d EXCEPT !.billed = @ + d.open, !.start = Never]

\* finalize_stationary_interval_locked(): the interval takes its count of updates with it.
finalize(d) ==
    IF d.start = Never THEN d
    ELSE [d EXCEPT !.billed = @ + d.open, !.start = Never, !.open = 0]

\* While at rest: the window runs on, and rest ends when fewer than ExitCount samples are calm.
AtRest(d) ==
    IF CountOf(d.samples, {"quiet", "calm"}) < ExitCount
    THEN [finalize(d) EXCEPT !.detected = FALSE, !.candidate = Never] ELSE d

\* While moving: a candidate is kept as long as the window holds enough quiet samples.
Moving(d, t) ==
    IF CountOf(d.samples, {"quiet"}) < EnterCount THEN [d EXCEPT !.candidate = Never]
    ELSE LET from == IF d.candidate = Never THEN FirstQuiet(d.samples) ELSE d.candidate
         IN  IF t - from >= MinRest
             THEN [d EXCEPT !.detected = TRUE, !.start = from, !.candidate = Never]
             ELSE [d EXCEPT !.candidate = from]

update_stationary_detector(d, t, motion) ==
    LET pushed == [d EXCEPT !.samples = Pushed(@, [at |-> t, motion |-> motion])]
    IN  IF d.detected THEN AtRest(pushed) ELSE Moving(pushed, t)

\* faulty: due by its period alone
ZuptDueAnyway(d, t) == d.lastZupt = Never \/ t - d.lastZupt >= ZuptPeriod

\* An automatic update is due while at rest, at most once in a period.
ZuptDue(d, t) == d.detected /\ (d.lastZupt = Never \/ t - d.lastZupt >= ZuptPeriod)

\* update_zupt_locked(): an accepted update counts for the interval that is open.
maybe_apply_automatic_zupt(d, t, fit) ==
    IF ZuptDue(d, t) /\ fit
    THEN [d EXCEPT !.lastZupt = t, !.applied = @ + 1, !.open = IF d.detected THEN @ + 1 ELSE @]
    ELSE d

\* The updates of the interval still open, as the snapshot of the estimator derives them.
OpenInterval(d) == d.applied - d.billed
===============================================================================
