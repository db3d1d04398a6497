-------------------------------- MODULE Spans --------------------------------
(* What a window of measured queries amounts to: the trimming of spans, their *)
(* statistics (harness/metrics/latency.py), and the judgement of concurrency  *)
(* and of the one-client baseline (harness/metrics/scaling.py).               *)
(*                                                                            *)
(* Times are whole units of a clock. A figure that the code divides is a pair *)
(* <<numerator, denominator>> with a positive denominator; a figure it may    *)
(* not have is None.                                                          *)
EXTENDS Integers, Sequences, SequencesExt

CONSTANT None

Less(a, b) == a[1] * b[2] < b[1] * a[2]
AtMost(a, b) == ~ Less(b, a)
Over(a, n) == <<a[1], a[2] * n>>
Quotient(a, b) == <<a[1] * b[2], a[2] * b[1]>>

-----------------------------------------------------------------------------
(* latency.py                                                                 *)

(* A sample of a client: how long, and from when to when. `add` knows only    *)
(* the first, `add_span` all three.                                           *)
Sample(seconds) == [seconds |-> seconds, started |-> None, finished |-> None]
Span(from, to) == [seconds |-> to - from, started |-> from, finished |-> to]

Kept == "kept"
Inflight == "inflight_discarded"
Prewindow == "prewindow_discarded"

(* A query that had not ended by the cutoff is discarded whichever side of    *)
(* the window it began on.                                                    *)
SpanDisposition(s, start, cutoff) ==
    IF cutoff # None /\ s.finished # None /\ s.finished > cutoff THEN Inflight
    ELSE IF start # None /\ s.started # None /\ s.started < start THEN Prewindow
    ELSE Kept

SamplesThat(collectors, start, cutoff, what) ==
    SelectSeq(FlattenSeq(collectors),
              LAMBDA s : SpanDisposition(s, start, cutoff) = what)

Lengths(samples) ==
    SortSeq([i \in DOMAIN samples |-> samples[i].seconds],
            LAMBDA a, b : a < b)

Total(lengths) == FoldLeft(LAMBDA a, b : a + b, 0, lengths)

(* Nearest rank, of a sorted sequence; q is in percent. The code clamps   *)
(* the rank to the sequence.                                                  *)
Ceiling(n, d) == (n + d - 1) \div d
Percentile(sorted, q) ==
    IF sorted = << >> THEN None
    ELSE IF q <= 0 THEN sorted[1]
    ELSE IF q >= 100 THEN sorted[Len(sorted)]
    ELSE LET rank == Ceiling(q * Len(sorted), 100)
         IN sorted[IF rank < 1 THEN 1
                   ELSE IF rank > Len(sorted) THEN Len(sorted) ELSE rank]

Summarize(lengths) ==
    IF lengths = << >>
    THEN [count |-> 0, mean |-> None, p50 |-> None, p99 |-> None]
    ELSE [count |-> Len(lengths), mean |-> <<Total(lengths), Len(lengths)>>,
          p50 |-> Percentile(lengths, 50), p99 |-> Percentile(lengths, 99)]

(* The statistics of the window, and what was left out of them.               *)
MergeCollectors(collectors, wall, cutoff, start) ==
    LET of(what) == Len(SamplesThat(collectors, start, cutoff, what))
        stats == Summarize(Lengths(SamplesThat(collectors, start, cutoff, Kept)))
    IN [queries_executed |-> stats.count, mean |-> stats.mean,
        p50 |-> stats.p50, p99 |-> stats.p99,
        qps |-> IF wall > 0 THEN <<stats.count, wall>> ELSE <<0, 1>>,
        inflight |-> of(Inflight), prewindow |-> of(Prewindow)]

(* A plausible bug: the queries of the warm-up are not left out.              *)
WindowConcurrency_Untrimmed(collectors, wall, cutoff, start) ==
    LET kept == Lengths(SamplesThat(collectors, None, cutoff, Kept))
    IN IF kept = << >> \/ wall <= 0
       THEN [outstanding |-> None, served |-> None]
       ELSE [outstanding |-> <<Total(kept), wall>>,
             served |-> <<Len(kept) * Percentile(kept, 50), wall>>]

(* Queries outstanding on average, exactly and by the median.                 *)
WindowConcurrency(collectors, wall, cutoff, start) ==
    LET kept == Lengths(SamplesThat(collectors, start, cutoff, Kept))
    IN IF kept = << >> \/ wall <= 0
       THEN [outstanding |-> None, served |-> None]
       ELSE [outstanding |-> <<Total(kept), wall>>,
             served |-> <<Len(kept) * Percentile(kept, 50), wall>>]

(* LatencyCollector.qps of the one client of calibration and filtered, whose  *)
(* clock is the queries' own.                                                 *)
CollectorQps(lengths) ==
    IF lengths = << >> \/ Total(lengths) = 0 THEN <<0, 1>>
    ELSE <<Len(lengths), Total(lengths)>>

-----------------------------------------------------------------------------
(* scaling.py                                                                 *)

ServedConcurrencyFloor == <<1, 2>>
TailDominatedRatio == <<1, 2>>
CredibleEfficiencyCeiling == <<2, 1>>
CredibleBaselineMedianRatio == <<7, 5>>

Ok == "ok"
NotAchieved == "concurrency_not_achieved"

(* A median that gets faster as clients are added says the one client was     *)
(* measured cold.                                                             *)
BaselineIsCredible(one, many) ==
    IF one = None \/ many = None THEN None
    ELSE IF one <= 0 \/ many <= 0 THEN None
    ELSE AtMost(<<one, many>>, CredibleBaselineMedianRatio)

TailDominated(served, outstanding) ==
    IF served = None \/ outstanding = None THEN None
    ELSE IF outstanding[1] <= 0 THEN None
    ELSE Less(Quotient(served, outstanding), TailDominatedRatio)

ScalingNote(served, outstanding) ==
    IF TailDominated(served, outstanding) = TRUE THEN "tail_dominated" ELSE None

ServedFraction(served, clients) ==
    IF served = None \/ clients <= 0 THEN None ELSE Over(served, clients)

(* Withheld where a pool that takes turns would pass too, and where the       *)
(* efficiency is not to be believed.                                          *)
ThroughputFraction(efficiency, clients) ==
    IF efficiency = None \/ clients <= 0 THEN None
    ELSE IF AtMost(ServedConcurrencyFloor, <<1, clients>>) THEN None
    ELSE IF Less(CredibleEfficiencyCeiling, efficiency) THEN None
    ELSE efficiency

AchievedFraction(served, clients, efficiency) ==
    LET fraction == ServedFraction(served, clients)
        throughput == ThroughputFraction(efficiency, clients)
    IN IF fraction = None THEN None
       ELSE IF throughput = None THEN fraction
       ELSE IF Less(fraction, throughput) THEN throughput ELSE fraction

BelowFloor(fraction) == Less(fraction, ServedConcurrencyFloor)

OutstandingRule(served, clients, efficiency, outstanding) ==
    LET occupied == ServedFraction(outstanding, clients)
        inService == ServedFraction(served, clients)
        throughput == ThroughputFraction(efficiency, clients)
    IN IF occupied = None THEN None
       ELSE IF clients = 1 THEN Ok
       ELSE IF BelowFloor(occupied) THEN NotAchieved
       ELSE IF /\ inService # None /\ throughput # None
               /\ BelowFloor(inService) /\ BelowFloor(throughput)
            THEN NotAchieved
       ELSE Ok

ScalingStatus(served, clients, efficiency, outstanding) ==
    IF outstanding # None
    THEN OutstandingRule(served, clients, efficiency, outstanding)
    ELSE LET fraction == AchievedFraction(served, clients, efficiency)
         IN IF fraction = None THEN None
            ELSE IF clients = 1 THEN Ok
            ELSE IF BelowFloor(fraction) THEN NotAchieved ELSE Ok
=============================================================================
