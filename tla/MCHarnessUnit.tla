---------------------------- MODULE MCHarnessUnit ----------------------------
(* Three clients at most, windows of two attempts, four grid points.          *)
EXTENDS HarnessUnit

All == AllWorkloads
Line(w, m, s) == [workloads |-> w, ef_mode |-> m, scans |-> s, sampler |-> TRUE]
MCArguments ==
    {Line(All, "calibrated", <<"off", "relaxed", "off">>),
     Line({"build", "filtered", "churn"}, "fixed", << >>),
     Line({"concurrency"}, "fixed", << >>), Line({"concurrency"}, "calibrated", << >>),
     Line({"build", "other"}, "fixed", << >>)}
MCEngines ==
    {[declines |-> {}, hasScan |-> TRUE, incremental |-> FALSE, waits |-> "sampled"],
     [declines |-> {"churn"}, hasScan |-> FALSE, incremental |-> TRUE,
      waits |-> "counters"]}
MCClientCounts == <<1, 3, 8>>
MCCollected ==
    {<< >>, <<Span(1, 3)>>, <<Span(3, 5)>>, <<Span(0, 2), Span(2, 7)>>}

-----------------------------------------------------------------------------
(* The operators of the metrics over short windows, as assumptions.           *)

Windows == {<<a, b>> : a, b \in {Span(s, s + n) : s \in 0..3, n \in 1..3}}

(* Every sample is kept or counted under one reason, a sample without times   *)
(* is always kept, and what is kept was measured inside the window            *)
(* (latency.merge_collectors).                                                *)
ASSUME WindowPartsTheSamples ==
    \A w \in Windows, start \in {None, 0, 2}, cutoff \in {None, 3, 5} :
        LET taken == w \o <<Sample(2)>>
            merged == MergeCollectors(<<taken>>, 4, cutoff, start)
            kept == SamplesThat(<<taken>>, start, cutoff, Kept)
        IN /\ merged.queries_executed + merged.inflight + merged.prewindow = 3
           /\ Contains(kept, Sample(2))
           /\ \A i \in DOMAIN kept : kept[i].started # None =>
                  /\ start # None => kept[i].started >= start
                  /\ cutoff # None => kept[i].finished <= cutoff
           /\ \A i \in DOMAIN w :
                  /\ start = None \/ w[i].started >= start
                  /\ cutoff = None \/ w[i].finished <= cutoff
                  => Contains(kept, w[i])

(* The rank of a percentile: at least that share of the samples is no longer, *)
(* and of the shorter ones less (latency.percentile).                         *)
ASSUME PercentileIsNearestRank ==
    \A n \in 1..3 : \A lengths \in [1..n -> 1..3], q \in {0, 1, 33, 34, 50, 67, 99, 100} :
        LET sorted == SortSeq(lengths, LAMBDA a, b : a < b)
            v == Percentile(sorted, q)
            Count(P(_)) == Len(SelectSeq(sorted, P))
        IN /\ 100 * Count(LAMBDA x : x <= v) >= q * n
           /\ q > 0 => 100 * Count(LAMBDA x : x < v) < q * n

(* One client that never waits is measured to have one query outstanding, and *)
(* its speed is that of its clock (latency.window_concurrency, scaling.py).   *)
ASSUME OneClientIsOneClient ==
    \A lengths \in UNION {[1..n -> 1..4] : n \in 1..3} :
        LET sorted == SortSeq(lengths, LAMBDA a, b : a < b)
            wall == Total(sorted)
            taken == [i \in DOMAIN lengths |-> Sample(lengths[i])]
            seen == WindowConcurrency(<<taken>>, wall, None, None)
        IN /\ AtMost(seen.outstanding, <<1, 1>>) /\ AtMost(<<1, 1>>, seen.outstanding)
           /\ CollectorQps(sorted) = MergeCollectors(<<taken>>, wall, None, None).qps
           /\ ScalingStatus(seen.served, 1, None, seen.outstanding) = Ok
           /\ ScalingNote(seen.served, seen.outstanding) = "tail_dominated"
              <=> 2 * Len(sorted) * Percentile(sorted, 50) < wall

(* More queries outstanding never make a window that was accepted refused,    *)
(* and one of half the clients or more is refused only where the median and   *)
(* the throughput both say it was not (scaling.outstanding_rule).             *)
ASSUME MoreOutstandingIsNoWorse ==
    \A clients \in 1..4, o \in 0..4, served, efficiency \in {None, <<1, 4>>, <<1, 1>>, <<3, 1>>} :
        LET Status(n) == ScalingStatus(served, clients, efficiency, <<n, 1>>)
        IN /\ Status(o) = Ok => Status(o + 1) = Ok
           /\ Status(o) = NotAchieved /\ 2 * o >= clients =>
                  /\ served # None /\ 2 * served[1] < clients * served[2]
                  /\ efficiency # None /\ 2 * efficiency[1] < efficiency[2]
=============================================================================
