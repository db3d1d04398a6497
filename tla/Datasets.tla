------------------------------ MODULE Datasets -------------------------------
(* What the harness computes from a dataset (harness/datasets.py): the filter *)
(* columns of its rows, the threshold of a filter, the true neighbours a      *)
(* search is scored against, and the two recall rules.                        *)
(*                                                                            *)
(* A vector is one integer, which keeps both metrics of the code distinct: on *)
(* a line the angular distance knows only signs. Shares are in percent, a     *)
(* recall is a pair <<hits, wanted>>; rows and queries are numbered from 1    *)
(* where the code counts from 0. Ties go to the lower row, where numpy's      *)
(* argpartition takes any: RecallThreshold cannot tell the difference.        *)
EXTENDS Integers, Sequences, FiniteSets, SequencesExt

CONSTANTS
    None,
    Train,         \* the vectors of the dataset's file
    Test,          \* its queries
    Metric,        \* "angular" or "euclidean"
    PivotRows(_),  \* rng.choice of the ctag seed: a row for each cluster
    Renumber       \* rng.permutation of the same seed

ASSUME DatasetAssumption ==
    /\ Train \in Seq(Int) /\ Test \in Seq(Int) /\ Train # << >>
    /\ Metric \in {"angular", "euclidean"}

FilterColumns == <<"tag", "ctag">>
Smaller(a, b) == IF a < b THEN a ELSE b
Larger(a, b) == IF a > b THEN a ELSE b
AbsOf(a) == IF a < 0 THEN -a ELSE a
SignOf(a) == IF a < 0 THEN -1 ELSE IF a = 0 THEN 0 ELSE 1

(* The dataset as `load` hands it over: no file is a refusal, and max_test    *)
(* cuts the queries and the truths that go with them to one length.           *)
LoadDataset(file, maxTest) ==
    IF file = None THEN None
    ELSE LET n == IF maxTest = None THEN Len(file.test)
                  ELSE Smaller(maxTest, Len(file.test))
         IN [file EXCEPT !.test = SubSeq(@, 1, n), !.neighbors = SubSeq(@, 1, n)]

IndexedRows(subset) ==
    IF subset = None THEN Len(Train) ELSE Smaller(subset, Len(Train))

-----------------------------------------------------------------------------
(* Recall of the answers to the queries, one rule by identity ...             *)
FirstOf(s, n) == SubSeq(s, 1, Smaller(n, Len(s)))

RecallPerQuery(returned, truth, k) ==
    [i \in DOMAIN returned |->
        IF i > Len(truth) THEN <<0, 1>>
        ELSE LET wanted == ToSet(FirstOf(truth[i], k))
                 got == ToSet(FirstOf(returned[i], k))
             IN IF wanted = {} THEN <<0, 1>>
                ELSE <<Cardinality(wanted \cap got), Cardinality(wanted)>>]

MeanOf(shares) ==
    FoldLeft(LAMBDA a, b : <<a[1] * b[2] + b[1] * a[2], a[2] * b[2]>>,
             <<0, 1>>, shares)

(* ... which is no number for no answers, and not zero.                       *)
RecallAtK(returned, truth, k) ==
    IF returned = << >> THEN None
    ELSE LET sum == MeanOf(RecallPerQuery(returned, truth, k))
         IN <<sum[1], sum[2] * Len(returned)>>

(* ... and one by distance: on a line two vectors of one side of the origin   *)
(* are at no angle, and the zero vector is at none but infinitely far.        *)
FarAway == 1000000
Distances(query, row) ==
    IF Metric = "euclidean" THEN AbsOf(query - row)
    ELSE IF SignOf(query) * SignOf(row) = 0 THEN FarAway
    ELSE 1 - SignOf(query) * SignOf(row)

(* An answer counts when it is no further than the k-th true neighbour; an id *)
(* outside the corpus never does. rowOf takes a churned id to its row.        *)
RecallThresholdPerQuery(returned, truth, rowOf) ==
    [i \in DOMAIN returned |->
        IF i > Len(truth) \/ truth[i] = << >> THEN <<0, 1>>
        ELSE LET wanted == truth[i]
                 kth == Distances(Test[i], Train[wanted[Len(wanted)]])
                 place(id) == IF id \in DOMAIN rowOf THEN rowOf[id] ELSE id
                 hit(id) == /\ place(id) \in DOMAIN Train
                            /\ Distances(Test[i], Train[place(id)]) <= kth
             IN <<Len(SelectSeq(FirstOf(returned[i], Len(wanted)), hit)),
                  Len(wanted)>>]

RecallThreshold(returned, truth, rowOf) ==
    IF returned = << >> THEN None
    ELSE LET sum == MeanOf(RecallThresholdPerQuery(returned, truth, rowOf))
         IN <<sum[1], sum[2] * Len(returned)>>

-----------------------------------------------------------------------------
(* The filter columns. `tag` deals the rows out in turn; `ctag` is the        *)
(* cluster of a row: its nearest pivot, the first of equals, renumbered so    *)
(* that a threshold on it takes clusters in no order of size.                 *)
AssignTags(rows, buckets) == [i \in 1 .. rows |-> (i - 1) % buckets]

Cost(query, row) ==
    IF Metric = "euclidean" THEN query * query - 2 * query * row + row * row
    ELSE -(SignOf(query) * SignOf(row))

AssignCtags(rows, clusters) ==
    IF rows < clusters \/ clusters < 1 THEN None
    ELSE LET pivots == PivotRows(rows)
             nearest(i) ==
                 CHOOSE c \in 1 .. clusters :
                     \A d \in 1 .. clusters :
                         \/ Cost(Train[i], Train[pivots[c]])
                                < Cost(Train[i], Train[pivots[d]])
                         \/ /\ Cost(Train[i], Train[pivots[c]])
                                = Cost(Train[i], Train[pivots[d]])
                            /\ c <= d
         IN [i \in 1 .. rows |-> Renumber[nearest(i)]]

(* The share of rows a filter should admit, as a bound on its column: rounded *)
(* to whole buckets for a tag ...                                             *)
SelectivityToThreshold(percent, buckets) ==
    Larger(1, Smaller(buckets, (2 * percent * buckets + 100) \div 200))

Admitted(values, threshold) == {i \in DOMAIN values : values[i] < threshold}

Threshold(bound, values) ==
    [threshold |-> bound,
     actual |-> <<Cardinality(Admitted(values, bound)), Len(values)>>]

TagThresholdFor(tags, percent, buckets) ==
    IF tags = << >> THEN None
    ELSE Threshold(SelectivityToThreshold(percent, buckets), tags)

(* ... and for a cluster the first bound that admits that many rows, since    *)
(* clusters are of any size. An id past the declared clusters is refused.     *)
CtagThresholdFor(ctags, percent, clusters) ==
    IF ctags = << >> \/ clusters < 1
       \/ \E i \in DOMAIN ctags : ctags[i] \notin 0 .. clusters - 1
    THEN None
    ELSE LET enough == {t \in 1 .. clusters :
                          100 * Cardinality(Admitted(ctags, t))
                              >= percent * Len(ctags)}
         IN Threshold(IF enough = {} THEN clusters
                      ELSE CHOOSE t \in enough : \A u \in enough : t <= u,
                      ctags)

ThresholdFor(column, values, percent, width) ==
    CASE column = "tag" -> TagThresholdFor(values, percent, width)
      [] column = "ctag" -> CtagThresholdFor(values, percent, width)
      [] OTHER -> None

-----------------------------------------------------------------------------
(* The k nearest of the rows a mask admits, nearest first: fewer when fewer   *)
(* are admitted, and a refusal when none is.                                  *)
MaskedGroundTruth(rows, k, mask) ==
    IF mask = {} \/ ~ mask \subseteq 1 .. rows \/ k < 1 THEN None
    ELSE [q \in DOMAIN Test |->
             FirstOf(SetToSortSeq(mask,
                         LAMBDA a, b : \/ Cost(Test[q], Train[a])
                                              < Cost(Test[q], Train[b])
                                       \/ /\ Cost(Test[q], Train[a])
                                              = Cost(Test[q], Train[b])
                                          /\ a < b), k)]

FilteredGroundTruth(rows, k, bound, buckets) ==
    MaskedGroundTruth(rows, k, Admitted(AssignTags(rows, buckets), bound))

-----------------------------------------------------------------------------
(* What is kept on disk between runs, and under which name: the name carries  *)
(* everything the content depends on.                                         *)
CtagCacheName(rows, clusters) ==
    [of |-> "ctag", rows |-> rows, column |-> "ctag", bound |-> None,
     width |-> clusters]
TruthCacheName(rows) ==
    [of |-> "truth", rows |-> rows, column |-> None, bound |-> None,
     width |-> None]

(* A plausible bug: a filtered truth is kept under the column and the bound   *)
(* alone.                                                                     *)
FilteredTruthCacheName_NoRows(rows, column, bound, width) ==
    [of |-> "filtered", rows |-> None, column |-> column, bound |-> bound,
     width |-> width]
FilteredTruthCacheName(rows, column, bound, width) ==
    [of |-> "filtered", rows |-> rows, column |-> column, bound |-> bound,
     width |-> width]

(* The values of a column: `tag` is computed, `ctag` comes from the cache.    *)
FilterValues(column, rows, buckets, cachedCtags) ==
    CASE column = "tag" -> AssignTags(rows, buckets)
      [] column = "ctag" -> cachedCtags
      [] OTHER -> None

(* One filter of a selectivity, with the rows it admits.                      *)
ResolveFilter(column, rows, percent, buckets, clusters, cachedCtags) ==
    LET values == FilterValues(column, rows, buckets, cachedCtags)
        width == IF column = "tag" THEN buckets ELSE clusters
        found == ThresholdFor(column, values, percent, width)
    IN IF values = None \/ found = None THEN None
       ELSE [column |-> column, threshold |-> found.threshold,
             actual |-> found.actual, rows |-> rows, width |-> width,
             mask |-> Admitted(values, found.threshold)]
=============================================================================
