----------------------------- MODULE Baselines -----------------------------
(***************************************************************************)
(* The numbers of storage/: the statistics of a window of samples and the  *)
(* verdict of record_and_compare on a new one.  Samples are naturals; the  *)
(* median is kept doubled, the median deviation fourfold and the 95th      *)
(* percentile twentyfold, so that every comparison is of whole numbers.    *)
(***************************************************************************)
EXTENDS Integers, Sequences, SequencesExt

Abs(n) == IF n < 0 THEN -n ELSE n

\* How many samples are below a value, and how many are not above it.
Below(s, v)  == Cardinality({i \in DOMAIN s : s[i] < v})
UpTo(s, v)   == Cardinality({i \in DOMAIN s : s[i] <= v})

\* The samples in order: the k-th smallest one at k.
Ascending(s) ==
    [k \in DOMAIN s |-> CHOOSE v \in Range(s) : Below(s, v) < k /\ k <= UpTo(s, v)]

\* Mutant: the sample in the middle of the window, unsorted.
Median2Unsorted(s) ==
    LET n == Len(s)
    IN  s[(n + 1) \div 2] + s[n \div 2 + 1]

Median2(s) ==
    LET t == Ascending(s)
        n == Len(s)
    IN  t[(n + 1) \div 2] + t[n \div 2 + 1]

P95x20(s) ==
    LET t == Ascending(s)
        m == Len(s) - 1
        j == (19 * m) \div 20
        d == (19 * m) % 20
    IN  IF m = 0 THEN 20 * t[1] ELSE t[j + 1] * (20 - d) + t[j + 2] * d

\* The newest limit rows of a key; rows are kept oldest first.
Newest(rows, limit) == SubSeq(rows, Max({1, Len(rows) - limit + 1}), Len(rows))

rolling_stats(rows, limit) ==
    LET values == Newest(rows, limit)
        median2 == Median2(values)
    IN  IF values = << >> THEN [sample_count |-> 0, median2 |-> 0, p95x20 |-> 0, mad4 |-> 0]
        ELSE [sample_count |-> Len(values),
              median2 |-> median2,
              p95x20 |-> P95x20(values),
              mad4 |-> Median2([i \in DOMAIN values |-> Abs(2 * values[i] - median2)])]

\* Mutant: the sample must be out of the spread in both senses.
meaningful_deltaBoth(stats, current, guard) ==
    LET delta2 == Abs(2 * current - stats.median2)
    IN  /\ delta2 >= 2 * guard \/ current >= 10
        /\ 20 * current > stats.p95x20
        /\ stats.mad4 > 0 /\ 2 * delta2 >= 3 * stats.mad4

\* A rise counts when it is large in itself and out of the samples' spread.
meaningful_delta(stats, current, guard) ==
    LET delta2 == Abs(2 * current - stats.median2)
    IN  /\ delta2 >= 2 * guard \/ current >= 10
        /\ \/ 20 * current > stats.p95x20
           \/ stats.mad4 > 0 /\ 2 * delta2 >= 3 * stats.mad4

\* The comparison of record_and_compare: warn_ratio is 1.5, fail_ratio 2.5.
\* With no sample, or a median of 0, the sample only seeds the baseline.
compare(stats, current, higher_is_worse, guard) ==
    LET seeded == stats.median2 = 0
        enough == stats.sample_count >= 5
        large == meaningful_delta(stats, current, guard)
        worsened == /\ ~seeded /\ enough
                    /\ IF higher_is_worse THEN 4 * current >= 3 * stats.median2 /\ large
                       ELSE 3 * current <= stats.median2
        failed == /\ ~seeded /\ enough /\ higher_is_worse
                  /\ 4 * current >= 5 * stats.median2 /\ large
    IN  [status |-> IF failed THEN "failed" ELSE IF worsened THEN "degraded" ELSE "healthy",
         deviated |-> worsened,
         ratio |-> IF seeded THEN -1 ELSE (200 * current) \div stats.median2,
         sample_count |-> stats.sample_count]

\* previous_snapshot: the second newest row, if there are two.
has_previous(rows) == Len(rows) >= 2
\* Mutant: the newest row, which is the caller's own.
previous_snapshotLatest(rows) == rows[Len(rows)]
previous_snapshot(rows) == rows[Len(rows) - 1]

=============================================================================
