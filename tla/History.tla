------------------------------ MODULE History ------------------------------
(***************************************************************************)
(* The history database that every netforge process on a host shares:      *)
(* commands, the agent and the controller record samples and paths in it   *)
(* and judge them by what is there.  A row carries the time.time() at      *)
(* which its writer prepared it, not the one at which the database took    *)
(* it, and reading and saving are transactions of their own.  The clock    *)
(* may repeat a time or step back: a row may get any place that is free in *)
(* ORDER BY created_at, among equal times the one that SQLite gives it.    *)
(***************************************************************************)
EXTENDS Integers, Sequences, FiniteSets, Baselines

CONSTANTS
    Processes,          \* the processes that use the database
    Subjects,           \* what is recorded: "latency", "reachable_ratio", "path"
    Samples,            \* the samples a measurement may give
    Window,             \* rolling_stats' limit (20 in the code)
    Earlier,            \* bound: rows that earlier runs have left, at 2, 4, ...
    Places              \* bound: the places in the order that new rows may get

ASSUME SubjectsAssumption == Subjects \subseteq {"latency", "reachable_ratio", "path"}
ASSUME SamplesAssumption == Samples \subseteq Nat
ASSUME WindowAssumption == Window \in Nat \ {0}
ASSUME EarlierAssumption == Earlier \in Nat
ASSUME PlacesAssumption == Places \subseteq Nat \ {0}

VARIABLES
    subject,            \* the key that is looked at
    rows,               \* the key's rows in table snapshots
    pc,                 \* where each process is
    current,            \* current_value, or the new fingerprint
    stamp,              \* the place of the created_at of the row it is saving
    values,             \* the samples that rolling_stats read
    verdict             \* the result it reported last, or NoVerdict

vars == <<subject, rows, pc, current, stamp, values, verdict>>

NoVerdict == [deviated |-> FALSE, status |-> "none"]

\* A row keeps, as ghosts, what its writer reported of it, the place of the row
\* that was then before it (0: none), and whether it was then not the newest.
Row(created_at, value) ==
    [created_at |-> created_at, value |-> value,
     reported |-> "open", before |-> 0, overtaken |-> FALSE]

\* Mutant: in the order of the commits.
InsertLast(table, row) ==
    SelectSeq(table, LAMBDA r : r.created_at # row.created_at) \o <<row>>

\* The rows are kept ORDER BY created_at, oldest first.
Insert(table, row) ==
    LET older == {i \in DOMAIN table : table[i].created_at < row.created_at}
        newer == {i \in DOMAIN table : table[i].created_at > row.created_at}
    IN  SubSeq(table, 1, Max(older \cup {0})) \o <<row>>
            \o SubSeq(table, Min(newer \cup {Len(table) + 1}), Len(table))

ValuesOf(table) == [i \in DOMAIN table |-> table[i].value]

Init ==
    /\ subject \in Subjects
    /\ \E n \in 0 .. Earlier : \E old \in [1 .. n -> Samples] :
          rows = [i \in 1 .. n |-> Row(2 * i, old[i])]
    /\ pc = [p \in Processes |-> "idle"]
    /\ current = [p \in Processes |-> 0]
    /\ stamp = [p \in Processes |-> 0]
    /\ values = [p \in Processes |-> << >>]
    /\ verdict = [p \in Processes |-> NoVerdict]

\* The places that no row has and no process is about to take.
Free == {at \in Places : /\ \A i \in DOMAIN rows : rows[i].created_at # at
                         /\ \A q \in Processes : pc[q] = "insert" => stamp[q] # at}

\* record_and_compare: rolling_stats reads the newest rows first of all.
rolling_values(p, v) ==
    /\ subject # "path" /\ pc[p] = "idle" /\ Free # {}
    /\ pc' = [pc EXCEPT ![p] = "prepare"]
    /\ current' = [current EXCEPT ![p] = v]
    /\ values' = [values EXCEPT ![p] = Newest(ValuesOf(rows), Window)]
    /\ verdict' = [verdict EXCEPT ![p] = NoVerdict]
    /\ UNCHANGED <<subject, rows, stamp>>

\* detect_path_change starts with a trace and saves it.
Trace(p, v) ==
    /\ subject = "path" /\ pc[p] = "idle" /\ Free # {}
    /\ pc' = [pc EXCEPT ![p] = "prepare"]
    /\ current' = [current EXCEPT ![p] = v]
    /\ verdict' = [verdict EXCEPT ![p] = NoVerdict]
    /\ UNCHANGED <<subject, rows, stamp, values>>

\* save_snapshot takes the time when it builds the row, earlier or later than
\* the times that are in the table...
Prepare(p) ==
    /\ pc[p] = "prepare"
    /\ \E at \in Free : stamp' = [stamp EXCEPT ![p] = at]
    /\ pc' = [pc EXCEPT ![p] = "insert"]
    /\ UNCHANGED <<subject, rows, current, values, verdict>>

\* ... and commits it when the database lock is free.
save_snapshot(p) ==
    /\ pc[p] = "insert"
    /\ rows' = Insert(rows, Row(stamp[p], current[p]))
    /\ pc' = [pc EXCEPT ![p] = IF subject = "path" THEN "previous" ELSE "compare"]
    /\ UNCHANGED <<subject, current, stamp, values, verdict>>

\* The lock stays busy for longer than the timeout: the command ends in an error.
Locked(p) ==
    /\ pc[p] \in {"insert", "previous"}
    /\ pc' = [pc EXCEPT ![p] = "idle"]
    /\ current' = [current EXCEPT ![p] = 0]
    /\ stamp' = [stamp EXCEPT ![p] = 0]
    /\ values' = [values EXCEPT ![p] = << >>]
    /\ UNCHANGED <<subject, rows, verdict>>

record_and_compare(p) ==
    /\ pc[p] = "compare"
    /\ verdict' = [verdict EXCEPT ![p] =
                      compare(rolling_stats(values[p], Window), current[p],
                              subject = "latency", 5)]
    /\ pc' = [pc EXCEPT ![p] = "idle"]
    /\ stamp' = [stamp EXCEPT ![p] = 0]
    /\ UNCHANGED <<subject, rows, current, values>>

\* It takes the second newest row for the one before its own.
detect_path_change(p) ==
    /\ pc[p] = "previous"
    /\ LET newest == ValuesOf(rows)
           changed == has_previous(newest) /\ previous_snapshot(newest) # current[p]
           earlier == {i \in DOMAIN rows : rows[i].created_at < stamp[p]}
       IN  rows' = Insert(rows,
                        [created_at |-> stamp[p], value |-> current[p],
                         reported |-> IF changed THEN "changed" ELSE "same",
                         before |-> IF earlier = {} THEN 0
                                    ELSE rows[Max(earlier)].created_at,
                         overtaken |-> rows[Len(rows)].created_at # stamp[p]])
    /\ pc' = [pc EXCEPT ![p] = "idle"]
    /\ current' = [current EXCEPT ![p] = 0]
    /\ stamp' = [stamp EXCEPT ![p] = 0]
    /\ UNCHANGED <<subject, values, verdict>>

Next == \E p \in Processes :
    \/ \E v \in Samples : rolling_values(p, v) \/ Trace(p, v)
    \/ Prepare(p)
    \/ save_snapshot(p)
    \/ Locked(p)
    \/ record_and_compare(p)
    \/ detect_path_change(p)

Spec == Init /\ [][Next]_vars

-----------------------------------------------------------------------------
Times == Places \cup {2 * k : k \in 1 .. Earlier}

\* Rows and locals stay well typed, and the rows in their order although they are
\* committed out of it (save_snapshot).
TypeOK ==
    /\ \A i \in DOMAIN rows : rows[i].created_at \in Times /\ rows[i].value \in Samples
    /\ \A i \in 2 .. Len(rows) : rows[i - 1].created_at < rows[i].created_at
    /\ pc \in [Processes -> {"idle", "prepare", "insert", "compare", "previous"}]
    /\ \A p \in Processes : pc[p] \in {"compare", "previous"} =>
          \E r \in Range(rows) : r.created_at = stamp[p] /\ r.value = current[p]

Judged(p) == verdict[p] # NoVerdict
Share(p, S) == Cardinality({i \in DOMAIN values[p] : values[p][i] \in S})

\* A deviation is against the majority: at least half of the samples before it
\* are better by the warning ratio, and there are five of them at least
\* (record_and_compare, rolling_stats: a single odd sample raises no alarm).
Worse(p) == {v \in Samples : IF subject = "latency" THEN 3 * v <= 2 * current[p]
                             ELSE 2 * v >= 3 * current[p]}
DeviationIsMinority ==
    \A p \in Processes : Judged(p) /\ verdict[p].deviated =>
        Len(values[p]) >= 5 /\ 2 * Share(p, Worse(p)) >= Len(values[p])

\* A lasting level that is left is reported: when most of five or more samples
\* are better by the failing ratio and none is as bad, the sample is failed; for
\* a ratio of reachable vantages, when most are half as high again, deviated.
FarBetter(p) == {v \in Samples : v > 0 /\ 5 * v <= 2 * current[p]}
Better(p) == {v \in Samples : v > 0 /\ 2 * v >= 3 * current[p]}
ShiftReported ==
    \A p \in Processes : Judged(p) /\ Len(values[p]) >= 5 =>
        /\ /\ subject = "latency" /\ current[p] >= 10
           /\ 2 * Share(p, FarBetter(p)) > Len(values[p])
           /\ \A i \in DOMAIN values[p] : values[p][i] < current[p]
           => verdict[p].status = "failed" /\ verdict[p].deviated
        /\ /\ subject = "reachable_ratio"
           /\ 2 * Share(p, Better(p)) > Len(values[p])
           => verdict[p].deviated

\* The row that was before a row when its writer read the table is different.
Differs(i) == \E j \in DOMAIN rows : /\ rows[j].created_at = rows[i].before
                                     /\ rows[j].value # rows[i].value

\* A process whose row was the newest when it read reports a change exactly when
\* the row that was then before its own differs from it, and no commit falsifies
\* that (detect_path_change saves first and reads the second newest).
ChangeSeen ==
    \A i \in DOMAIN rows : rows[i].reported # "open" /\ ~rows[i].overtaken =>
        (rows[i].reported = "changed" <=> Differs(i))

=============================================================================
