----------------------------- MODULE MCSchedules -----------------------------
(* Small instances of Schedules: clients post short and long schedules, due *)
(* at once or later, and disabled ones; one is a schedule they read after a *)
(* run, edited, and posted again with the last run it records.              *)
EXTENDS Schedules

MCChoice(on, every, ran_at, at) ==
    [enabled |-> on, interval |-> every, next_run_at |-> at,
     last_run_at |-> ran_at, consecutive_failures |-> 0]

MCChoices == {MCChoice(TRUE, 1, None, None), MCChoice(TRUE, 2, None, 1),
              MCChoice(FALSE, 1, None, None), MCChoice(TRUE, 2, 1, 0)}
MCShort   == {MCChoice(TRUE, 1, None, None), MCChoice(TRUE, 2, None, None)}
=============================================================================
