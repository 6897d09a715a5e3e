---- MODULE MCRunObligations ----
(* A small vault for TLC: symmetric runs and hosts, one talk of today. *)
EXTENDS RunObligations

CONSTANTS t1, t2

OneTalk == {t1}
TwoTalks == {t1, t2}
\* One talk was given on the first day, another carries no usable date.
OneDate  == [t \in OneTalk |-> 0]
TwoDates == [t \in TwoTalks |-> IF t = t1 THEN 0 ELSE None]

\* Two persisted results while nobody conducts a session; a run opened long
\* ago; and two hosts that conduct the sessions of two runs and may be lost.
\* Where one result persists, the runs are alike, and it does not matter whose it is.
CONSTANTS r1, r2, h1, h2
Batchwise == [facts |-> 2, batches |-> Runs, days |-> 0, faults |-> 0, hosts |-> {}]
Weeks     == [facts |-> 1, batches |-> {r1}, days |-> 2, faults |-> 0, hosts |-> {}]
Sessions  == [facts |-> 1, batches |-> {r1}, days |-> 0, faults |-> 1, hosts |-> {h1, h2}]
AllScopes == {Batchwise, Weeks, Sessions}
====
