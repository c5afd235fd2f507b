---------------------------- MODULE MC_TableWriter ---------------------------
EXTENDS TableWriter, TLC

CONSTANTS h1, h2, r1, r2, r3

MCHours == {h1, h2}
MCRowIds == {r1, r2, r3}
MCRowsOf == (h1 :> {r1, r2}) @@ (h2 :> {r3})

\* Earlier runs left rule_hits-0 and rule_hits-2 in hour h1 (spec 6, index
\* selection with a gap); hour h2 is empty.
MCInitStore == {[hour |-> h1, index |-> 0, rows |-> {r1}, run |-> 0],
                [hour |-> h1, index |-> 2, rows |-> {r2}, run |-> 0]}

\* Highest initial index plus one per run.
MCMaxIndex == 2 + 2
=============================================================================
