----------------------------- MODULE TableWrite -----------------------------
(***************************************************************************)
(* What one table write of WriteResults promises to the bucket, one       *)
(* invocation per cron run: the files it produces appear all at once,      *)
(* one per hour with rows, and files of earlier runs are never lost.  A     *)
(* failed invocation leaves nothing of its own behind, unless deleting     *)
(* its files failed as well.  Row-level AddRow failures are non-fatal, so  *)
(* a file may hold fewer rows than were aggregated for its hour.           *)
(***************************************************************************)
EXTENDS Integers

CONSTANTS
    Hours,         \* hour buckets of the table
    RowIds,        \* row identities
    RowsOf,        \* [Hours -> SUBSET RowIds]: rows aggregated per hour
    MaxRuns,       \* cron invocations explored
    InitFiles,     \* files already in the bucket before the first run
    AddRowErrors,  \* AddRow may fail for a row
    DeleteErrors   \* DeleteFiles may fail

VARIABLES files, run, status

HourFile == [hour: Hours, rows: SUBSET RowIds, run: 0..MaxRuns]

\* Hours that get a file: the generated row map only has keys with rows.
Written == {h \in Hours : RowsOf[h] # {}}

RowChoices(h) == IF AddRowErrors THEN SUBSET RowsOf[h] ELSE {RowsOf[h]}

\* The files a complete invocation of this run would produce.
OutputsOf(r) ==
    {{[hour |-> h, rows |-> pick[h], run |-> r] : h \in Written} :
        pick \in {f \in [Written -> SUBSET RowIds] :
                     \A h \in Written : f[h] \in RowChoices(h)}}

Init ==
    /\ files = InitFiles
    /\ run = 1
    /\ status = "idle"

Begin ==
    /\ status = "idle"
    /\ status' = "busy"
    /\ UNCHANGED <<files, run>>

Succeed ==
    /\ status = "busy"
    /\ \E out \in OutputsOf(run) : files' = files \cup out
    /\ status' = "done"
    /\ UNCHANGED run

\* Failure: at most the files whose deletion failed remain.
Fail ==
    /\ status = "busy"
    /\ \E left \in IF DeleteErrors
                     THEN UNION {SUBSET out : out \in OutputsOf(run)}
                     ELSE {{}} :
           files' = files \cup left
    /\ status' = "failed"
    /\ UNCHANGED run

NextRun ==
    /\ status \in {"done", "failed"}
    /\ run < MaxRuns
    /\ run' = run + 1
    /\ status' = "idle"
    /\ UNCHANGED files

Next == Begin \/ Succeed \/ Fail \/ NextRun

Spec == Init /\ [][Next]_<<files, run, status>>
=============================================================================
