----------------------------- MODULE TableWriter ----------------------------
(***************************************************************************)
(* One table of WriteResults (createRuleHitTable / createArchivesTable)    *)
(* written through the S3 writer, over MaxRuns cron runs.                  *)
(*                                                                         *)
(* Per hour bucket of the generated row map (Go map order: any order) the  *)
(* code lists the hour prefix, takes the last index + 1 (0 when the table  *)
(* is absent or the listing failed), streams a file to that key, adds the  *)
(* rows (a failing AddRow only drops its row) and closes it; the object    *)
(* appears at CloseFile.  A failing NewFile or CloseFile aborts the table  *)
(* and the saved files are deleted (twice on the CloseFile path: once in   *)
(* the table function, once in WriteResults).                              *)
(*                                                                         *)
(* An object is a key (hour, index) with its rows; run is a ghost field    *)
(* naming the invocation that wrote it (0: before the first run).          *)
(***************************************************************************)
EXTENDS Integers, FiniteSetsExt

CONSTANTS
    Hours, RowIds, RowsOf, MaxRuns, InitStore,
    MaxIndex,       \* bound on file indexes, for TypeOK
    ListErrors,     \* listBucket may fail
    NewFileErrors,  \* NewFile may fail
    CloseErrors,    \* CloseFile may fail
    DeleteErrors,   \* DeleteObjects may fail for some keys
    AddRowErrors    \* AddRow may fail for a row

VARIABLES
    store,        \* objects in the bucket under this table's prefix
    run,          \* current cron invocation
    pc,           \* idle, loop, newfile, addrows, close, rollback, done, failed
    todo,         \* hour buckets of the row map not yet written
    cur,          \* hour bucket being written
    fileID,       \* index chosen for cur
    written,      \* rows added to the open file
    savedFiles    \* keys closed successfully in this invocation

vars == <<store, run, pc, todo, cur, fileID, written, savedFiles>>

Key(o) == <<o.hour, o.index>>

\* listBucket of the hour prefix.
ObjectsUnder(h) == {o \in store : o.hour = h}

\* getKeyAndIndex of every listed key, keeping the largest index; the
\* result map has the table or not (a set of at most one index).
GetLastIndexForParquetMin(h) ==
    LET idx == {o.index : o \in ObjectsUnder(h)}
    IN IF idx = {} THEN {} ELSE {Min(idx)}

GetLastIndexForParquetNext(h) ==
    LET idx == {o.index : o \in ObjectsUnder(h)}
    IN IF idx = {} THEN {} ELSE {Max(idx) + 1}

GetLastIndexForParquet(h) ==
    LET idx == {o.index : o \in ObjectsUnder(h)}
    IN IF idx = {} THEN {} ELSE {Max(idx)}

\* On a listing error GetLastIndexForParquet returns an empty map.
Listings(h) ==
    IF ListErrors THEN {GetLastIndexForParquet(h), {}}
                  ELSE {GetLastIndexForParquet(h)}

\* fileID: 0 when the table is absent, else last + 1.
NextFileID(last) == IF last = {} THEN 0 ELSE Max(last) + 1

RowChoices(h) == IF AddRowErrors THEN SUBSET RowsOf[h] ELSE {RowsOf[h]}

\* DeleteFiles: empty input is a no-op; the batch delete may fail for
\* any of the keys.
DeleteFiles(keys) ==
    LET doomed == {o \in store : Key(o) \in keys}
    IN IF DeleteErrors THEN {store \ s : s \in SUBSET doomed}
                       ELSE {store \ doomed}

Init ==
    /\ store = InitStore
    /\ run = 1
    /\ pc = "idle"
    /\ todo = {}
    /\ cur = CHOOSE h \in Hours : TRUE
    /\ fileID = 0
    /\ written = {}
    /\ savedFiles = {}

\* generateRuleHitRows: the row map has a key per hour with rows.
Begin ==
    /\ pc = "idle"
    /\ todo' = {h \in Hours : RowsOf[h] # {}}
    /\ savedFiles' = {}
    /\ pc' = "loop"
    /\ UNCHANGED <<store, run, cur, fileID, written>>

PickHour ==
    /\ pc = "loop"
    /\ \E h \in todo : \E last \in Listings(h) :
          /\ cur' = h
          /\ fileID' = NextFileID(last)
    /\ pc' = "newfile"
    /\ UNCHANGED <<store, run, todo, written, savedFiles>>

NewFileOk ==
    /\ pc = "newfile"
    /\ pc' = "addrows"
    /\ UNCHANGED <<store, run, todo, cur, fileID, written, savedFiles>>

\* return savedFiles, err; WriteResults rolls back.
NewFileFails ==
    /\ NewFileErrors
    /\ pc = "newfile"
    /\ pc' = "rollback"
    /\ UNCHANGED <<store, run, todo, cur, fileID, written, savedFiles>>

AddRows ==
    /\ pc = "addrows"
    /\ \E rs \in RowChoices(cur) : written' = rs
    /\ pc' = "close"
    /\ UNCHANGED <<store, run, todo, cur, fileID, savedFiles>>

\* The completed upload replaces whatever object had the key.
CloseOk ==
    /\ pc = "close"
    /\ store' = {o \in store : Key(o) # <<cur, fileID>>}
                \cup {[hour |-> cur, index |-> fileID, rows |-> written,
                       run |-> run]}
    /\ savedFiles' = savedFiles \cup {<<cur, fileID>>}
    /\ todo' = todo \ {cur}
    /\ pc' = "loop"
    /\ UNCHANGED <<run, cur, fileID, written>>

\* The table function deletes savedFiles, then returns them with the error.
CloseFails ==
    /\ CloseErrors
    /\ pc = "close"
    /\ \E s \in DeleteFiles(savedFiles) : store' = s
    /\ pc' = "rollback"
    /\ UNCHANGED <<run, todo, cur, fileID, written, savedFiles>>

Done ==
    /\ pc = "loop"
    /\ todo = {}
    /\ pc' = "done"
    /\ UNCHANGED <<store, run, todo, cur, fileID, written, savedFiles>>

\* WriteResults: writer.DeleteFiles(files) after the table failed.
Rollback ==
    /\ pc = "rollback"
    /\ \E s \in DeleteFiles(savedFiles) : store' = s
    /\ pc' = "failed"
    /\ UNCHANGED <<run, todo, cur, fileID, written, savedFiles>>

NextRun ==
    /\ pc \in {"done", "failed"}
    /\ run < MaxRuns
    /\ run' = run + 1
    /\ pc' = "idle"
    /\ UNCHANGED <<store, todo, cur, fileID, written, savedFiles>>

Finish ==
    /\ pc \in {"done", "failed"}
    /\ run = MaxRuns
    /\ UNCHANGED vars

Next ==
    \/ Begin \/ PickHour \/ NewFileOk \/ NewFileFails \/ AddRows
    \/ CloseOk \/ CloseFails \/ Done \/ Rollback \/ NextRun \/ Finish

Spec == Init /\ [][Next]_vars

-----------------------------------------------------------------------------
(* Properties                                                              *)

\* Store holds objects with indexes that grow by at most one per run.
TypeOK ==
    /\ store \subseteq [hour: Hours, index: 0..MaxIndex,
                        rows: SUBSET RowIds, run: 0..MaxRuns]
    /\ pc \in {"idle", "loop", "newfile", "addrows", "close", "rollback",
               "done", "failed"}
    /\ todo \subseteq Hours /\ cur \in Hours /\ fileID \in 0..MaxIndex
    /\ savedFiles \subseteq Hours \X (0..MaxIndex)

\* The bucket as the abstract write sees it: objects of finished
\* invocations; those of the running invocation are not yet its output.
Visible ==
    {[hour |-> o.hour, rows |-> o.rows, run |-> o.run] :
        o \in {x \in store : x.run < run \/ pc \in {"done", "failed"}}}

Status ==
    CASE pc = "idle"               -> "idle"
      [] pc \in {"done", "failed"} -> pc
      [] OTHER                     -> "busy"

Abstract == INSTANCE TableWrite
    WITH files <- Visible, status <- Status,
         InitFiles <- {[hour |-> o.hour, rows |-> o.rows, run |-> o.run] :
                           o \in InitStore}

\* The per-hour index selection, file streaming and two-stage rollback of
\* createRuleHitTable/WriteResults implement the all-or-nothing table
\* write: no file of an earlier run is ever replaced or deleted, and a
\* failed invocation leaves files only where DeleteFiles failed.
WritesRefineTable == Abstract!Spec
=============================================================================
