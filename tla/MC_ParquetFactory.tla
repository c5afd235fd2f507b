------------------------- MODULE MC_ParquetFactory -------------------------
(* Model-checking instances of ParquetFactory: two partitions, four       *)
(* archive paths in two hour buckets, and message logs that contain each  *)
(* kind of message consumePartition branches on.                           *)
EXTENDS ParquetFactory, TLC

CONSTANTS p1, p2, p3, a, b, c, d, h1, h2

MCPartitions == {p1, p2}
\* Three partitions: three workers can pass CheckMessage before any counts.
MCPartitions3 == {p1, p2, p3}
MCPaths      == {a, b, c, d}
MCHours      == {h1, h2}
\* d matches no archive path pattern: ExtractCollectedDate fails.
MCHourOf     == (a :> h1) @@ (b :> h2) @@ (c :> h1) @@ (d :> NoDate)
MCHitPaths   == {a, b}

Rep(x)  == [path |-> x, wellFormed |-> TRUE, ts |-> 0, stop |-> FALSE]
Bad(x)  == [Rep(x) EXCEPT !.wellFormed = FALSE]
Junk    == [Rep(a) EXCEPT !.path = NoPath]
Late    == [Rep(b) EXCEPT !.ts = 1]
Stop    == [Rep(c) EXCEPT !.stop = TRUE]

\* Both partitions carry archive a; p2 carries a malformed report, a path
\* without a date and a stop marker; p1 ends at the hour ceiling.
MCLog == (p1 :> <<Rep(a), Rep(b), Junk, Late>>)
      @@ (p2 :> <<Rep(a), Bad(c), Rep(d), Stop>>)

\* MCLog with a third partition repeating two good reports of the others.
MCLog3 == MCLog @@ (p3 :> <<Rep(b), Rep(a)>>)

\* The archive that p1 carries malformed arrives well formed on p2.
MCLogResent == (p1 :> <<Bad(a), Rep(b), Late>>)
            @@ (p2 :> <<Rep(a), Rep(c), Late>>)

\* p1 has a backlog below the hour ceiling; p2 has no new messages.
MCLogBacklog == (p1 :> <<Rep(a), Rep(b), Late>>)
             @@ (p2 :> <<>>)

\* No partition reaches the hour ceiling or a stop marker: a worker that
\* does not hit the record cap waits for messages that never come.
MCLogQuiet == (p1 :> <<Rep(a), Rep(c)>>)
           @@ (p2 :> <<Rep(b), Rep(d), Bad(c)>>)

\* MCLogQuiet with a third partition that carries one report.
MCLogQuiet3 == MCLogQuiet @@ (p3 :> <<Rep(d)>>)

\* A backlog on p1 that retention may cut into, with a report stamped in
\* the first run's ceiling hour ahead of an earlier one; p2 is idle until
\* traffic arrives.
MCLogRetention == (p1 :> <<Rep(a), Late, Rep(c)>>)
               @@ (p2 :> <<>>)

\* An operator drains p1 with a stop-marked report after a backlog report.
MCLogStop == (p1 :> <<Rep(a), Stop>>)
          @@ (p2 :> <<>>)
=============================================================================
