------------------------- MODULE JournalRefinement -------------------------
(***************************************************************************)
(* Journal implements DurableLog: segments, index and recovery are one log *)
(* whose end a crash may cut and whose beginning space pressure may.       *)
(***************************************************************************)
EXTENDS Journal

\* The log, as the running journal has it and as it will be read back at the next boot.
LogNow ==
  LET open == OpenId(TableNow)
      written == Len(Frames(files, open))
      first == Oldest(DOMAIN TableNow)
  IN  [oldest |-> TableNow[first].oldest,
       next |-> TableNow[open].oldest + written,
       synced |-> TableNow[open].oldest + synced,
       acked |-> AckedNow]

Log == INSTANCE DurableLog WITH log <- LogNow

\* The stream is such a log, when the index can be written and no crash falls between
\* the removals of a reclaim and the index.
ImplementsLog == Log!Spec
=============================================================================
