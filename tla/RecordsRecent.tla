--------------------------- MODULE RecordsRecent ---------------------------
(***************************************************************************)
(* The linked list implements RecentEvents: an event is recorded by the    *)
(* compare-exchange that links its node in, and the oldest is evicted by   *)
(* the compare-exchange of head.                                           *)
(***************************************************************************)
EXTENDS LockFreeQueue

R == INSTANCE RecentEvents WITH
       newest  <- IF linked = <<>> THEN 0 ELSE linked[Len(linked)],
       entries <- IF Closing THEN <<>> ELSE Contents,
       closed  <- Closing

(* Every access of the main thread records one event at the rear, evicts   *)
(* the oldest because there are too many, closes the queue, or changes     *)
(* nothing a reader of a quiet queue could see.                            *)
RecordsRecentEvents == R!Spec
=============================================================================
