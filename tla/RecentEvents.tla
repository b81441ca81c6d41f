---------------------------- MODULE RecentEvents ----------------------------
(***************************************************************************)
(* What the queue of recent events promises to its one writer: events go   *)
(* in at the rear in the order they occur, and whenever there is one more  *)
(* than MAX_ENTRIES the oldest is taken out before another goes in.        *)
(***************************************************************************)
EXTENDS Naturals, Sequences

CONSTANT MAX_ENTRIES

VARIABLES
  newest,   (* serial of the newest event recorded                           *)
  entries,  (* serials of the events held, oldest first                      *)
  closed    (* has the queue been freed?                                     *)

vars == <<newest, entries, closed>>

Init == newest = 0 /\ entries = <<>> /\ closed = FALSE

(* The event may not be the one after newest: some are not recorded.       *)
Record ==
  /\ ~ closed
  /\ Len(entries) <= MAX_ENTRIES
  /\ newest' \in Nat /\ newest' > newest
  /\ entries' = Append(entries, newest')
  /\ UNCHANGED closed

Evict ==
  /\ ~ closed
  /\ Len(entries) > MAX_ENTRIES
  /\ entries' = Tail(entries)
  /\ UNCHANGED <<newest, closed>>

Close ==
  /\ ~ closed
  /\ Len(entries) <= MAX_ENTRIES
  /\ closed' = TRUE
  /\ entries' = <<>>
  /\ UNCHANGED newest

Next == Record \/ Evict \/ Close

Spec == Init /\ [][Next]_vars
=============================================================================
