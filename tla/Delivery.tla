------------------------------ MODULE Delivery ------------------------------
(***************************************************************************)
(* What the message pipeline promises, with no queue, pipe, ack or process *)
(* in sight: events are accepted in some order, each is given to exactly   *)
(* one consumer of its group, the consumers of a group take turns, and a   *)
(* consumer counts the events it is given in order.  A request to stop     *)
(* waits its turn among the events and ends the dispatching; a failure may *)
(* end it at any moment, losing at most the event about to be given.       *)
(***************************************************************************)
EXTENDS Naturals, Sequences

CONSTANTS NUM_GROUPS, NUM_CONSUMERS_PER_GROUP

Groups    == 0 .. NUM_GROUPS - 1
Members   == 0 .. NUM_CONSUMERS_PER_GROUP - 1
Consumers == Groups \X Members

Event(g, n) == [op |-> "EVENT", category |-> g, id |-> n]
Stop(n)     == [op |-> "STOP_MESSAG", category |-> 0, id |-> n]

VARIABLES
  serial,   (* messages accepted so far                                      *)
  waiting,  (* messages accepted and not yet given or obeyed                 *)
  open,     (* is dispatching still going on?                                *)
  given,    (* per consumer, the serials of the events it was given          *)
  handled   (* per consumer, the serials of the events it counted            *)

vars == <<serial, waiting, open, given, handled>>

Init ==
  /\ serial = 0
  /\ waiting = <<>>
  /\ open = TRUE
  /\ given = [c \in Consumers |-> <<>>]
  /\ handled = [c \in Consumers |-> <<>>]

Take(m) ==
  /\ serial' = serial + 1
  /\ waiting' = Append(waiting, m)
  /\ UNCHANGED <<open, given, handled>>

Accept(g)  == Take(Event(g, serial + 1))
AcceptStop == Take(Stop(serial + 1))

(* The member whose turn it is: the first with the fewest events.          *)
Turn(g) ==
  CHOOSE j \in Members : \A k \in Members :
    /\ Len(given[<<g, j>>]) <= Len(given[<<g, k>>])
    /\ k < j => Len(given[<<g, j>>]) < Len(given[<<g, k>>])

(* The next thing to do is to give an event, or to stop.                   *)
Due(op) == open /\ waiting # <<>> /\ Head(waiting).op = op

Give ==
  /\ Due("EVENT")
  /\ LET g == Head(waiting).category
     IN  given' = [given EXCEPT ![<<g, Turn(g)>>] = Append(@, Head(waiting).id)]
  /\ waiting' = Tail(waiting)
  /\ UNCHANGED <<serial, open, handled>>

Handle(c) ==
  /\ Len(handled[c]) < Len(given[c])
  /\ handled' = [handled EXCEPT ![c] = Append(@, given[c][Len(@) + 1])]
  /\ UNCHANGED <<serial, waiting, open, given>>

Obey ==
  /\ Due("STOP_MESSAG")
  /\ open' = FALSE
  /\ waiting' = Tail(waiting)
  /\ UNCHANGED <<serial, given, handled>>

Fail ==
  /\ open
  /\ open' = FALSE
  /\ waiting' = waiting \/ (Due("EVENT") /\ waiting' = Tail(waiting))
  /\ UNCHANGED <<serial, given, handled>>

Next ==
  \/ \E g \in Groups : Accept(g)
  \/ AcceptStop
  \/ Give
  \/ \E c \in Consumers : Handle(c)
  \/ Obey
  \/ Fail

Spec == Init /\ [][Next]_vars
=============================================================================
