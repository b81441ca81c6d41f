-------------------------- MODULE DispatchDelivers --------------------------
(***************************************************************************)
(* The message pipeline implements Delivery.                               *)
(***************************************************************************)
EXTENDS Dispatch

(* An event waits while it is in the queue or in the dispatcher's hand; it *)
(* is given when it is written to a pipe.  A stop is obeyed when the       *)
(* dispatcher receives it.                                                 *)
Waiting == (IF dispatcher = "write" THEN <<msg>> ELSE <<>>) \o mq
Open    == dispatcher \in {"receive", "write", "await"}

D == INSTANCE Delivery WITH
       serial <- posted, waiting <- Waiting, open <- Open

(* Every step of the queue, the dispatcher, the pipes and the consumers is *)
(* a step of Delivery or changes nothing Delivery can see.                 *)
DeliversInTurn == D!Spec
=============================================================================
