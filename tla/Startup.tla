------------------------------ MODULE Startup -------------------------------
(***************************************************************************)
(* The processes of one run of the program and who holds which pipe end:   *)
(* main() of src/file_monitor.c with init_pipe(), init_consumer() and      *)
(* init_dispatcher() of include/message_queue/message.c.                   *)
(*                                                                         *)
(* A child inherits every end its parent holds when it is forked, and a    *)
(* read meets end of file, or a write SIGPIPE, only when the last copy of  *)
(* the other end is closed.  Dispatch begins where this module ends, and   *)
(* takes that for granted: PipesWired is what entitles it to.              *)
(***************************************************************************)
EXTENDS Naturals

CONSTANTS
  NUM_CONSUMERS,  (* consumers of all groups, in the order they are forked   *)
  StepsMayFail    (* may pipe(), fork(), or a later step of main() fail?     *)

ASSUME StartupAssumption == NUM_CONSUMERS \in Nat \ {0} /\ StepsMayFail \in BOOLEAN

Consumers == 0 .. NUM_CONSUMERS - 1

(* The ends of the two pipes of each consumer: [0] to read, [1] to write.  *)
MsgRead(c)  == <<"dispatcher_to_consumer", c, 0>>
MsgWrite(c) == <<"dispatcher_to_consumer", c, 1>>
AckRead(c)  == <<"consumer_to_dispatcher", c, 0>>
AckWrite(c) == <<"consumer_to_dispatcher", c, 1>>
EndsOf(c)   == {MsgRead(c), MsgWrite(c), AckRead(c), AckWrite(c)}
Ends        == UNION {EndsOf(c) : c \in Consumers}

VARIABLES
  main,             (* the function main() is in                             *)
  next,             (* the consumer its loop is at                           *)
  main_ends,        (* pipe ends the main process holds,                     *)
  dispatcher,       (* the dispatcher process                                *)
  dispatcher_ends,  (* and the ends it holds,                                *)
  consumer,         (* per consumer, its process                             *)
  ends              (* and the ends it holds                                 *)

mainVars     == <<main, next, main_ends>>
childVars    == <<dispatcher, dispatcher_ends, consumer, ends>>
startupVars  == <<mainVars, childVars>>

Gone == {"exited", "killed"}

TypeOK ==
  /\ main \in {"init_pipe", "init_consumer", "init_dispatcher", "close", "setup",
               "loop"} \union Gone
  /\ next \in Consumers
  /\ main_ends \subseteq Ends
  /\ dispatcher \in {"unborn", "running"} \union Gone
  /\ dispatcher_ends \subseteq Ends
  /\ consumer \in [Consumers -> {"unborn", "closing", "read"} \union Gone]
  /\ ends \in [Consumers -> SUBSET Ends]

StartupInit ==
  /\ main = "init_pipe" /\ next = 0 /\ main_ends = {}
  /\ dispatcher = "unborn" /\ dispatcher_ends = {}
  /\ consumer = [c \in Consumers |-> "unborn"]
  /\ ends = [c \in Consumers |-> {}]

(* Some process holds the end e.                                           *)
Open(e) ==
  e \in main_ends \union dispatcher_ends \union UNION {ends[c] : c \in Consumers}

-----------------------------------------------------------------------------
(* The main process.                                                       *)

(* The loops over groups and consumers, and the function that comes after. *)
Advance(after) ==
  IF next + 1 < NUM_CONSUMERS THEN next' = next + 1 /\ UNCHANGED main
                              ELSE next' = 0 /\ main' = after

init_pipe ==
  /\ main = "init_pipe"
  /\ main_ends' = main_ends \union EndsOf(next)
  /\ Advance("init_consumer")
  /\ UNCHANGED childVars

(* Mutant of init_consumer: the parent closes the ends the child keeps the  *)
(* other side of.                                                          *)
ParentClosesWrite ==
  /\ main = "init_consumer"
  /\ consumer' = [consumer EXCEPT ![next] = "closing"]
  /\ ends' = [ends EXCEPT ![next] = main_ends]
  /\ main_ends' = main_ends \ {MsgWrite(next), AckRead(next)}
  /\ Advance("init_dispatcher")
  /\ UNCHANGED <<dispatcher, dispatcher_ends>>

(* Fork the consumer; the parent closes the ends that are the child's.  As *)
(* long as there is no dispatcher nobody can tell the two apart.           *)
init_consumer ==
  /\ main = "init_consumer"
  /\ consumer' = [consumer EXCEPT ![next] = "closing"]
  /\ ends' = [ends EXCEPT ![next] = main_ends]
  /\ main_ends' = main_ends \ {MsgRead(next), AckWrite(next)}
  /\ Advance("init_dispatcher")
  /\ UNCHANGED <<dispatcher, dispatcher_ends>>

init_dispatcher ==
  /\ main = "init_dispatcher"
  /\ dispatcher' = "running"
  /\ dispatcher_ends' = main_ends
  /\ main' = "close"
  /\ UNCHANGED <<next, main_ends, consumer, ends>>

(* "Close all pipes in the parent process"                                 *)
close_pipes ==
  /\ main = "close"
  /\ main_ends' = {}
  /\ main' = "setup"
  /\ UNCHANGED <<next, childVars>>

(* Logging, the BPF program, the perf buffer, and at last signal() and the *)
(* TUI thread.                                                             *)
setup ==
  /\ main = "setup"
  /\ main' = "loop"
  /\ UNCHANGED <<next, main_ends, childVars>>

MainStarts == init_pipe \/ init_consumer \/ init_dispatcher \/ close_pipes \/ setup

(* The process ends, and the kernel closes what it held.  Nobody is told.  *)
MainEnds(how) ==
  /\ main \notin Gone
  /\ main' = how
  /\ main_ends' = {}
  /\ UNCHANGED <<next, childVars>>

start_fails ==
  /\ StepsMayFail
  /\ main \in {"init_pipe", "init_consumer", "init_dispatcher", "setup"}
  /\ MainEnds("exited")

-----------------------------------------------------------------------------
(* Its children.                                                           *)

(* Mutants of close_others: the child closes its own two other ends only;  *)
(* or those of the other consumers only.                                   *)
CloseOwnOnly(c) ==
  /\ consumer[c] = "closing"
  /\ ends' = [ends EXCEPT ![c] = @ \ {MsgWrite(c), AckRead(c)}]
  /\ consumer' = [consumer EXCEPT ![c] = "read"]
  /\ UNCHANGED <<mainVars, dispatcher, dispatcher_ends>>

CloseOthersOnly(c) ==
  /\ consumer[c] = "closing"
  /\ ends' = [ends EXCEPT ![c] = @ \intersect EndsOf(c)]
  /\ consumer' = [consumer EXCEPT ![c] = "read"]
  /\ UNCHANGED <<mainVars, dispatcher, dispatcher_ends>>

(* A consumer keeps the two ends it will use and closes all others.        *)
close_others(c) ==
  /\ consumer[c] = "closing"
  /\ ends' = [ends EXCEPT ![c] = @ \intersect {MsgRead(c), AckWrite(c)}]
  /\ consumer' = [consumer EXCEPT ![c] = "read"]
  /\ UNCHANGED <<mainVars, dispatcher, dispatcher_ends>>

DispatcherEnds(how) ==
  /\ dispatcher = "running"
  /\ dispatcher' = how
  /\ dispatcher_ends' = {}
  /\ UNCHANGED <<mainVars, consumer, ends>>

ConsumerEnds(c, how) ==
  /\ consumer[c] \in {"closing", "read"}
  /\ consumer' = [consumer EXCEPT ![c] = how]
  /\ ends' = [ends EXCEPT ![c] = {}]
  /\ UNCHANGED <<mainVars, dispatcher, dispatcher_ends>>

(* The program is started again, with pipes and processes of its own; what *)
(* becomes of children that outlive their run is not told here.            *)
StartAgain ==
  /\ main \in Gone
  /\ main' = "init_pipe" /\ next' = 0 /\ main_ends' = {}
  /\ dispatcher' = "unborn" /\ dispatcher_ends' = {}
  /\ consumer' = [c \in Consumers |-> "unborn"]
  /\ ends' = [c \in Consumers |-> {}]

StartupNext ==
  \/ MainStarts
  \/ \E how \in Gone : MainEnds(how) \/ DispatcherEnds(how)
  \/ \E c \in Consumers :
       close_others(c) \/ \E how \in Gone : ConsumerEnds(c, how)
  \/ StartAgain

StartupSpec == StartupInit /\ [][StartupNext]_startupVars

-----------------------------------------------------------------------------
(* Properties.                                                             *)

(* No consumer meets end of file, or SIGPIPE at an ack, as long as the     *)
(* dispatcher runs or is still to be forked, whichever processes have      *)
(* already closed what they do not need.                                   *)
NoEarlyEof ==
  \A c \in Consumers :
    consumer[c] # "unborn"
      /\ (dispatcher = "running" \/ main \in {"init_consumer", "init_dispatcher"})
    => Open(MsgWrite(c)) /\ Open(AckRead(c))

(* Once main() has closed its pipes and every child those it does not use, *)
(* the ends tell the truth: they are open exactly while the process that   *)
(* uses them lives, whoever else has died, and when.                       *)
PipesWired ==
  main \in {"setup", "loop"} \union Gone
    /\ (\A c \in Consumers : consumer[c] # "closing")
  => \A c \in Consumers :
       /\ Open(MsgWrite(c)) <=> dispatcher = "running"
       /\ Open(AckRead(c)) <=> dispatcher = "running"
       /\ Open(MsgRead(c)) <=> consumer[c] = "read"
       /\ Open(AckWrite(c)) <=> consumer[c] = "read"
=============================================================================
