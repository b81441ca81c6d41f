------------------------------- MODULE Naarad -------------------------------
(***************************************************************************)
(* The program from its start to its end, and again: the processes of      *)
(* Startup with the main loop that sends, the dispatcher and the consumers *)
(* that take, Ctrl+C, and /test_queue, which outlives every run.           *)
(*                                                                         *)
(* How the dispatcher takes turns and waits for acks is in Dispatch, the   *)
(* way of an event to the send in EventPath.  Here a message goes to any   *)
(* consumer, and the wait, which always ends, takes no step.               *)
(***************************************************************************)
EXTENDS Startup, Sequences, FiniteSets

CONSTANTS
  MQ_MAXMSG,      (* capacity of the POSIX queue                             *)
  PIPE_CAPACITY,  (* Messages that fit in a pipe                             *)
  MaxPosts,       (* bound: messages ever sent                               *)
  MaxRuns         (* bound: times the program is started                     *)

ASSUME NaaradAssumption ==
  /\ MQ_MAXMSG \in Nat \ {0} /\ PIPE_CAPACITY \in Nat \ {0}
  /\ MaxPosts \in Nat /\ MaxRuns \in Nat

VARIABLES
  mq,           (* /test_queue: serials of messages, oldest first            *)
  posted,       (* messages sent by all runs                                 *)
  sending,      (* is the main process inside mq_send()?                     *)
  stop,         (* set by sig_int()                                          *)
  interrupted,  (* has Ctrl+C been pressed in this run?                      *)
  hand,         (* the message the dispatcher has received and not written,  *)
  pipe,         (* per consumer, messages in its pipe,                       *)
  taken,        (* the message it has read and not counted: of a process     *)
                (* that is gone, what went with it                           *)
  counted,      (* per consumer, messages it counted                         *)
  unacked,      (* per consumer, is the last one counted still to be acked?  *)
  runs,         (* runs so far                                               *)
  orphans,      (* dispatchers of earlier runs that still receive            *)
  received,     (* ghost: messages this run's dispatcher has received        *)
  elsewhere     (* ghost: messages other dispatchers have received           *)

consumerVars == <<taken, counted, unacked>>
flowVars == <<hand, pipe, received, consumerVars>>
loopVars == <<posted, sending, stop>>
pastVars == <<runs, orphans, elsewhere>>
vars == <<startupVars, mq, flowVars, loopVars, interrupted, pastVars>>

Ids == Nat \ {0}

NaaradTypeOK ==
  /\ TypeOK
  /\ mq \in Seq(Ids) /\ Len(mq) <= MQ_MAXMSG
  /\ posted \in Nat
  /\ sending \in BOOLEAN /\ stop \in BOOLEAN /\ interrupted \in BOOLEAN
  /\ hand \in Seq(Ids) /\ Len(hand) <= 1
  /\ pipe \in [Consumers -> Seq(Ids)]
  /\ \A c \in Consumers : Len(pipe[c]) <= PIPE_CAPACITY
  /\ taken \in [Consumers -> Seq(Ids)]
  /\ \A c \in Consumers : Len(taken[c]) <= 1
  /\ counted \in [Consumers -> Seq(Ids)]
  /\ unacked \in [Consumers -> BOOLEAN]
  /\ runs \in Nat /\ orphans \in Nat
  /\ received \subseteq Ids /\ elsewhere \subseteq Ids

Empty == [c \in Consumers |-> <<>>]

NoneUnacked == [c \in Consumers |-> FALSE]

Init ==
  /\ StartupInit
  /\ mq = <<>> /\ posted = 0
  /\ sending = FALSE /\ stop = FALSE /\ interrupted = FALSE
  /\ hand = <<>> /\ pipe = Empty /\ received = {}
  /\ taken = Empty /\ counted = Empty /\ unacked = NoneUnacked
  /\ runs = 1 /\ orphans = 0 /\ elsewhere = {}

-----------------------------------------------------------------------------
(* The main process, started as Startup says.                              *)

Start ==
  /\ MainStarts \/ start_fails \/ \E c \in Consumers : close_others(c)
  /\ UNCHANGED <<mq, flowVars, loopVars, interrupted, pastVars>>

(* handle_event() for an event of the batch, which stop does not cut short. *)
StartSend ==
  /\ main = "loop" /\ ~ sending
  /\ posted < MaxPosts
  /\ sending' = TRUE
  /\ UNCHANGED <<startupVars, mq, flowVars, posted, stop, interrupted, pastVars>>

(* Mutant of mq_send: the queue is taken for one without a bound.           *)
SendAnyway ==
  /\ main = "loop" /\ sending
  /\ mq' = Append(mq, posted + 1)
  /\ posted' = posted + 1
  /\ sending' = FALSE
  /\ UNCHANGED <<startupVars, flowVars, stop, interrupted, pastVars>>

(* A send that is interrupted is restarted: signal() sets SA_RESTART.      *)
mq_send ==
  /\ main = "loop" /\ sending
  /\ Len(mq) < MQ_MAXMSG
  /\ mq' = Append(mq, posted + 1)
  /\ posted' = posted + 1
  /\ sending' = FALSE
  /\ UNCHANGED <<startupVars, flowVars, stop, interrupted, pastVars>>

(* Mutant of run_main_loop: only an error ends the loop.                    *)
LoopForEver == FALSE /\ UNCHANGED vars

(* stop is seen between polls; main() cleans up and returns.               *)
run_main_loop ==
  /\ main = "loop" /\ ~ sending /\ stop
  /\ MainEnds("exited")
  /\ UNCHANGED <<mq, flowVars, loopVars, interrupted, pastVars>>

(* perf_buffer__poll() reports an error: the same end, but nobody else has *)
(* been told.                                                              *)
poll_fails ==
  /\ StepsMayFail
  /\ main = "loop" /\ ~ sending
  /\ MainEnds("exited")
  /\ UNCHANGED <<mq, flowVars, loopVars, interrupted, pastVars>>

-----------------------------------------------------------------------------
(* The dispatcher and the consumers.                                       *)

(* Mutant of mq_receive: the dispatcher waits for a full queue.             *)
ReceiveWhenFull ==
  /\ dispatcher = "running" /\ hand = <<>>
  /\ Len(mq) = MQ_MAXMSG
  /\ hand' = <<Head(mq)>>
  /\ received' = received \union {Head(mq)}
  /\ mq' = Tail(mq)
  /\ UNCHANGED <<startupVars, pipe, consumerVars, loopVars, interrupted, pastVars>>

mq_receive ==
  /\ dispatcher = "running" /\ hand = <<>>
  /\ mq # <<>>
  /\ hand' = <<Head(mq)>>
  /\ received' = received \union {Head(mq)}
  /\ mq' = Tail(mq)
  /\ UNCHANGED <<startupVars, pipe, consumerVars, loopVars, interrupted, pastVars>>

(* write() to the consumer whose turn it is; SIGPIPE when nobody has the   *)
(* other end any more, and as long as a sibling of a dead consumer still   *)
(* has it, a message nobody will read.                                     *)
WriteToConsumer(c) ==
  /\ dispatcher = "running" /\ hand # <<>>
  /\ IF Open(MsgRead(c))
     THEN /\ Len(pipe[c]) < PIPE_CAPACITY
          /\ pipe' = [pipe EXCEPT ![c] = Append(@, Head(hand))]
          /\ hand' = <<>>
          /\ UNCHANGED startupVars
     ELSE DispatcherEnds("killed") /\ UNCHANGED <<pipe, hand>>
  /\ UNCHANGED <<mq, received, consumerVars, loopVars, interrupted, pastVars>>

(* The consumer is in read(): it has nothing to count or to ack.           *)
Reading(c) == consumer[c] = "read" /\ taken[c] = <<>> /\ ~ unacked[c]

ReadMessage(c) ==
  /\ Reading(c) /\ pipe[c] # <<>>
  /\ taken' = [taken EXCEPT ![c] = <<Head(pipe[c])>>]
  /\ pipe' = [pipe EXCEPT ![c] = Tail(@)]
  /\ UNCHANGED <<startupVars, mq, hand, received, counted, unacked, loopVars,
                 interrupted, pastVars>>

(* In the consumer's own copy of the counters.                             *)
increment_counter(c) ==
  /\ consumer[c] = "read" /\ taken[c] # <<>>
  /\ counted' = [counted EXCEPT ![c] = Append(@, Head(taken[c]))]
  /\ taken' = [taken EXCEPT ![c] = <<>>]
  /\ unacked' = [unacked EXCEPT ![c] = TRUE]
  /\ UNCHANGED <<startupVars, mq, hand, pipe, received, loopVars, interrupted,
                 pastVars>>

(* write() of the ack, SIGPIPE when nobody can read it.                    *)
SendAck(c) ==
  /\ consumer[c] = "read" /\ unacked[c]
  /\ unacked' = [unacked EXCEPT ![c] = FALSE]
  /\ IF Open(AckRead(c)) THEN UNCHANGED startupVars ELSE ConsumerEnds(c, "killed")
  /\ UNCHANGED <<mq, hand, pipe, received, taken, counted, loopVars, interrupted,
                 pastVars>>

(* Mutant of ReadEof: the end of the writers is taken for the end of what   *)
(* they wrote.                                                             *)
EofUndrained(c) ==
  /\ Reading(c)
  /\ ~ Open(MsgWrite(c))
  /\ ConsumerEnds(c, "exited")
  /\ UNCHANGED <<mq, flowVars, loopVars, interrupted, pastVars>>

ReadEof(c) ==
  /\ Reading(c) /\ pipe[c] = <<>>
  /\ ~ Open(MsgWrite(c))
  /\ ConsumerEnds(c, "exited")
  /\ UNCHANGED <<mq, flowVars, loopVars, interrupted, pastVars>>

-----------------------------------------------------------------------------
(* Ctrl+C, and the next run.                                               *)

(* SIGINT goes to every process of the foreground group.  The handler, set *)
(* at the end of setup, is the main process's alone: before that it is     *)
(* killed like the others.                                                 *)
sig_int ==
  /\ main \notin Gone /\ ~ interrupted
  /\ interrupted' = TRUE
  /\ IF main = "loop" THEN stop' = TRUE /\ UNCHANGED startupVars
                      ELSE MainEnds("killed") /\ UNCHANGED stop
  /\ UNCHANGED <<mq, flowVars, posted, sending, pastVars>>

(* Mutant of DieOfSignal: the dispatcher has a process group of its own.    *)
ConsumersDie ==
  /\ interrupted
  /\ \E c \in Consumers : ConsumerEnds(c, "killed")
  /\ UNCHANGED <<mq, flowVars, loopVars, interrupted, pastVars>>

DieOfSignal ==
  /\ interrupted
  /\ DispatcherEnds("killed") \/ \E c \in Consumers : ConsumerEnds(c, "killed")
  /\ UNCHANGED <<mq, flowVars, loopVars, interrupted, pastVars>>

(* A dispatcher of an earlier run receives from the same queue.            *)
OrphanReceive ==
  /\ orphans > 0 /\ mq # <<>>
  /\ elsewhere' = elsewhere \union {Head(mq)}
  /\ mq' = Tail(mq)
  /\ UNCHANGED <<startupVars, flowVars, loopVars, interrupted, runs, orphans>>

InQueue(n) == \E i \in DOMAIN mq : mq[i] = n
ChildrenGone ==
  dispatcher # "running" /\ \A c \in Consumers : consumer[c] \in {"unborn"} \union Gone

(* Mutant of Restart: the queue is made anew.                               *)
RestartEmpty ==
  /\ runs < MaxRuns
  /\ interrupted => ChildrenGone
  /\ StartAgain
  /\ runs' = runs + 1
  /\ orphans' = IF dispatcher = "running" THEN orphans + 1 ELSE orphans
  /\ elsewhere' = elsewhere \union received
  /\ mq' = <<>>
  /\ hand' = <<>> /\ pipe' = Empty /\ received' = {}
  /\ taken' = Empty /\ counted' = Empty /\ unacked' = NoneUnacked
  /\ sending' = FALSE /\ stop' = FALSE /\ interrupted' = FALSE
  /\ UNCHANGED posted

(* The program is started again by hand, after the signalled processes of  *)
(* the run before are gone.  mq_open() finds the old queue as it was left; *)
(* everything else is new.                                                 *)
Restart ==
  /\ runs < MaxRuns
  /\ interrupted => ChildrenGone
  /\ StartAgain
  /\ runs' = runs + 1
  /\ orphans' = IF dispatcher = "running" THEN orphans + 1 ELSE orphans
  /\ elsewhere' = elsewhere \union received
  /\ hand' = <<>> /\ pipe' = Empty /\ received' = {}
  /\ taken' = Empty /\ counted' = Empty /\ unacked' = NoneUnacked
  /\ sending' = FALSE /\ stop' = FALSE /\ interrupted' = FALSE
  /\ UNCHANGED <<mq, posted>>

DispatcherStep == mq_receive \/ \E c \in Consumers : WriteToConsumer(c)
ConsumerStep(c) ==
  ReadMessage(c) \/ increment_counter(c) \/ SendAck(c) \/ ReadEof(c)

Next ==
  \/ Start
  \/ StartSend \/ mq_send \/ run_main_loop \/ poll_fails
  \/ DispatcherStep
  \/ \E c \in Consumers : ConsumerStep(c)
  \/ sig_int \/ DieOfSignal
  \/ OrphanReceive
  \/ Restart

Spec == Init /\ [][Next]_vars

(* Every process runs while it can, and a pending signal is delivered.     *)
(* Events, failures, Ctrl+C and the next run need never come.              *)
FairSpec ==
  /\ Spec
  /\ WF_vars(Start) /\ WF_vars(mq_send) /\ WF_vars(run_main_loop)
  /\ WF_vars(DispatcherStep)
  /\ \A c \in Consumers : WF_vars(ConsumerStep(c))
  /\ WF_vars(DieOfSignal)

-----------------------------------------------------------------------------
(* Properties.                                                             *)

Elements(s) == {s[i] : i \in DOMAIN s}

(* What this run's living processes have and will yet count.              *)
OnItsWay ==
  (IF dispatcher = "running" THEN Elements(hand) ELSE {})
    \union UNION {Elements(pipe[c]) \union Elements(taken[c]) :
                    c \in {d \in Consumers : consumer[d] \notin Gone}}

Lost == received \ (OnItsWay \union UNION {Elements(counted[c]) : c \in Consumers})

(* Messages stay in the queue until a dispatcher receives them, whichever  *)
(* process ends and however often the program is started again.  After     *)
(* that a message is lost only with a process that was killed before it    *)
(* had done its part: the one in the dispatcher's hand, or what a consumer *)
(* had in its pipe or had read and not counted.  The end of main(), end of *)
(* file and the exits it causes lose nothing.                              *)
LossNeedsDeath ==
  /\ 1 .. posted \subseteq Elements(mq) \union received \union elsewhere
  /\ \A n \in Lost :
       \/ dispatcher = "killed" /\ n \in Elements(hand)
       \/ \E c \in Consumers :
            consumer[c] = "killed" /\ n \in Elements(pipe[c]) \union Elements(taken[c])

(* Ctrl+C leaves no dispatcher and no consumer, at whatever point of the   *)
(* start it comes.                                                         *)
CtrlCEndsChildren == interrupted ~> ChildrenGone

(* It ends the main process as well (file_monitor.c:104 "Ctrl+C to exit."), *)
(* but for one case: the process stays in a send to a queue that is full   *)
(* when the dispatcher dies first.                                         *)
CtrlCEndsMain ==
  interrupted ~> \/ main \in Gone
                 \/ sending /\ Len(mq) = MQ_MAXMSG /\ dispatcher # "running"

(* When main() gives up before it has forked a dispatcher, or the          *)
(* dispatcher dies, the consumers are not left behind.                     *)
ConsumersNotLeftBehind ==
  (main \in Gone /\ dispatcher # "running") ~> ChildrenGone

(* What is in the queue, from this run or an earlier one, is received if a *)
(* dispatcher lives.                                                       *)
QueueServed ==
  \A n \in 1 .. MaxPosts : InQueue(n) ~> (~ InQueue(n) \/ dispatcher # "running")
=============================================================================
