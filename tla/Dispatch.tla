------------------------------ MODULE Dispatch ------------------------------
(***************************************************************************)
(* The message pipeline of include/message_queue: the POSIX queue filled   *)
(* by send_with_retry(), the dispatcher process that takes messages out of *)
(* it, and the consumer processes of every group, each joined to the       *)
(* dispatcher by a pair of pipes.                                          *)
(*                                                                         *)
(* The dispatcher writes one message to the current consumer of the        *)
(* message's group, waits in select() for an acknowledgement or five       *)
(* seconds, and moves on round-robin.  Any process may be killed, in which *)
(* case its memory is gone and the kernel closes its pipe ends: a read at  *)
(* the other end finds end of file, a write at the other end raises        *)
(* SIGPIPE, which nobody handles, and what nobody can read any more is     *)
(* discarded.                                                              *)
(***************************************************************************)
EXTENDS Naturals, Sequences, FiniteSets

CONSTANTS
  NUM_GROUPS,              (* groups of consumers, one per message category  *)
  NUM_CONSUMERS_PER_GROUP, (* consumers the dispatcher turns over in a group *)
  SentCategories,          (* the categories that producers put in messages  *)
  MQ_MAXMSG,               (* attr.mq_maxmsg: capacity of the POSIX queue     *)
  PIPE_CAPACITY,           (* Messages that fit in a pipe before write blocks *)
  MaxPosts,                (* bound: messages ever posted to the queue        *)
  OperatorMayStop,         (* may a STOP_MESSAG be posted to /test_queue?     *)
  DispatcherMayDie,        (* may the dispatcher be killed?                   *)
  ConsumersMayDie          (* may a consumer be killed?                       *)

Groups == 0 .. NUM_GROUPS - 1

ASSUME DispatchAssumption ==
  /\ NUM_GROUPS \in Nat \ {0}
  /\ NUM_CONSUMERS_PER_GROUP \in Nat \ {0}
  /\ SentCategories \subseteq Groups
  /\ MQ_MAXMSG \in Nat \ {0}
  /\ PIPE_CAPACITY \in Nat \ {0}
  /\ MaxPosts \in Nat
  /\ OperatorMayStop \in BOOLEAN
  /\ DispatcherMayDie \in BOOLEAN
  /\ ConsumersMayDie \in BOOLEAN

Consumers == Groups \X (0 .. NUM_CONSUMERS_PER_GROUP - 1)

(* A Message: its op (every file operation is one kind here), its category *)
(* and, as a ghost, its serial number in the queue.  The stop message the  *)
(* dispatcher writes to consumers bears the serial of the one it received. *)
Message == [op : {"EVENT", "STOP_MESSAG"}, category : Groups, id : Nat]

Event(g, n) == [op |-> "EVENT", category |-> g, id |-> n]
Stop(n)     == [op |-> "STOP_MESSAG", category |-> 0, id |-> n]

VARIABLES
  mq,          (* /test_queue, oldest first                                   *)
  posted,      (* number of messages posted so far                            *)
  sender,      (* the main process: "idle", or "sending" inside mq_send()     *)
  dispatcher,  (* what the dispatcher is about to do                          *)
  msg,         (* its message buffer                                          *)
  current_consumer, (* per group, the consumer whose turn it is               *)
  stopping,    (* loop indices <<i, j>> of the stop loop                      *)
  dispatcher_to_consumer,  (* per consumer, Messages in its pipe              *)
  consumer_to_dispatcher,  (* per consumer, serials of acks in its pipe       *)
  consumer,    (* per consumer, what it is about to do                        *)
  received,    (* per consumer, the last Message it read                      *)
  handled,     (* ghost: serials a consumer has passed to increment_counter() *)
  missed,      (* ghost: per consumer, acks the dispatcher gave up waiting for *)
  given        (* ghost: per consumer, serials of the events written to it    *)

queueVars      == <<mq, posted, sender>>
dispatcherVars == <<dispatcher, msg, current_consumer, stopping, missed, given>>
consumerVars   == <<consumer, received, handled>>
pipeVars       == <<dispatcher_to_consumer, consumer_to_dispatcher>>
vars == <<queueVars, dispatcherVars, consumerVars, pipeVars>>

Gone == {"exited", "killed"}

DispatcherStates ==
  {"receive", "write", "await", "writeStop", "awaitStop"} \union Gone
ConsumerStates == {"read", "count", "ack"} \union Gone

TypeOK ==
  /\ mq \in Seq(Message) /\ Len(mq) <= MQ_MAXMSG
  /\ posted \in Nat
  /\ sender \in {"idle", "sending"}
  /\ dispatcher \in DispatcherStates
  /\ msg \in Message
  /\ current_consumer \in [Groups -> 0 .. NUM_CONSUMERS_PER_GROUP - 1]
  /\ stopping \in Consumers
  /\ dispatcher_to_consumer \in [Consumers -> Seq(Message)]
  /\ consumer_to_dispatcher \in [Consumers -> Seq(Nat)]
  /\ \A c \in Consumers : Len(dispatcher_to_consumer[c]) <= PIPE_CAPACITY
  /\ \A c \in Consumers : Len(consumer_to_dispatcher[c]) <= PIPE_CAPACITY
  /\ consumer \in [Consumers -> ConsumerStates]
  /\ received \in [Consumers -> Message]
  /\ handled \in [Consumers -> Seq(Nat)]
  /\ missed \in [Consumers -> Nat]
  /\ given \in [Consumers -> Seq(Nat)]

(* After init_pipe(), init_consumer() and init_dispatcher(): every process *)
(* is up and holds exactly its own pipe ends.  The buffers are not read    *)
(* before they are filled.                                                 *)
Init ==
  /\ mq = <<>>
  /\ posted = 0
  /\ sender = "idle"
  /\ dispatcher = "receive"
  /\ msg = Event(0, 0)
  /\ current_consumer = [g \in Groups |-> 0]
  /\ stopping = <<0, 0>>
  /\ dispatcher_to_consumer = [c \in Consumers |-> <<>>]
  /\ consumer_to_dispatcher = [c \in Consumers |-> <<>>]
  /\ consumer = [c \in Consumers |-> "read"]
  /\ received = [c \in Consumers |-> Event(0, 0)]
  /\ handled = [c \in Consumers |-> <<>>]
  /\ missed = [c \in Consumers |-> 0]
  /\ given = [c \in Consumers |-> <<>>]

-----------------------------------------------------------------------------
(* The main process.                                                       *)

(* handle_event() calls producer(), which enters send_with_retry().        *)
StartSend ==
  /\ sender = "idle"
  /\ posted < MaxPosts
  /\ sender' = "sending"
  /\ UNCHANGED <<mq, posted, dispatcherVars, consumerVars, pipeVars>>

(* Mutant of Post: the queue is taken to be unbounded.                      *)
PostUnbounded(m) ==
  /\ mq' = Append(mq, m)
  /\ posted' = posted + 1

Post(m) ==
  /\ Len(mq) < MQ_MAXMSG
  /\ mq' = Append(mq, m)
  /\ posted' = posted + 1

(* get_message_queue() opens the queue without O_NONBLOCK, so mq_send()    *)
(* never reports EAGAIN: on a full queue it waits, and returns 0 when the  *)
(* message is in.                                                          *)
send_with_retry ==
  /\ sender = "sending"
  /\ \E g \in SentCategories : Post(Event(g, posted + 1))
  /\ sender' = "idle"
  /\ UNCHANGED <<dispatcherVars, consumerVars, pipeVars>>

(* No code in the program sends STOP_MESSAG to the named queue: a process  *)
(* outside it does.                                                        *)
PostStop ==
  /\ OperatorMayStop
  /\ posted < MaxPosts
  /\ Post(Stop(posted + 1))
  /\ UNCHANGED <<sender, dispatcherVars, consumerVars, pipeVars>>

-----------------------------------------------------------------------------
(* The dispatcher process.                                                 *)

(* mq_receive(): block until there is a message, then look at its op.      *)
mq_receive ==
  /\ dispatcher = "receive"
  /\ mq # <<>>
  /\ msg' = Head(mq)
  /\ mq' = Tail(mq)
  /\ dispatcher' = IF Head(mq).op = "STOP_MESSAG" THEN "writeStop" ELSE "write"
  /\ UNCHANGED <<posted, sender, current_consumer, stopping, missed, given,
                 consumerVars, pipeVars>>

(* The consumer whose pipes the dispatcher is using.                       *)
Target ==
  IF dispatcher \in {"write", "await"}
  THEN <<msg.category, current_consumer[msg.category]>>
  ELSE stopping

Writing  == dispatcher \in {"write", "writeStop"}
Awaiting == dispatcher \in {"await", "awaitStop"}

(* The stop loop's last indices, and those that follow <<i, j>>.            *)
LastStop == stopping = <<NUM_GROUPS - 1, NUM_CONSUMERS_PER_GROUP - 1>>

After(c) ==
  IF c[2] + 1 < NUM_CONSUMERS_PER_GROUP THEN <<c[1], c[2] + 1>> ELSE <<c[1] + 1, 0>>

(* Ghost: an event that is written is given to its consumer; a stop is not. *)
RecordGiven ==
  given' = IF dispatcher = "write"
           THEN [given EXCEPT ![Target] = Append(@, msg.id)] ELSE given

(* Mutants of WriteToConsumer: the dispatcher waits for no ack; the pipes   *)
(* are not blocking, and what a full pipe does not take is dropped.        *)
WriteAndGoOn ==
  /\ Writing
  /\ consumer[Target] \notin Gone
  /\ Len(dispatcher_to_consumer[Target]) < PIPE_CAPACITY
  /\ dispatcher_to_consumer' =
       [dispatcher_to_consumer EXCEPT ![Target] = Append(@, msg)]
  /\ RecordGiven
  /\ IF dispatcher = "write"
     THEN dispatcher' = "receive" /\ UNCHANGED stopping
     ELSE /\ dispatcher' = IF LastStop THEN "exited" ELSE "writeStop"
          /\ stopping' = IF LastStop THEN stopping ELSE After(stopping)
  /\ UNCHANGED <<queueVars, msg, current_consumer, missed,
                 consumerVars, consumer_to_dispatcher>>

DropWhenFull ==
  /\ Writing
  /\ consumer[Target] \notin Gone
  /\ dispatcher_to_consumer' =
       [dispatcher_to_consumer EXCEPT ![Target] =
          IF Len(@) < PIPE_CAPACITY THEN Append(@, msg) ELSE @]
  /\ RecordGiven
  /\ dispatcher' = IF dispatcher = "write" THEN "await" ELSE "awaitStop"
  /\ UNCHANGED <<queueVars, msg, current_consumer, stopping, missed,
                 consumerVars, consumer_to_dispatcher>>

(* write() to the consumer's pipe; it blocks while the pipe is full.       *)
WriteToConsumer ==
  /\ Writing
  /\ consumer[Target] \notin Gone
  /\ Len(dispatcher_to_consumer[Target]) < PIPE_CAPACITY
  /\ dispatcher_to_consumer' =
       [dispatcher_to_consumer EXCEPT ![Target] = Append(@, msg)]
  /\ RecordGiven
  /\ dispatcher' = IF dispatcher = "write" THEN "await" ELSE "awaitStop"
  /\ UNCHANGED <<queueVars, msg, current_consumer, stopping, missed,
                 consumerVars, consumer_to_dispatcher>>

(* Mutant of WriteToDeadConsumer: SIGPIPE is ignored, write() fails, its    *)
(* error is printed and the dispatcher goes on.                            *)
WriteErrorIgnored ==
  /\ Writing
  /\ consumer[Target] \in Gone
  /\ dispatcher' = IF dispatcher = "write" THEN "await" ELSE "awaitStop"
  /\ UNCHANGED <<queueVars, msg, current_consumer, stopping, missed, given,
                 consumerVars, pipeVars>>

(* write() to a consumer that is gone: SIGPIPE ends the dispatcher.        *)
WriteToDeadConsumer ==
  /\ Writing
  /\ consumer[Target] \in Gone
  /\ dispatcher' = "killed"
  /\ UNCHANGED <<queueVars, msg, current_consumer, stopping, missed, given,
                 consumerVars, pipeVars>>

(* Move on, round-robin in the group or to the stop loop's next indices.   *)
(* At the end of the stop loop the dispatcher closes its pipes and exits.  *)
NextConsumer ==
  /\ dispatcher = "await"
  /\ current_consumer' =
       [current_consumer EXCEPT ![msg.category] =
          (@ + 1) % NUM_CONSUMERS_PER_GROUP]
  /\ dispatcher' = "receive"
  /\ UNCHANGED stopping

NextStop ==
  /\ dispatcher = "awaitStop"
  /\ IF LastStop
     THEN dispatcher' = "exited" /\ UNCHANGED stopping
     ELSE dispatcher' = "writeStop" /\ stopping' = After(stopping)
  /\ UNCHANGED current_consumer

MoveOn == NextConsumer \/ NextStop

(* Mutant of ReadAck: every ack in the pipe is read at once.                *)
DrainAcks ==
  /\ Awaiting
  /\ consumer_to_dispatcher[Target] # <<>>
  /\ consumer_to_dispatcher' = [consumer_to_dispatcher EXCEPT ![Target] = <<>>]
  /\ MoveOn
  /\ UNCHANGED <<queueVars, msg, missed, given, consumerVars, dispatcher_to_consumer>>

(* select() reports the ack pipe readable and read() returns an ack: the   *)
(* oldest in the pipe, whatever message it was meant for.                  *)
ReadAck ==
  /\ Awaiting
  /\ consumer_to_dispatcher[Target] # <<>>
  /\ consumer_to_dispatcher' = [consumer_to_dispatcher EXCEPT ![Target] = Tail(@)]
  /\ MoveOn
  /\ UNCHANGED <<queueVars, msg, missed, given, consumerVars, dispatcher_to_consumer>>

(* select() reports the ack pipe readable and read() returns 0: the        *)
(* consumer is gone and no ack is left in the pipe.                        *)
ReadAckEof ==
  /\ Awaiting
  /\ consumer_to_dispatcher[Target] = <<>>
  /\ consumer[Target] \in Gone
  /\ MoveOn
  /\ UNCHANGED <<queueVars, msg, missed, given, consumerVars, pipeVars>>

TimedOut ==
  /\ Awaiting
  /\ consumer_to_dispatcher[Target] = <<>>
  /\ consumer[Target] \notin Gone
  /\ missed' = [missed EXCEPT ![Target] = @ + 1]
  /\ UNCHANGED <<queueVars, msg, given, consumerVars, pipeVars>>

(* Mutants of AckTimeout: the event is tried again at the next consumer;   *)
(* the consumer keeps its turn.                                            *)
RetryElsewhere ==
  /\ TimedOut
  /\ \/ /\ dispatcher = "await"
        /\ dispatcher' = "write"
        /\ current_consumer' =
             [current_consumer EXCEPT ![msg.category] =
                (@ + 1) % NUM_CONSUMERS_PER_GROUP]
        /\ UNCHANGED stopping
     \/ NextStop

KeepTurn ==
  /\ TimedOut
  /\ \/ /\ dispatcher = "await"
        /\ dispatcher' = "receive"
        /\ UNCHANGED <<current_consumer, stopping>>
     \/ NextStop

(* select() returns 0 after five seconds without an ack.                   *)
AckTimeout == TimedOut /\ MoveOn

DispatcherStep ==
  mq_receive \/ WriteToConsumer \/ WriteToDeadConsumer
    \/ ReadAck \/ ReadAckEof \/ AckTimeout

-----------------------------------------------------------------------------
(* A consumer process.                                                     *)

(* read() returns a Message; a stop is remembered in must_stop (here: the   *)
(* op of received), an event is to be counted.                             *)
ReadMessage(c) ==
  /\ consumer[c] = "read"
  /\ dispatcher_to_consumer[c] # <<>>
  /\ LET m == Head(dispatcher_to_consumer[c])
     IN  /\ received' = [received EXCEPT ![c] = m]
         /\ consumer' = [consumer EXCEPT ![c] =
                           IF m.op = "STOP_MESSAG" THEN "ack" ELSE "count"]
  /\ dispatcher_to_consumer' = [dispatcher_to_consumer EXCEPT ![c] = Tail(@)]
  /\ UNCHANGED <<queueVars, dispatcherVars, handled, consumer_to_dispatcher>>

(* increment_counter(): the event leaves the process for the counters.     *)
increment_counter(c) ==
  /\ consumer[c] = "count"
  /\ handled' = [handled EXCEPT ![c] = Append(@, received[c].id)]
  /\ consumer' = [consumer EXCEPT ![c] = "ack"]
  /\ UNCHANGED <<queueVars, dispatcherVars, received, pipeVars>>

(* Mutant of ReadEof: consumers keep the write ends of each other's pipes,  *)
(* so that a pipe only ends when they are all gone.                        *)
ReadEofLast(c) ==
  /\ consumer[c] = "read"
  /\ dispatcher_to_consumer[c] = <<>>
  /\ dispatcher \in Gone
  /\ \A d \in Consumers \ {c} : consumer[d] \in Gone
  /\ consumer' = [consumer EXCEPT ![c] = "exited"]
  /\ UNCHANGED <<queueVars, dispatcherVars, received, handled, pipeVars>>

(* read() returns 0: the dispatcher is gone and the pipe is drained.       *)
ReadEof(c) ==
  /\ consumer[c] = "read"
  /\ dispatcher_to_consumer[c] = <<>>
  /\ dispatcher \in Gone
  /\ consumer' = [consumer EXCEPT ![c] = "exited"]
  /\ UNCHANGED <<queueVars, dispatcherVars, received, handled, pipeVars>>

(* Mutant of SendAck: an event is acked twice.                              *)
AckTwice(c) ==
  /\ consumer[c] = "ack"
  /\ dispatcher \notin Gone
  /\ Len(consumer_to_dispatcher[c]) < PIPE_CAPACITY
  /\ consumer_to_dispatcher' =
       [consumer_to_dispatcher EXCEPT ![c] = @ \o <<received[c].id, received[c].id>>]
  /\ consumer' = [consumer EXCEPT ![c] =
                    IF received[c].op = "STOP_MESSAG" THEN "exited" ELSE "read"]
  /\ UNCHANGED <<queueVars, dispatcherVars, received, handled,
                 dispatcher_to_consumer>>

(* write() of ACK_MESSAGE, after which must_stop ends the loop.            *)
SendAck(c) ==
  /\ consumer[c] = "ack"
  /\ dispatcher \notin Gone
  /\ Len(consumer_to_dispatcher[c]) < PIPE_CAPACITY
  /\ consumer_to_dispatcher' =
       [consumer_to_dispatcher EXCEPT ![c] = Append(@, received[c].id)]
  /\ consumer' = [consumer EXCEPT ![c] =
                    IF received[c].op = "STOP_MESSAG" THEN "exited" ELSE "read"]
  /\ UNCHANGED <<queueVars, dispatcherVars, received, handled,
                 dispatcher_to_consumer>>

(* A consumer dies: what is in its pipe can be read by nobody any more.    *)
Die(c) ==
  /\ consumer' = [consumer EXCEPT ![c] = "killed"]
  /\ dispatcher_to_consumer' = [dispatcher_to_consumer EXCEPT ![c] = <<>>]
  /\ UNCHANGED <<queueVars, dispatcherVars, received, handled,
                 consumer_to_dispatcher>>

(* write() of an ack nobody can read: SIGPIPE ends the consumer.           *)
SendAckToDeadDispatcher(c) ==
  /\ consumer[c] = "ack"
  /\ dispatcher \in Gone
  /\ Die(c)

ConsumerStep(c) ==
  ReadMessage(c) \/ increment_counter(c) \/ ReadEof(c)
    \/ SendAck(c) \/ SendAckToDeadDispatcher(c)

-----------------------------------------------------------------------------
(* Deaths: a signal, the out-of-memory killer, a fault in the process.     *)

KillDispatcher ==
  /\ DispatcherMayDie
  /\ dispatcher \notin Gone
  /\ dispatcher' = "killed"
  /\ UNCHANGED <<queueVars, msg, current_consumer, stopping, missed, given,
                 consumerVars, pipeVars>>

KillConsumer(c) ==
  /\ ConsumersMayDie
  /\ consumer[c] \notin Gone
  /\ Die(c)

Next ==
  \/ StartSend
  \/ send_with_retry
  \/ PostStop
  \/ DispatcherStep
  \/ \E c \in Consumers : ConsumerStep(c)
  \/ KillDispatcher
  \/ \E c \in Consumers : KillConsumer(c)

Spec == Init /\ [][Next]_vars

(* Each process is scheduled by the kernel while it can run.  Nothing      *)
(* obliges an event to occur, an operator to stop or a process to die.     *)
FairSpec ==
  /\ Spec
  /\ WF_vars(send_with_retry)
  /\ WF_vars(DispatcherStep)
  /\ \A c \in Consumers : WF_vars(ConsumerStep(c))

-----------------------------------------------------------------------------
(* Properties.                                                             *)

Elements(s) == {s[i] : i \in DOMAIN s}
Ids(s)      == {s[i].id : i \in DOMAIN s}
Increasing(s) == \A i, j \in DOMAIN s : i < j => s[i] < s[j]

(* However consumers and dispatcher interleave, time out or die, no event  *)
(* is counted twice, by one consumer or by two, and each consumer counts   *)
(* the events it gets in the order they were sent.                         *)
HandledOnceInOrder ==
  /\ \A c \in Consumers : Increasing(handled[c])
  /\ \A c, d \in Consumers :
       c # d => Elements(handled[c]) \intersect Elements(handled[d]) = {}

(* The message a living dispatcher has taken and not passed on; a stop it  *)
(* has not wholly obeyed.                                                  *)
InHand == IF dispatcher \in {"write", "writeStop", "awaitStop"} THEN {msg.id} ELSE {}

(* What is on its way to consumer c and not yet counted.                   *)
Underway(c) ==
  Ids(dispatcher_to_consumer[c])
    \union (IF consumer[c] = "count" THEN {received[c].id} ELSE {})

(* Messages that are neither waiting, nor under way, nor counted.          *)
Lost ==
  (1 .. posted) \
    (Ids(mq) \union InHand
       \union UNION {Underway(c) \union Elements(handled[c]) : c \in Consumers})

(* Deaths do lose messages, but no more than this.  A message lost before  *)
(* it was written to a consumer is the one a killed dispatcher had taken   *)
(* last, or the stop that was obeyed.  An event lost after it was written  *)
(* was written to a consumer that was killed, as one of the last           *)
(* missed + 1 events it was given: waiting for each ack keeps all but one  *)
(* from depending on the life of the consumer, and every timeout puts one  *)
(* more at stake.  In particular no timeout loses anything by itself.      *)
LossIsBounded ==
  \A n \in Lost :
    \/ /\ n = msg.id
       /\ dispatcher = "killed" \/ msg.op = "STOP_MESSAG"
       /\ \A c \in Consumers : n \notin Elements(given[c])
    \/ \E c \in Consumers :
         /\ consumer[c] = "killed"
         /\ \E i \in DOMAIN given[c] :
              given[c][i] = n /\ Len(given[c]) - i <= missed[c]

(* Messages and acks on their way round for consumer c.                    *)
Outstanding(c) ==
  Len(dispatcher_to_consumer[c]) + (IF consumer[c] \in {"count", "ack"} THEN 1 ELSE 0)
    + Len(consumer_to_dispatcher[c])

WaitedFor(c) == IF Awaiting /\ Target = c THEN 1 ELSE 0

(* While both ends live, what is outstanding at a consumer is exactly the  *)
(* ack being waited for plus one for every ack the dispatcher ever gave up *)
(* on: select() never waits for an ack that cannot come, and an ack missed *)
(* once is owed for ever after.                                            *)
AckDebt ==
  \A c \in Consumers :
    (dispatcher \notin Gone /\ consumer[c] # "killed")
      => Outstanding(c) = missed[c] + WaitedFor(c)

(* The ack that ends the wait acknowledges the message just written, as    *)
(* long as no ack of this consumer was missed before.                      *)
AckGenuine ==
  (Awaiting /\ missed[Target] = 0 /\ consumer_to_dispatcher[Target] # <<>>)
    => Head(consumer_to_dispatcher[Target]) = msg.id

(* Events dispatched to consumer c, read by it or not.                     *)
Dispatched(c) == Len(given[c])

(* Within a group the load of the consumers differs by at most one event,  *)
(* the earlier consumer ahead, whatever times out or dies.                 *)
RoundRobinBalanced ==
  \A g \in Groups : \A j, k \in 0 .. NUM_CONSUMERS_PER_GROUP - 1 :
    j < k => /\ Dispatched(<<g, k>>) <= Dispatched(<<g, j>>)
             /\ Dispatched(<<g, j>>) <= Dispatched(<<g, k>>) + 1

(* When the dispatcher exits after a stop, no ack was missed and no        *)
(* consumer was killed, every event sent before the stop has been counted. *)
GracefulStop ==
  (/\ dispatcher = "exited"
   /\ \A c \in Consumers : missed[c] = 0 /\ consumer[c] # "killed")
    => \A n \in 1 .. msg.id - 1 :
         \E c \in Consumers : n \in Elements(handled[c])

(* Every event sent is counted, through full queues, full pipes and        *)
(* timeouts, unless the dispatcher ends or a consumer is killed.           *)
EventuallyHandled ==
  \A n \in 1 .. MaxPosts :
    (posted >= n) ~> \/ \E c \in Consumers : n \in Elements(handled[c])
                    \/ dispatcher \in Gone
                    \/ \E c \in Consumers : consumer[c] = "killed"

(* The pipes tell: once the dispatcher is gone, however it went, every     *)
(* consumer process ends.                                                  *)
ConsumersFollowDispatcher ==
  (dispatcher \in Gone) ~> \A c \in Consumers : consumer[c] \in Gone

(* message.c:265 "Failed to send message after %d retries": a send gives   *)
(* up after MAX_RETRIES attempts, so every call returns.                   *)
SendReturns == (sender = "sending") ~> (sender = "idle")

(* message.c:205 "Wait for acknowledgement of stop message": the ack that  *)
(* ends the wait of the stop loop acknowledges the stop message.           *)
StopAckIsOfStop ==
  [][ (ReadAck /\ dispatcher = "awaitStop")
        => Head(consumer_to_dispatcher[Target]) = msg.id ]_vars
=============================================================================
