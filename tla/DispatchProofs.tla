--------------------------- MODULE DispatchProofs ---------------------------
(***************************************************************************)
(* Proofs about the message pipeline, for any number of groups and of      *)
(* consumers, any capacities and any number of messages.                   *)
(***************************************************************************)
EXTENDS Dispatch, TLAPS

USE DispatchAssumption DEF Die

LEMMA TargetIsConsumer == ASSUME TypeOK PROVE Target \in Consumers
  BY DEF TypeOK, Target, Consumers, Message

LEMMA MessagesAreTyped ==
  /\ \A g \in Groups, n \in Nat : Event(g, n) \in Message
  /\ \A n \in Nat : Stop(n) \in Message
  BY DEF Event, Stop, Message, Groups

(* What taking the first element off a nonempty sequence gives.            *)
LEMMA HeadAndTail ==
  ASSUME NEW S, NEW s \in Seq(S), s # <<>>
  PROVE  /\ Head(s) \in S /\ Head(s) = s[1]
         /\ Tail(s) \in Seq(S) /\ Len(Tail(s)) = Len(s) - 1
         /\ Len(s) \in Nat \ {0}
         /\ \A i \in 1 .. Len(s) - 1 : Tail(s)[i] = s[i + 1]
  OBVIOUS

(* What adding an element at the end of a sequence gives.                  *)
LEMMA AppendLast ==
  ASSUME NEW S, NEW s \in Seq(S), NEW e \in S
  PROVE  /\ Append(s, e) \in Seq(S) /\ Len(Append(s, e)) = Len(s) + 1
         /\ Len(s) \in Nat
         /\ \A i \in 1 .. Len(s) : Append(s, e)[i] = s[i]
         /\ Append(s, e)[Len(s) + 1] = e
  OBVIOUS

(* The variables MoveOn writes keep their types.                           *)
LEMMA MoveOnTyped ==
  ASSUME TypeOK, MoveOn
  PROVE  /\ dispatcher' \in DispatcherStates
         /\ current_consumer' \in [Groups -> 0 .. NUM_CONSUMERS_PER_GROUP - 1]
         /\ stopping' \in Consumers
  <1>1. CASE NextConsumer
    <2>1. (current_consumer[msg.category] + 1) % NUM_CONSUMERS_PER_GROUP
            \in 0 .. NUM_CONSUMERS_PER_GROUP - 1
      BY SMTT(30) DEF TypeOK, Message
    <2>2. QED BY <1>1, <2>1 DEF NextConsumer, TypeOK, DispatcherStates
  <1>2. CASE NextStop
    <2>1. PICK i \in Groups, j \in 0 .. NUM_CONSUMERS_PER_GROUP - 1 :
            stopping = <<i, j>>
      BY DEF TypeOK, Consumers
    <2>2. stopping[1] = i /\ stopping[2] = j
      BY <2>1
    <2>3. CASE LastStop
      BY <1>2, <2>3 DEF NextStop, TypeOK, DispatcherStates, Gone
    <2>4. CASE ~ LastStop /\ j + 1 < NUM_CONSUMERS_PER_GROUP
      <3>1. stopping' = <<i, j + 1>>
        BY <1>2, <2>2, <2>4 DEF NextStop, After
      <3>2. j + 1 \in 0 .. NUM_CONSUMERS_PER_GROUP - 1
        BY <2>4
      <3>3. QED
        BY <1>2, <2>4, <3>1, <3>2 DEF NextStop, TypeOK, Consumers, DispatcherStates
    <2>5. CASE ~ LastStop /\ ~ (j + 1 < NUM_CONSUMERS_PER_GROUP)
      <3>1. stopping' = <<i + 1, 0>>
        BY <1>2, <2>2, <2>5 DEF NextStop, After
      <3>2. j = NUM_CONSUMERS_PER_GROUP - 1
        BY <2>5
      <3>3. i # NUM_GROUPS - 1
        BY <2>1, <2>5, <3>2 DEF LastStop
      <3>4. i + 1 \in Groups /\ 0 \in 0 .. NUM_CONSUMERS_PER_GROUP - 1
        BY <3>3 DEF Groups
      <3>5. QED
        BY <1>2, <2>5, <3>1, <3>4 DEF NextStop, TypeOK, Consumers, DispatcherStates
    <2>6. QED BY <2>3, <2>4, <2>5
  <1>3. QED BY <1>1, <1>2 DEF MoveOn

(* Every variable always has its type; in particular no queue or pipe ever *)
(* holds more than its capacity and current_consumer and the indices of    *)
(* the stop loop stay within the arrays of pipes.                          *)
THEOREM TypeCorrect == Spec => []TypeOK
  <1>1. Init => TypeOK
    BY DEF Init, TypeOK, Message, Event, Groups, Consumers, ConsumerStates,
           DispatcherStates
  <1>2. TypeOK /\ [Next]_vars => TypeOK'
    <2> SUFFICES ASSUME TypeOK, [Next]_vars PROVE TypeOK'
      OBVIOUS
    <2> USE DEF queueVars, dispatcherVars, consumerVars, pipeVars
    <2>1. CASE StartSend
      BY <2>1 DEF StartSend, TypeOK
    <2>2. CASE send_with_retry
      BY <2>2, MessagesAreTyped, SMTT(30) DEF send_with_retry, Post, TypeOK
    <2>3. CASE PostStop
      BY <2>3, MessagesAreTyped DEF PostStop, Post, TypeOK
    <2>4. CASE mq_receive
      BY <2>4, SMTT(30) DEF mq_receive, TypeOK, DispatcherStates
    <2>5. CASE WriteToConsumer
      <3>1. PICK t \in Consumers : t = Target
        BY TargetIsConsumer
      <3>2. given' \in [Consumers -> Seq(Nat)]
        <4>1. msg.id \in Nat
          BY DEF TypeOK, Message
        <4>2. Append(given[t], msg.id) \in Seq(Nat)
          BY <4>1 DEF TypeOK
        <4>3. given' = [given EXCEPT ![t] = Append(given[t], msg.id)] \/ given' = given
          BY <2>5, <3>1 DEF WriteToConsumer, RecordGiven
        <4>4. QED BY <4>2, <4>3 DEF TypeOK
      <3>3. /\ dispatcher_to_consumer' \in [Consumers -> Seq(Message)]
            /\ \A c \in Consumers : Len(dispatcher_to_consumer'[c]) <= PIPE_CAPACITY
        <4>1. /\ Append(dispatcher_to_consumer[t], msg) \in Seq(Message)
              /\ Len(Append(dispatcher_to_consumer[t], msg)) <= PIPE_CAPACITY
          BY <2>5, <3>1, AppendLast DEF WriteToConsumer, TypeOK
        <4>2. dispatcher_to_consumer' =
                [dispatcher_to_consumer EXCEPT ![t] = Append(dispatcher_to_consumer[t], msg)]
          BY <2>5, <3>1 DEF WriteToConsumer, TypeOK
        <4>3. QED BY <4>1, <4>2 DEF TypeOK
      <3>4. dispatcher' \in DispatcherStates
        BY <2>5 DEF WriteToConsumer, DispatcherStates
      <3>5. QED BY <2>5, <3>2, <3>3, <3>4 DEF WriteToConsumer, TypeOK
    <2>6. CASE WriteToDeadConsumer
      BY <2>6 DEF WriteToDeadConsumer, TypeOK, DispatcherStates, Gone
    <2>7. CASE ReadAck
      <3>1. PICK t \in Consumers : t = Target
        BY TargetIsConsumer
      <3>2. consumer_to_dispatcher[t] \in Seq(Nat) /\ consumer_to_dispatcher[t] # <<>>
        BY <2>7, <3>1 DEF ReadAck, TypeOK
      <3>3. /\ Tail(consumer_to_dispatcher[t]) \in Seq(Nat)
            /\ Len(Tail(consumer_to_dispatcher[t])) <= PIPE_CAPACITY
        BY <3>2, HeadAndTail DEF TypeOK
      <3>4. QED BY <2>7, <3>1, <3>3, MoveOnTyped DEF ReadAck, TypeOK
    <2>8. CASE ReadAckEof
      BY <2>8, MoveOnTyped DEF ReadAckEof, TypeOK
    <2>9. CASE AckTimeout
      <3>1. PICK t \in Consumers : t = Target
        BY TargetIsConsumer
      <3>2. missed' \in [Consumers -> Nat]
        BY <2>9, <3>1 DEF AckTimeout, TimedOut, TypeOK
      <3>3. QED BY <2>9, <3>2, MoveOnTyped DEF AckTimeout, TimedOut, TypeOK
    <2>10. ASSUME NEW c \in Consumers, ReadMessage(c) PROVE TypeOK'
      <3>1. PICK m : m = Head(dispatcher_to_consumer[c])
        OBVIOUS
      <3>2. dispatcher_to_consumer[c] \in Seq(Message) /\ dispatcher_to_consumer[c] # <<>>
        BY <2>10 DEF ReadMessage, TypeOK
      <3>3. /\ m \in Message
            /\ Tail(dispatcher_to_consumer[c]) \in Seq(Message)
            /\ Len(Tail(dispatcher_to_consumer[c])) <= PIPE_CAPACITY
        <4>1. /\ m \in Message
              /\ Tail(dispatcher_to_consumer[c]) \in Seq(Message)
              /\ Len(Tail(dispatcher_to_consumer[c]))
                   = Len(dispatcher_to_consumer[c]) - 1
              /\ Len(dispatcher_to_consumer[c]) \in Nat
          BY <3>1, <3>2, HeadAndTail
        <4>2. Len(dispatcher_to_consumer[c]) <= PIPE_CAPACITY
          BY DEF TypeOK
        <4>3. QED BY <4>1, <4>2
      <3>4. /\ received' \in [Consumers -> Message]
            /\ dispatcher_to_consumer' \in [Consumers -> Seq(Message)]
            /\ \A d \in Consumers : Len(dispatcher_to_consumer'[d]) <= PIPE_CAPACITY
        BY <2>10, <3>1, <3>3 DEF ReadMessage, TypeOK
      <3>5. consumer' \in [Consumers -> ConsumerStates]
        BY <2>10 DEF ReadMessage, TypeOK, ConsumerStates
      <3>6. QED BY <2>10, <3>4, <3>5 DEF ReadMessage, TypeOK
    <2>10a. ASSUME NEW c \in Consumers, increment_counter(c) PROVE TypeOK'
      <3>1. received[c].id \in Nat
        BY DEF TypeOK, Message
      <3>2. handled' \in [Consumers -> Seq(Nat)]
        <4>1. Append(handled[c], received[c].id) \in Seq(Nat)
          BY <3>1 DEF TypeOK
        <4>2. handled' = [handled EXCEPT ![c] = Append(handled[c], received[c].id)]
          BY <2>10a DEF increment_counter, TypeOK
        <4>3. QED BY <4>1, <4>2 DEF TypeOK
      <3>3. consumer' \in [Consumers -> ConsumerStates]
        BY <2>10a DEF increment_counter, TypeOK, ConsumerStates
      <3>4. QED BY <2>10a, <3>2, <3>3 DEF increment_counter, TypeOK
    <2>11. ASSUME NEW c \in Consumers, ReadEof(c) PROVE TypeOK'
      BY <2>11 DEF ReadEof, TypeOK, ConsumerStates, Gone
    <2>12. ASSUME NEW c \in Consumers, SendAck(c) PROVE TypeOK'
      <3>1. received[c].id \in Nat
        BY DEF TypeOK, Message
      <3>2. QED BY <2>12, <3>1, SMTT(30) DEF SendAck, TypeOK, ConsumerStates, Gone
    <2>13. ASSUME NEW c \in Consumers, SendAckToDeadDispatcher(c) PROVE TypeOK'
      BY <2>13, SMTT(30) DEF SendAckToDeadDispatcher, TypeOK, ConsumerStates, Gone
    <2>14. CASE KillDispatcher
      BY <2>14 DEF KillDispatcher, TypeOK, DispatcherStates, Gone
    <2>15. ASSUME NEW c \in Consumers, KillConsumer(c) PROVE TypeOK'
      BY <2>15 DEF KillConsumer, TypeOK, ConsumerStates, Gone
    <2>16. CASE UNCHANGED vars
      BY <2>16 DEF vars, TypeOK
    <2>17. QED
      BY <2>1, <2>2, <2>3, <2>4, <2>5, <2>6, <2>7, <2>8, <2>9, <2>10, <2>10a, <2>11,
         <2>12, <2>13, <2>14, <2>15, <2>16
      DEF Next, DispatcherStep, ConsumerStep
  <1>3. QED BY <1>1, <1>2, PTL DEF Spec

-----------------------------------------------------------------------------
(* Acknowledgements: what is outstanding at a consumer is what is waited   *)
(* for and what was given up on, and an ack that ends a wait at a consumer *)
(* that never made the dispatcher give up acknowledges the message just    *)
(* written.                                                                *)

pipe(c) == dispatcher_to_consumer[c]
acks(c) == consumer_to_dispatcher[c]

(* The order in which the stop loop goes through the consumers.            *)
Earlier(c, d) == c[1] < d[1] \/ (c[1] = d[1] /\ c[2] < d[2])

(* Consumers to which no stop message has been written yet.                *)
StopDue(c) ==
  \/ dispatcher \in {"receive", "write", "await"}
  \/ dispatcher = "writeStop" /\ ~ Earlier(c, stopping)
  \/ dispatcher = "awaitStop" /\ Earlier(stopping, c)

MsgKind ==
  /\ dispatcher \in {"write", "await"} => msg.op = "EVENT"
  /\ dispatcher \in {"writeStop", "awaitStop"} => msg.op = "STOP_MESSAG"

(* A stop message is the last thing ever written to a consumer, so one     *)
(* that stops leaves nothing unread.                                       *)
StopOk(c) ==
  /\ StopDue(c) => /\ consumer[c] # "exited"
                   /\ received[c].op = "EVENT"
                   /\ \A i \in 1 .. Len(pipe(c)) : pipe(c)[i].op = "EVENT"
  /\ dispatcher \notin Gone =>
       /\ \A i \in 1 .. Len(pipe(c)) - 1 : pipe(c)[i].op = "EVENT"
       /\ consumer[c] = "exited" \/ received[c].op = "STOP_MESSAG"
            => pipe(c) = <<>>

StopInv == MsgKind /\ \A c \in Consumers : StopOk(c)

(* The newest message on its way round for c is the one in msg.            *)
NewestIsMsg(c) ==
  /\ pipe(c) # <<>> => pipe(c)[Len(pipe(c))].id = msg.id
  /\ pipe(c) = <<>> /\ consumer[c] \in {"count", "ack"} => received[c].id = msg.id
  /\ pipe(c) = <<>> /\ consumer[c] \notin {"count", "ack"} /\ acks(c) # <<>>
       => acks(c)[Len(acks(c))] = msg.id

AckOk(c) ==
  /\ dispatcher \notin Gone /\ consumer[c] # "killed"
       => Outstanding(c) = missed[c] + WaitedFor(c)
  /\ Awaiting /\ Target = c =>
       /\ Outstanding(c) <= missed[c] + 1
       /\ Outstanding(c) = missed[c] + 1 => NewestIsMsg(c)

AckInv == \A c \in Consumers : AckOk(c)

AckIInv == TypeOK /\ StopInv /\ AckInv

-----------------------------------------------------------------------------
(* The stop loop goes from a consumer to the next in the order Earlier.    *)
LEMMA NextStopIsNext ==
  ASSUME TypeOK, NextStop, dispatcher' # "exited", NEW c \in Consumers,
         ~ Earlier(c, stopping')
  PROVE  Earlier(stopping, c)
  <1>1. PICK i \in Groups, j \in 0 .. NUM_CONSUMERS_PER_GROUP - 1 :
          stopping = <<i, j>>
    BY DEF TypeOK, Consumers
  <1>2. PICK g \in Groups, k \in 0 .. NUM_CONSUMERS_PER_GROUP - 1 : c = <<g, k>>
    BY DEF Consumers
  <1>3. ~ LastStop
    BY DEF NextStop
  <1>4. CASE j + 1 < NUM_CONSUMERS_PER_GROUP
    <2>1. stopping' = <<i, j + 1>>
      BY <1>1, <1>3, <1>4 DEF NextStop, After
    <2>2. QED BY <1>1, <1>2, <2>1 DEF Earlier, Groups
  <1>5. CASE ~ (j + 1 < NUM_CONSUMERS_PER_GROUP)
    <2>1. stopping' = <<i + 1, 0>>
      BY <1>1, <1>3, <1>5 DEF NextStop, After
    <2>2. QED BY <1>1, <1>2, <2>1 DEF Earlier, Groups
  <1>6. QED BY <1>4, <1>5

(* A consumer the dispatcher is about to write to got no stop message yet; *)
(* once the message is written the others stay as they were.               *)
LEMMA TargetStopDue == ASSUME TypeOK, Writing PROVE StopDue(Target)
  <1>1. PICK i \in Groups, j \in 0 .. NUM_CONSUMERS_PER_GROUP - 1 :
          stopping = <<i, j>>
    BY DEF TypeOK, Consumers
  <1>2. ~ Earlier(stopping, stopping)
    BY <1>1 DEF Earlier, Groups
  <1>3. QED BY <1>2 DEF Writing, StopDue, Target

LEMMA WriteStopOk ==
  ASSUME TypeOK, WriteToConsumer, StopInv, NEW c \in Consumers
  PROVE  StopOk(c)'
  <1>1. PICK t \in Consumers : t = Target
    BY TargetIsConsumer
  <1>2. dispatcher \notin Gone /\ dispatcher' \in {"await", "awaitStop"}
    BY DEF WriteToConsumer, Writing, Gone
  <1>3. StopDue(c)' => StopDue(c)
    <2>1. PICK i \in Groups, j \in 0 .. NUM_CONSUMERS_PER_GROUP - 1 :
            stopping = <<i, j>>
      BY DEF TypeOK, Consumers
    <2>2. PICK g \in Groups, k \in 0 .. NUM_CONSUMERS_PER_GROUP - 1 : c = <<g, k>>
      BY DEF Consumers
    <2>3. Earlier(stopping, c) => ~ Earlier(c, stopping)
      BY <2>1, <2>2 DEF Earlier, Groups
    <2>4. QED BY <2>3 DEF StopDue, WriteToConsumer, Writing, Earlier
  <1>4. CASE c = t
    <2>1. StopDue(t)
      BY <1>1, TargetStopDue DEF WriteToConsumer
    <2>2. /\ received[t].op = "EVENT"
          /\ \A i \in 1 .. Len(pipe(t)) : pipe(t)[i].op = "EVENT"
      BY <2>1 DEF StopInv, StopOk
    <2>3. /\ pipe(t)' = Append(pipe(t), msg) /\ pipe(t) \in Seq(Message)
          /\ msg \in Message
      BY <1>1 DEF WriteToConsumer, TypeOK, pipe
    <2>4. /\ Len(pipe(t)') = Len(pipe(t)) + 1 /\ Len(pipe(t)) \in Nat
          /\ \A i \in 1 .. Len(pipe(t)) : pipe(t)'[i] = pipe(t)[i]
          /\ pipe(t)'[Len(pipe(t)) + 1] = msg
      BY <2>3, AppendLast
    <2>5. \A i \in 1 .. Len(pipe(t)') - 1 : pipe(t)'[i].op = "EVENT"
      BY <2>2, <2>4
    <2>6. /\ consumer'[t] = consumer[t] /\ received'[t] = received[t]
          /\ consumer[t] # "exited"
      BY <1>1 DEF WriteToConsumer, consumerVars, Gone
    <2>7. ASSUME StopDue(t)'
          PROVE  \A i \in 1 .. Len(pipe(t)') : pipe(t)'[i].op = "EVENT"
      <3>1. dispatcher' = "await"
        <4>1. PICK i \in Groups, j \in 0 .. NUM_CONSUMERS_PER_GROUP - 1 :
                stopping = <<i, j>>
          BY DEF TypeOK, Consumers
        <4>2. ~ Earlier(stopping, stopping)
          BY <4>1 DEF Earlier, Groups
        <4>3. CASE dispatcher' = "awaitStop"
          <5>1. t = stopping /\ stopping' = stopping
            BY <1>1, <4>3 DEF WriteToConsumer, Writing, Target
          <5>2. QED BY <2>7, <4>2, <4>3, <5>1 DEF StopDue, Earlier
        <4>4. QED BY <1>2, <4>3
      <3>2. msg.op = "EVENT"
        BY <3>1 DEF WriteToConsumer, Writing, StopInv, MsgKind
      <3>3. QED BY <2>2, <2>4, <3>2
    <2>8. ~ (consumer'[t] = "exited" \/ received'[t].op = "STOP_MESSAG")
      BY <2>2, <2>6
    <2>9. QED BY <1>4, <2>2, <2>5, <2>6, <2>7, <2>8 DEF StopOk
  <1>5. CASE c # t
    <2>1. pipe(c)' = pipe(c) /\ consumer'[c] = consumer[c] /\ received'[c] = received[c]
      BY <1>1, <1>5 DEF WriteToConsumer, TypeOK, pipe, consumerVars
    <2>2. StopOk(c)
      BY DEF StopInv
    <2>3. QED BY <1>2, <1>3, <2>1, <2>2 DEF StopOk
  <1>6. QED BY <1>4, <1>5

(* The dispatcher moves on: fewer consumers are due a stop than before.    *)
LEMMA MoveOnStopInv ==
  ASSUME TypeOK, StopInv, Awaiting, MoveOn,
         UNCHANGED <<msg, consumerVars, dispatcher_to_consumer>>
  PROVE  StopInv'
  <1>1. MsgKind'
    BY DEF MoveOn, NextConsumer, NextStop, MsgKind, StopInv
  <1>2. ASSUME NEW c \in Consumers PROVE StopOk(c)'
    <2>1. StopDue(c)' => StopDue(c)
      BY NextStopIsNext DEF MoveOn, NextConsumer, NextStop, StopDue, Earlier
    <2>2. dispatcher \notin Gone
      BY DEF Awaiting, Gone
    <2>3. pipe(c)' = pipe(c) /\ consumer'[c] = consumer[c] /\ received'[c] = received[c]
      BY DEF pipe, consumerVars
    <2>4. StopOk(c)
      BY DEF StopInv
    <2>5. QED BY <2>1, <2>2, <2>3, <2>4 DEF StopOk
  <1>3. QED BY <1>1, <1>2 DEF StopInv

-----------------------------------------------------------------------------
(* Each consumer's stop, if any, is the last message of its pipe.          *)
LEMMA StopStep == ASSUME TypeOK, StopInv, [Next]_vars PROVE StopInv'
  <1> USE DEF queueVars, dispatcherVars, consumerVars, pipeVars
  <1>1. ASSUME UNCHANGED <<dispatcher, msg, stopping, consumer, received,
                           dispatcher_to_consumer>>
        PROVE  StopInv'
    BY <1>1 DEF StopInv, MsgKind, StopOk, StopDue, Earlier, pipe
  <1>2. CASE mq_receive
    <2>1. MsgKind'
      <3>1. Head(mq) \in Message
        BY <1>2, HeadAndTail DEF mq_receive, TypeOK
      <3>2. QED BY <1>2, <3>1 DEF mq_receive, MsgKind, Message
    <2>2. ASSUME NEW c \in Consumers PROVE StopOk(c)'
      <3>1. StopOk(c)
        BY DEF StopInv
      <3>2. StopDue(c) /\ dispatcher \notin Gone
        BY <1>2 DEF mq_receive, StopDue, Gone
      <3>3. QED BY <1>2, <3>1, <3>2 DEF mq_receive, StopOk, pipe
    <2>3. QED BY <2>1, <2>2 DEF StopInv
  <1>3. CASE WriteToConsumer
    <2>1. MsgKind'
      BY <1>3 DEF WriteToConsumer, Writing, StopInv, MsgKind
    <2>2. QED BY <1>3, <2>1, WriteStopOk DEF StopInv
  <1>4. ASSUME dispatcher' \in {"killed"} PROVE StopInv'
    BY <1>4 DEF StopInv, MsgKind, StopOk, StopDue, Gone
  <1>5. CASE ReadAck \/ ReadAckEof \/ AckTimeout
    BY <1>5, MoveOnStopInv DEF ReadAck, ReadAckEof, AckTimeout, TimedOut
  <1>6. ASSUME NEW d \in Consumers, ConsumerStep(d) \/ KillConsumer(d)
        PROVE  StopInv'
    <2>1. MsgKind'
      BY <1>6 DEF ConsumerStep, ReadMessage, increment_counter, ReadEof, SendAck, KillConsumer,
                  SendAckToDeadDispatcher, StopInv, MsgKind
    <2>2. ASSUME NEW c \in Consumers PROVE StopOk(c)'
      <3>1. StopOk(c)
        BY DEF StopInv
      <3>2. StopDue(c)' <=> StopDue(c)
        BY <1>6 DEF ConsumerStep, ReadMessage, increment_counter, ReadEof, SendAck, KillConsumer,
                    SendAckToDeadDispatcher, StopDue, Earlier
      <3>3. CASE c # d
        <4>1. /\ pipe(c)' = pipe(c) /\ dispatcher' = dispatcher
              /\ consumer'[c] = consumer[c] /\ received'[c] = received[c]
          BY <1>6, <3>3
             DEF ConsumerStep, ReadMessage, increment_counter, ReadEof, SendAck, KillConsumer,
                 SendAckToDeadDispatcher, TypeOK, pipe
        <4>2. QED BY <3>1, <3>2, <4>1 DEF StopOk
      <3>4. CASE c = d /\ ReadMessage(d)
        <4>1. /\ pipe(c) \in Seq(Message) /\ pipe(c) # <<>>
              /\ pipe(c)' = Tail(pipe(c)) /\ dispatcher' = dispatcher
              /\ consumer'[c] \in {"count", "ack"} /\ received'[c] = Head(pipe(c))
          BY <3>4 DEF ReadMessage, TypeOK, pipe
        <4>2. /\ Head(pipe(c)) = pipe(c)[1] /\ Head(pipe(c)) \in Message
              /\ Len(pipe(c)') = Len(pipe(c)) - 1 /\ Len(pipe(c)) \in Nat \ {0}
              /\ \A i \in 1 .. Len(pipe(c)) - 1 : pipe(c)'[i] = pipe(c)[i + 1]
              /\ pipe(c)' \in Seq(Message)
          BY <4>1, HeadAndTail
        <4>3. dispatcher \notin Gone =>
                 \A i \in 1 .. Len(pipe(c)') - 1 : pipe(c)'[i].op = "EVENT"
          BY <3>1, <4>2 DEF StopOk
        <4>4. dispatcher \notin Gone /\ received'[c].op = "STOP_MESSAG"
                => pipe(c)' = <<>>
          BY <3>1, <4>1, <4>2 DEF StopOk
        <4>5. StopDue(c) => /\ received'[c].op = "EVENT"
                            /\ \A i \in 1 .. Len(pipe(c)') : pipe(c)'[i].op = "EVENT"
          BY <3>1, <4>1, <4>2 DEF StopOk
        <4>6. QED BY <3>2, <4>1, <4>3, <4>4, <4>5 DEF StopOk
      <3>5. CASE c = d /\ ~ ReadMessage(d)
        <4>1. /\ pipe(c)' \in {pipe(c), <<>>} /\ dispatcher' = dispatcher
              /\ received'[c] = received[c]
          BY <1>6, <3>5
             DEF ConsumerStep, increment_counter, ReadEof, SendAck, KillConsumer,
                 SendAckToDeadDispatcher, pipe, TypeOK
        <4>2. dispatcher \notin Gone /\ consumer'[c] = "exited"
                => received[c].op = "STOP_MESSAG"
          BY <1>6, <3>5
             DEF ConsumerStep, increment_counter, ReadEof, SendAck, KillConsumer,
                 SendAckToDeadDispatcher, TypeOK, Gone
        <4>3. StopDue(c) => dispatcher \notin Gone
          BY DEF StopDue, Gone
        <4>4. QED BY <3>1, <3>2, <4>1, <4>2, <4>3 DEF StopOk
      <3>6. QED BY <3>3, <3>4, <3>5
    <2>3. QED BY <2>1, <2>2 DEF StopInv
  <1>7. QED
    BY <1>1, <1>2, <1>3, <1>4, <1>5, <1>6
    DEF Next, DispatcherStep, StartSend, send_with_retry, PostStop, KillDispatcher,
        WriteToDeadConsumer, vars

-----------------------------------------------------------------------------
Unacked(c) == IF consumer[c] \in {"count", "ack"} THEN 1 ELSE 0

LEMMA CountsAreNat ==
  ASSUME TypeOK, NEW c \in Consumers
  PROVE  /\ Len(pipe(c)) \in Nat /\ Len(acks(c)) \in Nat /\ missed[c] \in Nat
         /\ pipe(c) \in Seq(Message) /\ acks(c) \in Seq(Nat)
         /\ received[c] \in Message
         /\ Outstanding(c) = Len(pipe(c)) + Unacked(c) + Len(acks(c))
         /\ Outstanding(c) \in Nat
  <1>1. /\ pipe(c) \in Seq(Message) /\ acks(c) \in Seq(Nat)
        /\ received[c] \in Message /\ missed[c] \in Nat
    BY DEF TypeOK, pipe, acks
  <1>2. Len(pipe(c)) \in Nat /\ Len(acks(c)) \in Nat
    BY <1>1
  <1>3. Unacked(c) \in Nat
    BY DEF Unacked
  <1>4. Outstanding(c) = Len(pipe(c)) + Unacked(c) + Len(acks(c))
    BY DEF Outstanding, Unacked, pipe, acks
  <1>5. QED BY <1>1, <1>2, <1>3, <1>4

(* The same for the next state, whose types are not known yet.             *)
LEMMA OutstandingNext ==
  ASSUME NEW c \in Consumers
  PROVE  /\ Outstanding(c)' = Len(pipe(c)') + Unacked(c)' + Len(acks(c)')
         /\ Unacked(c) \in 0 .. 1 /\ Unacked(c)' \in 0 .. 1
         /\ consumer'[c] = consumer[c] => Unacked(c)' = Unacked(c)
  BY DEF Outstanding, Unacked, pipe, acks

(* What AckOk depends on.                                                  *)
LEMMA AckFrame ==
  ASSUME NEW c \in Consumers, AckOk(c),
         pipe(c)' = pipe(c), acks(c)' = acks(c), consumer'[c] = consumer[c],
         received'[c] = received[c], missed'[c] = missed[c],
         dispatcher' \notin Gone => dispatcher \notin Gone,
         dispatcher' \notin Gone => WaitedFor(c)' = WaitedFor(c),
         (Awaiting /\ Target = c)' => Awaiting /\ Target = c /\ msg' = msg
  PROVE  AckOk(c)'
  BY DEF AckOk, Outstanding, NewestIsMsg, pipe, acks

(* A message is written: one more outstanding, one more waited for.        *)
LEMMA WriteAckInv == ASSUME TypeOK, AckInv, WriteToConsumer PROVE AckInv'
  <1>1. PICK t \in Consumers : t = Target
    BY TargetIsConsumer
  <1>2. /\ Target' = t /\ Awaiting' /\ ~ Awaiting
        /\ dispatcher \notin Gone /\ dispatcher' \notin Gone
    BY <1>1 DEF WriteToConsumer, Writing, Awaiting, Target, Gone
  <1>3. ASSUME NEW c \in Consumers, c # t PROVE AckOk(c)'
    <2>1. /\ pipe(c)' = pipe(c) /\ acks(c)' = acks(c) /\ missed'[c] = missed[c]
          /\ consumer'[c] = consumer[c] /\ received'[c] = received[c]
      BY <1>1, <1>3 DEF WriteToConsumer, TypeOK, consumerVars, pipe, acks
    <2>2. WaitedFor(c) = 0 /\ WaitedFor(c)' = 0 /\ ~ (Awaiting /\ Target = c)'
      BY <1>2, <1>3 DEF WaitedFor
    <2>3. QED BY <1>2, <2>1, <2>2, AckFrame DEF AckInv
  <1>4. AckOk(t)'
    <2>1. /\ pipe(t)' = Append(pipe(t), msg) /\ acks(t)' = acks(t)
          /\ missed'[t] = missed[t] /\ msg' = msg /\ msg \in Message
          /\ consumer'[t] = consumer[t] /\ consumer[t] # "killed"
      BY <1>1 DEF WriteToConsumer, TypeOK, consumerVars, pipe, acks, Gone
    <2>2. /\ Len(pipe(t)') = Len(pipe(t)) + 1 /\ pipe(t)' # <<>>
          /\ pipe(t)'[Len(pipe(t)')] = msg
      BY <2>1, CountsAreNat, AppendLast
    <2>3. Outstanding(t)' = Outstanding(t) + 1
      <3>1. /\ Outstanding(t)' = Len(pipe(t)') + Unacked(t)' + Len(acks(t)')
            /\ Unacked(t)' = Unacked(t) /\ Unacked(t) \in 0 .. 1
        BY <2>1, OutstandingNext
      <3>2. /\ Outstanding(t) = Len(pipe(t)) + Unacked(t) + Len(acks(t))
            /\ Len(pipe(t)) \in Nat /\ Len(acks(t)) \in Nat
        BY CountsAreNat
      <3>3. Len(pipe(t)') = Len(pipe(t)) + 1 /\ Len(acks(t)') = Len(acks(t))
        BY <2>1, <2>2
      <3>4. QED BY <3>1, <3>2, <3>3
    <2>4. WaitedFor(t) = 0 /\ WaitedFor(t)' = 1
      BY <1>2 DEF WaitedFor
    <2>5. Outstanding(t) = missed[t]
      BY <1>2, <2>1, <2>4, CountsAreNat DEF AckInv, AckOk
    <2>6. NewestIsMsg(t)'
      BY <2>1, <2>2 DEF NewestIsMsg
    <2>7. QED BY <2>1, <2>3, <2>4, <2>5, <2>6, CountsAreNat DEF AckOk
  <1>5. QED BY <1>3, <1>4 DEF AckInv

(* A wait ends: with an ack, with the consumer's death, or with a timeout. *)
LEMMA WaitEndsAckInv ==
  ASSUME TypeOK, StopInv, AckInv, ReadAck \/ ReadAckEof \/ AckTimeout
  PROVE  AckInv'
  <1>1. PICK t \in Consumers : t = Target
    BY TargetIsConsumer
  <1>2. Awaiting /\ ~ Awaiting' /\ dispatcher \notin Gone
    BY DEF ReadAck, ReadAckEof, AckTimeout, TimedOut, Awaiting, MoveOn, NextConsumer,
           NextStop, Gone
  <1>3. /\ consumer' = consumer /\ received' = received
        /\ dispatcher_to_consumer' = dispatcher_to_consumer
    BY DEF ReadAck, ReadAckEof, AckTimeout, TimedOut, consumerVars, pipeVars
  <1>4. ASSUME NEW c \in Consumers, c # t PROVE AckOk(c)'
    <2>1. /\ pipe(c)' = pipe(c) /\ acks(c)' = acks(c) /\ missed'[c] = missed[c]
          /\ consumer'[c] = consumer[c] /\ received'[c] = received[c]
      BY <1>1, <1>3, <1>4 DEF ReadAck, ReadAckEof, AckTimeout, TimedOut, TypeOK, pipeVars, pipe, acks
    <2>2. WaitedFor(c) = 0 /\ WaitedFor(c)' = 0
      BY <1>1, <1>2, <1>4 DEF WaitedFor
    <2>3. QED BY <1>2, <2>1, <2>2, AckFrame DEF AckInv
  <1>5. AckOk(t)'
    <2>1. WaitedFor(t) = 1 /\ WaitedFor(t)' = 0
      BY <1>1, <1>2 DEF WaitedFor
    <2>2. SUFFICES ASSUME consumer[t] # "killed"
                   PROVE  Outstanding(t)' = missed'[t]
      <3>1. missed'[t] \in Nat
        BY <1>1 DEF ReadAck, ReadAckEof, AckTimeout, TimedOut, TypeOK
      <3>2. missed'[t] + 0 = missed'[t]
        BY <3>1
      <3>3. QED BY <1>2, <1>3, <2>1, <3>2 DEF AckOk
    <2>3. Outstanding(t) = missed[t] + 1
      BY <1>2, <2>1, <2>2 DEF AckInv, AckOk
    <2>4. CASE ReadAck
      <3>1. /\ acks(t) # <<>> /\ acks(t)' = Tail(acks(t)) /\ missed' = missed
        BY <1>1, <2>4 DEF ReadAck, TypeOK, acks
      <3>2. Len(acks(t)') = Len(acks(t)) - 1
        BY <3>1, CountsAreNat, HeadAndTail
      <3>3. /\ Outstanding(t)' = Len(pipe(t)') + Unacked(t)' + Len(acks(t)')
            /\ Unacked(t)' = Unacked(t) /\ Unacked(t) \in 0 .. 1
        BY <1>3, OutstandingNext
      <3>4. /\ Outstanding(t) = Len(pipe(t)) + Unacked(t) + Len(acks(t))
            /\ Len(pipe(t)) \in Nat /\ Len(acks(t)) \in Nat /\ missed[t] \in Nat
        BY CountsAreNat
      <3>5. Len(pipe(t)') = Len(pipe(t)) /\ missed'[t] = missed[t]
        BY <1>3, <3>1 DEF pipe
      <3>6. QED BY <2>3, <3>2, <3>3, <3>4, <3>5
    <2>5. CASE ReadAckEof
      <3>1. acks(t) = <<>> /\ consumer[t] = "exited"
        BY <1>1, <2>2, <2>5 DEF ReadAckEof, Gone, acks
      <3>2. pipe(t) = <<>>
        BY <1>2, <3>1 DEF StopInv, StopOk
      <3>3. Unacked(t) = 0 /\ Len(pipe(t)) = 0 /\ Len(acks(t)) = 0
        BY <3>1, <3>2 DEF Unacked
      <3>4. Outstanding(t) = 0 /\ missed[t] \in Nat
        BY <3>3, CountsAreNat
      <3>5. QED BY <2>3, <3>4
    <2>6. CASE AckTimeout
      <3>1. missed'[t] = missed[t] + 1 /\ acks(t)' = acks(t)
        BY <1>1, <2>6 DEF AckTimeout, TimedOut, TypeOK, pipeVars, acks
      <3>2. QED BY <1>3, <2>3, <3>1 DEF Outstanding, acks
    <2>7. QED BY <2>4, <2>5, <2>6
  <1>6. QED BY <1>4, <1>5 DEF AckInv

(* A consumer's own step moves what is outstanding along and adds nothing; *)
(* its death can only take the message it is working on out of the count.  *)
LEMMA ConsumerAckInv ==
  ASSUME TypeOK, AckInv, NEW d \in Consumers, ConsumerStep(d) \/ KillConsumer(d)
  PROVE  AckInv'
  <1>1. UNCHANGED <<dispatcher, msg, current_consumer, stopping, missed>>
    BY DEF ConsumerStep, ReadMessage, increment_counter, ReadEof, SendAck, KillConsumer,
           SendAckToDeadDispatcher, dispatcherVars
  <1>2. ASSUME NEW c \in Consumers
        PROVE  /\ WaitedFor(c)' = WaitedFor(c)
               /\ (Awaiting /\ Target = c)' <=> Awaiting /\ Target = c
    BY <1>1 DEF WaitedFor, Awaiting, Target
  <1>3. ASSUME NEW c \in Consumers, c # d PROVE AckOk(c)'
    <2>1. /\ pipe(c)' = pipe(c) /\ acks(c)' = acks(c) /\ missed'[c] = missed[c]
          /\ consumer'[c] = consumer[c] /\ received'[c] = received[c]
      BY <1>1, <1>3 DEF ConsumerStep, ReadMessage, increment_counter, ReadEof, SendAck, KillConsumer,
           SendAckToDeadDispatcher, pipeVars, TypeOK, pipe, acks
    <2>2. QED BY <1>1, <1>2, <2>1, AckFrame DEF AckInv
  <1>4. AckOk(d)'
    <2>1. AckOk(d)
      BY DEF AckInv
    <2>2. /\ Outstanding(d)' = Len(pipe(d)') + Unacked(d)' + Len(acks(d)')
          /\ Outstanding(d) = Len(pipe(d)) + Unacked(d) + Len(acks(d))
          /\ Len(pipe(d)) \in Nat /\ Len(acks(d)) \in Nat /\ missed[d] \in Nat
      BY CountsAreNat, OutstandingNext
    <2>3. CASE ReadMessage(d)
      <3>1. /\ consumer[d] = "read" /\ consumer'[d] \in {"count", "ack"}
            /\ acks(d)' = acks(d)
            /\ pipe(d) # <<>> /\ pipe(d)' = Tail(pipe(d))
            /\ received'[d] = Head(pipe(d))
        BY <2>3 DEF ReadMessage, TypeOK, pipe, acks
      <3>2. /\ Len(pipe(d)') = Len(pipe(d)) - 1 /\ pipe(d)' \in Seq(Message)
            /\ Head(pipe(d)) = pipe(d)[1]
            /\ \A i \in 1 .. Len(pipe(d)) - 1 : pipe(d)'[i] = pipe(d)[i + 1]
        BY <3>1, CountsAreNat, HeadAndTail
      <3>3. Unacked(d) = 0 /\ Unacked(d)' = 1 /\ Len(acks(d)') = Len(acks(d))
        BY <3>1 DEF Unacked
      <3>4. Outstanding(d)' = Outstanding(d)
        BY <2>2, <3>2, <3>3
      <3>5. NewestIsMsg(d) => NewestIsMsg(d)'
        <4>1. CASE pipe(d)' = <<>>
          <5>1. Len(pipe(d)) = 1
            BY <2>2, <3>2, <4>1
          <5>2. QED BY <1>1, <3>1, <3>2, <4>1, <5>1 DEF NewestIsMsg
        <4>2. CASE pipe(d)' # <<>>
          <5>1. Len(pipe(d)') \in 1 .. Len(pipe(d)) - 1
            BY <2>2, <3>2, <4>2
          <5>2. pipe(d)'[Len(pipe(d)')] = pipe(d)[Len(pipe(d))]
            BY <2>2, <3>2, <5>1
          <5>3. QED BY <1>1, <3>1, <4>2, <5>2 DEF NewestIsMsg
        <4>3. QED BY <4>1, <4>2
      <3>6. QED BY <1>1, <1>2, <2>1, <3>1, <3>4, <3>5 DEF AckOk
    <2>3a. CASE increment_counter(d)
      <3>1. /\ consumer[d] = "count" /\ consumer'[d] = "ack" /\ received' = received
            /\ pipe(d)' = pipe(d) /\ acks(d)' = acks(d)
        BY <2>3a DEF increment_counter, TypeOK, pipeVars, pipe, acks
      <3>2. Outstanding(d)' = Outstanding(d)
        BY <3>1 DEF Outstanding, pipe, acks
      <3>3. NewestIsMsg(d) => NewestIsMsg(d)'
        BY <1>1, <3>1 DEF NewestIsMsg
      <3>4. QED BY <1>1, <1>2, <2>1, <3>1, <3>2, <3>3 DEF AckOk
    <2>4. CASE SendAck(d)
      <3>1. /\ consumer[d] = "ack" /\ consumer'[d] \in {"read", "exited"}
            /\ pipe(d)' = pipe(d) /\ received' = received
            /\ acks(d)' = Append(acks(d), received[d].id)
        BY <2>4 DEF SendAck, TypeOK, pipe, acks
      <3>2. /\ Len(acks(d)') = Len(acks(d)) + 1 /\ acks(d)' # <<>>
            /\ acks(d)'[Len(acks(d)')] = received[d].id
        <4>1. received[d].id \in Nat /\ acks(d) \in Seq(Nat)
          BY CountsAreNat DEF Message
        <4>2. QED BY <3>1, <4>1, AppendLast
      <3>3. Unacked(d) = 1 /\ Unacked(d)' = 0
        BY <3>1 DEF Unacked
      <3>4. Outstanding(d)' = Outstanding(d)
        BY <2>2, <3>1, <3>2, <3>3
      <3>5. NewestIsMsg(d) => NewestIsMsg(d)'
        BY <1>1, <3>1, <3>2 DEF NewestIsMsg
      <3>6. QED BY <1>1, <1>2, <2>1, <3>1, <3>4, <3>5 DEF AckOk
    <2>5. CASE ReadEof(d) \/ SendAckToDeadDispatcher(d)
      <3>1. /\ dispatcher \in Gone /\ dispatcher' = dispatcher
            /\ ~ Awaiting' /\ ~ Awaiting
        BY <1>1, <2>5 DEF ReadEof, SendAckToDeadDispatcher, Awaiting, Gone
      <3>2. QED BY <3>1 DEF AckOk
    <2>6. CASE KillConsumer(d)
      <3>1. /\ consumer'[d] = "killed" /\ pipe(d)' = <<>> /\ acks(d)' = acks(d)
        BY <2>6 DEF KillConsumer, TypeOK, pipe, acks
      <3>2. /\ Unacked(d)' = 0 /\ Unacked(d) \in {0, 1}
            /\ (Unacked(d) = 0 => consumer[d] \notin {"count", "ack"})
        BY <3>1 DEF Unacked
      <3>3. /\ Outstanding(d)' = Len(acks(d)) /\ Outstanding(d)' <= Outstanding(d)
            /\ Outstanding(d)' = Outstanding(d) => Len(pipe(d)) = 0 /\ Unacked(d) = 0
        <4>1. Len(pipe(d)') = 0 /\ Len(acks(d)') = Len(acks(d))
          BY <3>1
        <4>2. QED BY <2>2, <3>2, <4>1
      <3>4. ASSUME (Awaiting /\ Target = d)'
            PROVE  /\ Outstanding(d)' <= missed'[d] + 1
                   /\ Outstanding(d)' = missed'[d] + 1 => NewestIsMsg(d)'
        <4>1. /\ Outstanding(d) <= missed[d] + 1 /\ missed' = missed
              /\ Outstanding(d) = missed[d] + 1 => NewestIsMsg(d)
          BY <1>1, <1>2, <2>1, <3>4 DEF AckOk
        <4>2. Outstanding(d) \in Nat /\ Outstanding(d)' \in Nat
          BY <2>2, <3>3, CountsAreNat
        <4>3. Outstanding(d)' <= missed'[d] + 1
          BY <2>2, <3>3, <4>1, <4>2
        <4>4. ASSUME Outstanding(d)' = missed'[d] + 1 PROVE NewestIsMsg(d)'
          <5>1. Outstanding(d)' = Outstanding(d) /\ Outstanding(d) = missed[d] + 1
            BY <2>2, <3>3, <4>1, <4>2, <4>4
          <5>2. pipe(d) = <<>> /\ consumer[d] \notin {"count", "ack"} /\ NewestIsMsg(d)
            BY <3>2, <3>3, <4>1, <5>1, CountsAreNat
          <5>3. QED BY <1>1, <3>1, <5>2 DEF NewestIsMsg
        <4>5. QED BY <4>3, <4>4
      <3>5. QED BY <3>1, <3>4 DEF AckOk
    <2>7. QED BY <2>3, <2>3a, <2>4, <2>5, <2>6 DEF ConsumerStep
  <1>5. QED BY <1>3, <1>4 DEF AckInv

LEMMA AckStep == ASSUME TypeOK, StopInv, AckInv, [Next]_vars PROVE AckInv'
  <1>1. ASSUME UNCHANGED <<dispatcher, msg, current_consumer, stopping, missed,
                           consumer, received, pipeVars>>
        PROVE  AckInv'
    BY <1>1 DEF AckInv, AckOk, Outstanding, WaitedFor, Awaiting, Target,
                NewestIsMsg, pipe, acks, pipeVars
  <1>2. CASE mq_receive
    <2>1. /\ ~ Awaiting /\ ~ Awaiting' /\ dispatcher \notin Gone
          /\ UNCHANGED <<missed, consumer, received, pipeVars>>
      BY <1>2 DEF mq_receive, Awaiting, consumerVars, Gone
    <2>2. QED BY <2>1 DEF AckInv, AckOk, Outstanding, WaitedFor, pipeVars
  <1>3. ASSUME dispatcher' = "killed" PROVE AckInv'
    BY <1>3 DEF AckInv, AckOk, Awaiting, Gone
  <1>4. QED
    BY <1>1, <1>2, <1>3, WriteAckInv, WaitEndsAckInv, ConsumerAckInv
    DEF Next, DispatcherStep, StartSend, send_with_retry, PostStop, KillDispatcher,
        WriteToDeadConsumer, vars, dispatcherVars, consumerVars, pipeVars

LEMMA AckIInvInvariant == Spec => []AckIInv
  <1>1. Init => StopInv /\ AckInv
    BY DEF Init, StopInv, MsgKind, StopOk, StopDue, AckInv, AckOk, Outstanding,
           WaitedFor, Awaiting, Gone, pipe, acks, Event
  <1>2. TypeOK /\ StopInv /\ AckInv /\ [Next]_vars => StopInv' /\ AckInv'
    BY StopStep, AckStep
  <1>3. QED BY <1>1, <1>2, TypeCorrect, PTL DEF Spec, AckIInv

-----------------------------------------------------------------------------
(* What is outstanding at a live consumer of a live dispatcher is the ack  *)
(* waited for and one for every ack the dispatcher ever gave up on.        *)
THEOREM AcksAreOwed == Spec => []AckDebt
  <1>1. AckIInv => AckDebt
    BY DEF AckIInv, AckInv, AckOk, AckDebt
  <1>2. QED BY <1>1, AckIInvInvariant, PTL

(* An ack found while waiting is the ack of the message just written, if   *)
(* the dispatcher never gave up on this consumer before.                   *)
THEOREM AcksAreGenuine == Spec => []AckGenuine
  <1>1. AckIInv => AckGenuine
    <2>1. SUFFICES ASSUME AckIInv, Awaiting, missed[Target] = 0,
                          consumer_to_dispatcher[Target] # <<>>
                   PROVE  Head(consumer_to_dispatcher[Target]) = msg.id
      BY DEF AckGenuine
    <2>2. PICK t \in Consumers : t = Target
      BY <2>1, TargetIsConsumer DEF AckIInv
    <2>3. AckOk(t)
      BY <2>1 DEF AckIInv, AckInv
    <2>4. /\ Outstanding(t) = Len(pipe(t)) + Unacked(t) + Len(acks(t))
          /\ Len(pipe(t)) \in Nat /\ Len(acks(t)) \in Nat /\ Unacked(t) \in Nat
          /\ acks(t) \in Seq(Nat) /\ pipe(t) \in Seq(Message)
      BY <2>1, CountsAreNat DEF AckIInv, Unacked
    <2>5. acks(t) # <<>> /\ Len(acks(t)) >= 1
      BY <2>1, <2>2, <2>4 DEF acks
    <2>6. Outstanding(t) <= 1 /\ (Outstanding(t) = 1 => NewestIsMsg(t))
      BY <2>1, <2>2, <2>3 DEF AckOk
    <2>7. Len(pipe(t)) = 0 /\ Unacked(t) = 0 /\ Len(acks(t)) = 1 /\ NewestIsMsg(t)
      <3>1. Len(pipe(t)) + Unacked(t) + Len(acks(t)) <= 1
        BY <2>4, <2>6
      <3>2. Len(pipe(t)) = 0 /\ Unacked(t) = 0 /\ Len(acks(t)) = 1
        <4>1. \A a, b, k \in Nat : a + b + k <= 1 /\ k >= 1 => a = 0 /\ b = 0 /\ k = 1
          OBVIOUS
        <4>2. QED BY <2>4, <2>5, <3>1, <4>1
      <3>3. QED BY <2>4, <2>6, <3>2
    <2>8. pipe(t) = <<>> /\ consumer[t] \notin {"count", "ack"}
      BY <2>4, <2>7 DEF Unacked
    <2>9. acks(t)[1] = msg.id
      BY <2>5, <2>7, <2>8 DEF NewestIsMsg
    <2>10. QED BY <2>2, <2>4, <2>5, <2>9, HeadAndTail DEF acks
  <1>2. QED BY <1>1, AckIInvInvariant, PTL
=============================================================================
