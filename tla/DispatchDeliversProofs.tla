----------------------- MODULE DispatchDeliversProofs -----------------------
(***************************************************************************)
(* The message pipeline implements Delivery, for any number of groups and  *)
(* consumers, any capacities and any number of messages; and the load of   *)
(* the consumers of a group is balanced.                                   *)
(***************************************************************************)
EXTENDS DispatchDelivers, DispatchOrderProofs, FiniteSetTheorems

USE DispatchAssumption

Members == 0 .. NUM_CONSUMERS_PER_GROUP - 1

(* The number of consumers of group g that got one event more than the     *)
(* others: those before the current one, and the current one while its     *)
(* last event awaits its ack.                                              *)
TurnOf(g) ==
  IF dispatcher = "await" /\ msg.category = g
  THEN current_consumer[g] + 1
  ELSE current_consumer[g]

BalancedAt(g, T) ==
  \A j, k \in Members :
    j < k => Len(given[<<g, j>>])
               = Len(given[<<g, k>>]) + (IF j < T /\ T <= k THEN 1 ELSE 0)

TurnInv ==
  \A g \in Groups : \E T \in 0 .. NUM_CONSUMERS_PER_GROUP :
    BalancedAt(g, T) /\ (Open => T = TurnOf(g))

-----------------------------------------------------------------------------
(* Consumers take turns.                                                   *)

LEMMA GivenTyped ==
  ASSUME TypeOK, NEW c \in Consumers
  PROVE  given[c] \in Seq(Nat) /\ Len(given[c]) \in Nat
  BY DEF TypeOK

LEMMA TurnFrame ==
  ASSUME TurnInv, given' = given,
         Open' => Open /\ \A g \in Groups : TurnOf(g)' = TurnOf(g)
  PROVE  TurnInv'
  <1>1. ASSUME NEW g \in Groups
        PROVE  \E T \in 0 .. NUM_CONSUMERS_PER_GROUP :
                 BalancedAt(g, T)' /\ (Open' => T = TurnOf(g)')
    <2>1. PICK T \in 0 .. NUM_CONSUMERS_PER_GROUP :
            BalancedAt(g, T) /\ (Open => T = TurnOf(g))
      BY DEF TurnInv
    <2>2. \A j \in Members : given'[<<g, j>>] = given[<<g, j>>]
      BY DEF Consumers, Members
    <2>3. BalancedAt(g, T)'
      BY <2>1, <2>2 DEF BalancedAt
    <2>4. QED BY <2>1, <2>3
  <1>2. QED BY <1>1 DEF TurnInv

(* The member whose turn it is gets an event, and is one ahead of those    *)
(* after it.                                                               *)
LEMMA WriteTurn ==
  ASSUME TypeOK, TurnInv, WriteToConsumer, dispatcher = "write"
  PROVE  TurnInv'
  <1>1. PICK t \in Consumers : t = Target
    BY TargetIsConsumer
  <1>2. PICK h \in Groups, T \in Members :
          h = msg.category /\ T = current_consumer[h] /\ t = <<h, T>>
    BY <1>1 DEF Target, TypeOK, Message, Members
  <1>3. /\ dispatcher' = "await" /\ msg' = msg /\ current_consumer' = current_consumer
        /\ dispatcher = "write"
        /\ Open /\ Open'
    BY DEF WriteToConsumer, Open
  <1>4. /\ \A c \in Consumers \ {t} : given'[c] = given[c]
        /\ given'[t] = Append(given[t], msg.id) /\ msg.id \in Nat
    <2>1. given' = [given EXCEPT ![t] = Append(@, msg.id)]
      BY <1>1, WriteGives
    <2>2. msg.id \in Nat
      BY <1>1, TypeFacts
    <2>3. QED BY <2>1, <2>2 DEF TypeOK
  <1>5. \A c \in Consumers : Len(given[c]) \in Nat
    BY GivenTyped
  <1>6. Len(given'[t]) = Len(given[t]) + 1
    BY <1>4, GivenTyped, AppendLast
  <1>7. ASSUME NEW g \in Groups
        PROVE  \E U \in 0 .. NUM_CONSUMERS_PER_GROUP :
                 BalancedAt(g, U)' /\ (Open' => U = TurnOf(g)')
    <2>1. PICK U \in 0 .. NUM_CONSUMERS_PER_GROUP :
            BalancedAt(g, U) /\ (Open => U = TurnOf(g))
      BY DEF TurnInv
    <2>2. \A j \in Members : <<g, j>> \in Consumers
      BY DEF Consumers, Members
    <2>3. CASE g # h
      <3>1. \A j \in Members : given'[<<g, j>>] = given[<<g, j>>]
        BY <1>2, <1>4, <2>2, <2>3
      <3>2. BalancedAt(g, U)'
        BY <2>1, <3>1 DEF BalancedAt
      <3>3. TurnOf(g)' = TurnOf(g)
        BY <1>2, <1>3, <2>3 DEF TurnOf
      <3>4. QED BY <1>3, <2>1, <3>2, <3>3
    <2>4. CASE g = h
      <3>1. U = T /\ TurnOf(g)' = T + 1 /\ T + 1 \in 0 .. NUM_CONSUMERS_PER_GROUP
        BY <1>2, <1>3, <2>1, <2>4 DEF TurnOf, Members
      <3>2. ASSUME NEW j \in Members, NEW k \in Members, j < k
            PROVE  Len(given'[<<g, j>>]) = Len(given'[<<g, k>>])
                     + (IF j < T + 1 /\ T + 1 <= k THEN 1 ELSE 0)
        <4>1. Len(given[<<g, j>>]) = Len(given[<<g, k>>])
                + (IF j < T /\ T <= k THEN 1 ELSE 0)
          BY <2>1, <3>1, <3>2 DEF BalancedAt
        <4>2. /\ j = T => Len(given'[<<g, j>>]) = Len(given[<<g, j>>]) + 1
              /\ j # T => Len(given'[<<g, j>>]) = Len(given[<<g, j>>])
              /\ k = T => Len(given'[<<g, k>>]) = Len(given[<<g, k>>]) + 1
              /\ k # T => Len(given'[<<g, k>>]) = Len(given[<<g, k>>])
          BY <1>2, <1>4, <1>6, <2>2, <2>4
        <4>3. PICK x, y \in Nat :
                x = Len(given[<<g, j>>]) /\ y = Len(given[<<g, k>>])
          BY <1>5, <2>2
        <4>4. j \in Nat /\ k \in Nat /\ T \in Nat
          BY DEF Members
        <4>5. PICK u, v \in Nat :
                u = Len(given'[<<g, j>>]) /\ v = Len(given'[<<g, k>>])
          BY <4>2, <4>3
        <4>6. x = y + (IF j < T /\ T <= k THEN 1 ELSE 0)
          BY <4>1, <4>3
        <4>7. /\ j = T => u = x + 1
              /\ j # T => u = x
              /\ k = T => v = y + 1
              /\ k # T => v = y
          <5>1. /\ j = T => u = x + 1
                /\ j # T => u = x
            BY <4>2, <4>3, <4>5
          <5>2. /\ k = T => v = y + 1
                /\ k # T => v = y
            BY <4>2, <4>3, <4>5
          <5>3. QED BY <5>1, <5>2
        <4>8. u = v + (IF j < T + 1 /\ T + 1 <= k THEN 1 ELSE 0)
          BY <3>2, <4>4, <4>6, <4>7
        <4>9. QED BY <4>5, <4>8
      <3>3. BalancedAt(g, T + 1)'
        BY <3>2 DEF BalancedAt
      <3>4. QED BY <3>1, <3>3
    <2>5. QED BY <2>3, <2>4
  <1>8. QED BY <1>7 DEF TurnInv

(* The turn passes on; after the last member all are even again.           *)
LEMMA NextTurn ==
  ASSUME TypeOK, TurnInv, NextConsumer, given' = given,
         \A c \in Consumers : Len(given[c]) \in Nat
  PROVE  TurnInv'
  <1>1. PICK h \in Groups, i \in Members :
          h = msg.category /\ i = current_consumer[h]
    BY DEF TypeOK, Message, Members
  <1>2. /\ dispatcher = "await" /\ dispatcher' = "receive" /\ Open
        /\ current_consumer' =
             [current_consumer EXCEPT ![h] = (i + 1) % NUM_CONSUMERS_PER_GROUP]
    BY <1>1 DEF NextConsumer, Open
  <1>3. ASSUME NEW g \in Groups
        PROVE  \E U \in 0 .. NUM_CONSUMERS_PER_GROUP :
                 BalancedAt(g, U)' /\ (Open' => U = TurnOf(g)')
    <2>1. PICK U \in 0 .. NUM_CONSUMERS_PER_GROUP :
            BalancedAt(g, U) /\ (Open => U = TurnOf(g))
      BY DEF TurnInv
    <2>2. \A j \in Members : given'[<<g, j>>] = given[<<g, j>>]
      BY DEF Consumers, Members
    <2>3. BalancedAt(g, U)'
      BY <2>1, <2>2 DEF BalancedAt
    <2>4. TurnOf(g)' = current_consumer'[g]
      BY <1>2 DEF TurnOf
    <2>5. CASE g # h
      <3>1. U = current_consumer'[g]
        BY <1>1, <1>2, <2>1, <2>5 DEF TurnOf, TypeOK
      <3>2. QED BY <2>3, <2>4, <3>1
    <2>6. CASE g = h /\ i + 1 < NUM_CONSUMERS_PER_GROUP
      <3>1. U = i + 1
        BY <1>1, <1>2, <2>1, <2>6 DEF TurnOf
      <3>2. (i + 1) % NUM_CONSUMERS_PER_GROUP = i + 1
        BY <2>6 DEF Members
      <3>3. current_consumer'[g] = i + 1
        BY <1>2, <2>6, <3>2 DEF TypeOK
      <3>4. QED BY <2>3, <2>4, <3>1, <3>3
    <2>7. CASE g = h /\ ~ (i + 1 < NUM_CONSUMERS_PER_GROUP)
      <3>1. i + 1 = NUM_CONSUMERS_PER_GROUP
        BY <2>7 DEF Members
      <3>2. U = NUM_CONSUMERS_PER_GROUP
        BY <1>1, <1>2, <2>1, <2>7, <3>1 DEF TurnOf
      <3>3. NUM_CONSUMERS_PER_GROUP % NUM_CONSUMERS_PER_GROUP = 0
        OBVIOUS
      <3>4. current_consumer'[g] = 0
        BY <1>2, <2>7, <3>1, <3>3 DEF TypeOK
      <3>5. BalancedAt(g, 0)'
        <4>1. \A j, k \in Members :
                /\ ~ (j < NUM_CONSUMERS_PER_GROUP /\ NUM_CONSUMERS_PER_GROUP <= k)
                /\ ~ (j < 0 /\ 0 <= k)
          BY DEF Members
        <4>2. \A j, k \in Members :
                j < k => Len(given'[<<g, j>>]) = Len(given'[<<g, k>>]) + 0
          BY <2>3, <3>2, <4>1 DEF BalancedAt
        <4>3. QED BY <4>1, <4>2 DEF BalancedAt
      <3>6. QED BY <2>4, <3>4, <3>5
    <2>8. QED BY <2>5, <2>6, <2>7
  <1>4. QED BY <1>3 DEF TurnInv

(* When the dispatcher only waits, moves on or dies, and in the consumers' *)
(* own steps, nobody is given anything.                                    *)
LEMMA NothingGiven ==
  ASSUME TypeOK, [Next]_vars, ~ (WriteToConsumer /\ dispatcher = "write")
  PROVE  given' = given
  <1>1. CASE WriteToConsumer
    <2>1. PICK t \in Consumers : t = Target
      BY TargetIsConsumer
    <2>2. QED BY <1>1, <2>1, WriteGives
  <1>2. mq_receive => given' = given
    BY DEF mq_receive
  <1>3. CASE ~ WriteToConsumer
    BY <1>2, <1>3, WhatMoves
  <1>4. QED BY <1>1, <1>3

LEMMA TurnStep ==
  ASSUME TypeOK, TurnInv, [Next]_vars
  PROVE  TurnInv'
  <1>1. CASE WriteToConsumer /\ dispatcher = "write"
    BY <1>1, WriteTurn
  <1>2. CASE NextConsumer /\ ~ WriteToConsumer
    BY <1>2, NothingGiven, NextTurn, GivenTyped
  <1>3. CASE ~ (WriteToConsumer /\ dispatcher = "write") /\ ~ NextConsumer
    <2>1. given' = given
      BY <1>3, NothingGiven
    <2>2. ASSUME Open' PROVE Open /\ \A g \in Groups : TurnOf(g)' = TurnOf(g)
      <3>1. CASE UNCHANGED <<dispatcher, msg, current_consumer>>
        BY <2>2, <3>1 DEF Open, TurnOf
      <3>2. CASE mq_receive
        BY <2>2, <3>2 DEF mq_receive, Open, TurnOf
      <3>3. CASE WriteToConsumer
        BY <1>3, <2>2, <3>3 DEF WriteToConsumer, Writing, Open
      <3>4. CASE dispatcher' = "killed"
        BY <2>2, <3>4 DEF Open
      <3>5. CASE NextStop
        BY <2>2, <3>5 DEF NextStop, Open
      <3>6. QED
        BY <1>3, <3>1, <3>2, <3>3, <3>4, <3>5
        DEF Next, DispatcherStep, StartSend, send_with_retry, PostStop,
            KillDispatcher, WriteToDeadConsumer, ReadAck, ReadAckEof, AckTimeout,
            MoveOn, ConsumerStep, ReadMessage, increment_counter, ReadEof, SendAck,
            SendAckToDeadDispatcher, KillConsumer, Die, vars, dispatcherVars
    <2>3. QED BY <2>1, <2>2, TurnFrame
  <1>4. ~ (WriteToConsumer /\ NextConsumer)
    BY DEF WriteToConsumer, Writing, NextConsumer
  <1>5. QED BY <1>1, <1>2, <1>3, <1>4

LEMMA TurnInit == Init => TurnInv
  <1> SUFFICES ASSUME Init PROVE TurnInv
    OBVIOUS
  <1>1. \A g \in Groups : BalancedAt(g, 0) /\ TurnOf(g) = 0
    <2>1. \A c \in Consumers : Len(given[c]) = 0
      BY DEF Init
    <2>2. ASSUME NEW g \in Groups PROVE BalancedAt(g, 0)
      <3>1. \A j \in Members : Len(given[<<g, j>>]) = 0
        BY <2>1 DEF Members, Consumers
      <3>2. \A j, k \in Members : ~ (j < 0 /\ 0 <= k) /\ 0 = 0 + 0
        BY DEF Members
      <3>3. QED BY <3>1, <3>2 DEF BalancedAt
    <2>3. QED BY <2>2 DEF Init, TurnOf
  <1>2. QED BY <1>1 DEF TurnInv

LEMMA TurnInvariant == Spec => [](AckIInv /\ TurnInv)
  <1>1. AckIInv /\ TurnInv /\ [Next]_vars => TurnInv'
    BY TurnStep DEF AckIInv
  <1>2. QED BY <1>1, TurnInit, AckIInvInvariant, PTL DEF Spec

(* The consumers of a group differ by at most one event, the earlier ones  *)
(* ahead, whatever times out, dies or is stopped: the round-robin turn is  *)
(* lost neither by a timeout nor by a dead consumer.                       *)
THEOREM LoadIsBalanced == Spec => []RoundRobinBalanced
  <1>1. AckIInv /\ TurnInv => RoundRobinBalanced
    <2>1. SUFFICES ASSUME AckIInv, TurnInv, NEW g \in Groups,
                          NEW j \in Members, NEW k \in Members, j < k
                   PROVE  /\ Dispatched(<<g, k>>) <= Dispatched(<<g, j>>)
                          /\ Dispatched(<<g, j>>) <= Dispatched(<<g, k>>) + 1
      BY DEF RoundRobinBalanced, Members
    <2>2. PICK T \in 0 .. NUM_CONSUMERS_PER_GROUP : BalancedAt(g, T)
      BY <2>1 DEF TurnInv
    <2>3. <<g, j>> \in Consumers /\ <<g, k>> \in Consumers
      BY DEF Consumers, Members
    <2>4. /\ Dispatched(<<g, j>>) \in Nat /\ Dispatched(<<g, k>>) \in Nat
          /\ Len(given[<<g, j>>]) = Dispatched(<<g, j>>)
          /\ Len(given[<<g, k>>]) = Dispatched(<<g, k>>)
      BY <2>1, <2>3, GivenTyped DEF AckIInv, Dispatched
    <2>5. Len(given[<<g, j>>])
            = Len(given[<<g, k>>]) + (IF j < T /\ T <= k THEN 1 ELSE 0)
      BY <2>1, <2>2 DEF BalancedAt
    <2>6. QED BY <2>4, <2>5
  <1>2. QED BY <1>1, TurnInvariant, PTL

-----------------------------------------------------------------------------
(* Every step of the pipeline is a step of Delivery.                       *)

LEMMA AppendAfter ==
  ASSUME NEW S, NEW s \in Seq(S), NEW t \in Seq(S), NEW x \in S
  PROVE  s \o Append(t, x) = Append(s \o t, x)
  OBVIOUS

LEMMA PrefixFacts ==
  ASSUME NEW S, NEW s \in Seq(S), NEW m \in S
  PROVE  /\ <<m>> \o s \in Seq(S) /\ <<m>> \o s # <<>>
         /\ Head(<<m>> \o s) = m /\ Tail(<<m>> \o s) = s
         /\ <<>> \o s = s
         /\ s # <<>> => <<Head(s)>> \o Tail(s) = s
  OBVIOUS

LEMMA WaitingIs ==
  ASSUME TypeOK
  PROVE  /\ dispatcher = "write" =>
              /\ Waiting # <<>> /\ Head(Waiting) = msg /\ Tail(Waiting) = mq
         /\ dispatcher # "write" => Waiting = mq
         /\ Waiting \in Seq(Message)
  BY PrefixFacts, SMTT(30) DEF TypeOK, Waiting

(* The member whose turn it is in Delivery is the dispatcher's.            *)
LEMMA SameTurn ==
  ASSUME TypeOK, NEW g \in Groups, NEW T \in Members, BalancedAt(g, T)
  PROVE  D!Turn(g) = T
  <1>1. \A j \in Members : <<g, j>> \in Consumers /\ Len(given[<<g, j>>]) \in Nat
    BY GivenTyped DEF Consumers, Members
  <1>2. \A j, k \in Members :
          j < k => Len(given[<<g, j>>])
                     = Len(given[<<g, k>>]) + (IF j < T /\ T <= k THEN 1 ELSE 0)
    BY <1>1 DEF BalancedAt
  <1>3. ASSUME NEW k \in Members
        PROVE  /\ Len(given[<<g, T>>]) <= Len(given[<<g, k>>])
               /\ k < T => Len(given[<<g, T>>]) < Len(given[<<g, k>>])
    <2>1. k \in Nat /\ T \in Nat
      BY DEF Members
    <2>2. CASE k < T
      <3>1. Len(given[<<g, k>>])
              = Len(given[<<g, T>>]) + (IF k < T /\ T <= T THEN 1 ELSE 0)
        BY <1>2, <2>2
      <3>2. QED BY <1>1, <2>1, <2>2, <3>1
    <2>3. CASE T < k
      <3>1. BalancedAt(g, T) /\ ~ (T < T)
        BY <2>1
      <3>2. Len(given[<<g, T>>]) = Len(given[<<g, k>>]) + 0
        BY <2>3, <3>1 DEF BalancedAt
      <3>3. Len(given[<<g, T>>]) = Len(given[<<g, k>>]) + 0
        BY <1>1, <3>2
      <3>4. QED BY <1>1, <2>1, <2>3, <3>3
    <2>4. CASE k = T
      BY <1>1, <2>1, <2>4
    <2>5. QED BY <2>1, <2>2, <2>3, <2>4
  <1>4. ASSUME NEW j \in Members,
               \A k \in Members :
                 /\ Len(given[<<g, j>>]) <= Len(given[<<g, k>>])
                 /\ k < j => Len(given[<<g, j>>]) < Len(given[<<g, k>>])
        PROVE  j = T
    <2>1. j \in Nat /\ T \in Nat
      BY DEF Members
    <2>2. ~ (j < T)
      BY <1>1, <1>3, <1>4, <2>1
    <2>3. ~ (T < j)
      BY <1>1, <1>3, <1>4, <2>1
    <2>4. QED BY <2>1, <2>2, <2>3
  <1>5. QED BY <1>3, <1>4 DEF D!Turn, D!Members, Members

LEMMA RefineFrame ==
  ASSUME UNCHANGED <<posted, Waiting, Open, handled, given>>
  PROVE  UNCHANGED D!vars
  BY DEF D!vars

LEMMA RefinePost ==
  ASSUME TypeOK, NEW m \in Message, Post(m),
         UNCHANGED <<dispatcher, msg, handled, given>>
  PROVE  D!Take(m)
  <1>1. Waiting' = Append(Waiting, m)
    <2>1. \A s \in Seq(Message) :
            /\ <<msg>> \o Append(s, m) = Append(<<msg>> \o s, m)
            /\ <<>> \o Append(s, m) = Append(<<>> \o s, m)
      <3>1. <<msg>> \in Seq(Message) /\ <<>> \in Seq(Message)
        BY DEF TypeOK
      <3>2. QED BY <3>1, AppendAfter
    <2>2. QED BY <2>1 DEF Post, Waiting, TypeOK
  <1>2. posted' = posted + 1 /\ Open' = Open
    BY DEF Post, Open
  <1>3. QED BY <1>1, <1>2 DEF D!Take

LEMMA RefineReceive ==
  ASSUME TypeOK, mq_receive
  PROVE  [D!Next]_(D!vars)
  <1>1. /\ dispatcher = "receive" /\ mq # <<>> /\ mq \in Seq(Message)
        /\ msg' = Head(mq) /\ mq' = Tail(mq) /\ Head(mq) \in Message
        /\ posted' = posted /\ handled' = handled /\ given' = given /\ Open
        /\ Waiting = mq
    BY HeadAndTail, WaitingIs DEF mq_receive, TypeOK, consumerVars, Open
  <1>2. CASE Head(mq).op = "STOP_MESSAG"
    <2>1. dispatcher' = "writeStop"
      BY <1>2 DEF mq_receive
    <2>2. ~ Open' /\ Waiting' = Tail(mq)
      <3>1. <<>> \o Tail(mq) = Tail(mq)
        BY <1>1, HeadAndTail, PrefixFacts
      <3>2. QED BY <1>1, <2>1, <3>1 DEF Open, Waiting
    <2>3. D!Obey
      BY <1>1, <1>2, <2>2 DEF D!Obey, D!Due, Open
    <2>4. QED BY <2>3 DEF D!Next
  <1>3. CASE Head(mq).op # "STOP_MESSAG"
    <2>1. dispatcher' = "write"
      BY <1>3 DEF mq_receive
    <2>2. Open' /\ Waiting' = mq
      <3>1. <<Head(mq)>> \o Tail(mq) = mq
        BY <1>1, PrefixFacts
      <3>2. QED BY <1>1, <2>1, <3>1 DEF Open, Waiting
    <2>3. QED BY <1>1, <2>2, RefineFrame DEF Open
  <1>4. QED BY <1>2, <1>3

LEMMA RefineWrite ==
  ASSUME TypeOK, StopInv, TurnInv, WriteToConsumer, dispatcher = "write"
  PROVE  D!Give
  <1>1. PICK t \in Consumers : t = Target
    BY TargetIsConsumer
  <1>2. PICK h \in Groups, T \in Members :
          h = msg.category /\ T = current_consumer[h] /\ t = <<h, T>>
    BY <1>1 DEF Target, TypeOK, Message, Members
  <1>3. msg.op = "EVENT"
    BY DEF StopInv, MsgKind
  <1>5. given' = [given EXCEPT ![t] = Append(@, msg.id)]
    BY <1>1, WriteGives
  <1>6. D!Turn(h) = T
    <2>1. BalancedAt(h, T)
      BY <1>2 DEF TurnInv, TurnOf, Open
    <2>2. QED BY <2>1, SameTurn
  <1>7. /\ dispatcher' = "await" /\ mq' = mq /\ posted' = posted /\ handled' = handled
    BY DEF WriteToConsumer, queueVars, consumerVars
  <1>8. Open /\ Open' /\ Waiting # <<>> /\ Head(Waiting) = msg /\ Waiting' = Tail(Waiting)
    <2>1. mq \in Seq(Message) /\ msg \in Message
      BY DEF TypeOK
    <2>2. Waiting' = mq
      BY <1>7, <2>1, PrefixFacts DEF Waiting
    <2>3. QED BY <1>7, <2>2, WaitingIs DEF Open
  <1>9. QED BY <1>2, <1>3, <1>5, <1>6, <1>7, <1>8 DEF D!Give, D!Due

(* The dispatcher dies, of a signal or of SIGPIPE.                         *)
LEMMA RefineDeath ==
  ASSUME TypeOK, dispatcher \notin Gone, dispatcher' = "killed",
         UNCHANGED <<mq, posted, handled, given>>
  PROVE  [D!Next]_(D!vars)
  <1>1. ~ Open' /\ Waiting' = mq
    BY PrefixFacts DEF Open, Waiting, TypeOK
  <1>3. CASE Open /\ dispatcher # "write"
    <2>1. Waiting' = Waiting
      BY <1>1, <1>3, WaitingIs
    <2>2. D!Fail
      BY <1>1, <1>3, <2>1 DEF D!Fail
    <2>3. QED BY <2>2 DEF D!Next
  <1>4. CASE dispatcher = "write"
    <2>1. Open /\ Waiting # <<>> /\ Waiting' = Tail(Waiting) /\ Head(Waiting) = msg
      BY <1>1, <1>4, WaitingIs DEF Open
    <2>2. CASE msg.op = "EVENT"
      <3>1. D!Fail
        BY <1>1, <2>1, <2>2 DEF D!Fail, D!Due
      <3>2. QED BY <3>1 DEF D!Next
    <2>3. CASE msg.op # "EVENT"
      <3>1. D!Obey
        BY <1>1, <2>1, <2>3, SMTT(30) DEF D!Obey, D!Due, TypeOK, Message
      <3>2. QED BY <3>1 DEF D!Next
    <2>4. QED BY <2>2, <2>3
  <1>5. CASE ~ Open
    <2>1. Waiting' = Waiting
      BY <1>1, <1>5, WaitingIs DEF Open
    <2>2. QED BY <1>1, <1>5, <2>1, RefineFrame DEF Open
  <1>6. QED BY <1>3, <1>4, <1>5

(* A consumer's step counts the next event given to it, or shows nothing.  *)
LEMMA RefineConsumer ==
  ASSUME TypeOK, CarryInv, NEW d \in Consumers, ConsumerStep(d) \/ KillConsumer(d)
  PROVE  [D!Next]_(D!vars)
  <1>1. UNCHANGED <<mq, posted, dispatcher, msg, given>>
    BY DEF ConsumerStep, ReadMessage, increment_counter, ReadEof, SendAck,
           SendAckToDeadDispatcher, KillConsumer, Die, queueVars, dispatcherVars
  <1>2. UNCHANGED <<posted, Waiting, Open, given>>
    BY <1>1 DEF Waiting, Open
  <1>3. CASE increment_counter(d)
    <2>1. /\ consumer[d] = "count"
          /\ handled' = [handled EXCEPT ![d] = Append(@, received[d].id)]
      BY <1>3 DEF increment_counter
    <2>2. Len(handled[d]) < Len(given[d]) /\ received[d].id = given[d][Len(handled[d]) + 1]
      BY <2>1 DEF CarryInv, Carries, Carried
    <2>3. handled' = [handled EXCEPT ![d] = Append(@, given[d][Len(@) + 1])]
      BY <2>1, <2>2
    <2>4. D!Handle(d)
      BY <1>2, <2>2, <2>3 DEF D!Handle
    <2>5. d \in D!Consumers
      BY DEF D!Consumers, D!Groups, D!Members, Consumers, Groups
    <2>6. QED BY <2>4, <2>5 DEF D!Next
  <1>4. CASE ~ increment_counter(d)
    <2>1. handled' = handled
      BY <1>4 DEF ConsumerStep, ReadMessage, ReadEof, SendAck,
                  SendAckToDeadDispatcher, KillConsumer, Die
    <2>2. QED BY <1>2, <2>1, RefineFrame
  <1>5. QED BY <1>3, <1>4

LEMMA StepDelivers ==
  ASSUME AckIInv, CarryInv, TurnInv, [Next]_vars
  PROVE  [D!Next]_(D!vars)
  <1> USE DEF AckIInv
  <1>1. ~ (WriteToConsumer /\ dispatcher = "write")
          => given' = given
    BY NothingGiven
  <1>2. CASE StartSend \/ UNCHANGED vars
    <2>1. UNCHANGED <<mq, posted, dispatcher, msg, handled, given>>
      BY <1>2 DEF StartSend, vars, queueVars, dispatcherVars, consumerVars, pipeVars
    <2>2. QED BY <2>1, RefineFrame DEF Waiting, Open
  <1>3. CASE send_with_retry
    <2>1. PICK g \in SentCategories : Post(Event(g, posted + 1))
      BY <1>3 DEF send_with_retry
    <2>2. g \in Groups /\ posted + 1 \in Nat /\ Event(g, posted + 1) \in Message
      BY MessagesAreTyped DEF TypeOK
    <2>3. UNCHANGED <<dispatcher, msg, handled, given>>
      BY <1>3 DEF send_with_retry, dispatcherVars, consumerVars, pipeVars
    <2>4. D!Take(Event(g, posted + 1))
      BY <2>1, <2>2, <2>3, RefinePost
    <2>5. QED BY <2>2, <2>4 DEF D!Next, D!Accept, D!Event, Event, D!Groups, Groups
  <1>4. CASE PostStop
    <2>1. Post(Stop(posted + 1)) /\ Stop(posted + 1) \in Message
      BY <1>4, MessagesAreTyped DEF PostStop, TypeOK
    <2>2. UNCHANGED <<dispatcher, msg, handled, given>>
      BY <1>4 DEF PostStop, dispatcherVars, consumerVars, pipeVars
    <2>3. D!Take(Stop(posted + 1))
      BY <2>1, <2>2, RefinePost
    <2>4. QED BY <2>3 DEF D!Next, D!AcceptStop, D!Stop, Stop
  <1>5. CASE mq_receive
    BY <1>5, RefineReceive
  <1>6. CASE WriteToConsumer
    <2>1. CASE dispatcher = "write"
      BY <1>6, <2>1, RefineWrite DEF D!Next
    <2>2. CASE dispatcher # "write"
      <3>1. UNCHANGED <<posted, Waiting, Open, handled>>
        <4>1. /\ dispatcher = "writeStop" /\ dispatcher' = "awaitStop"
              /\ UNCHANGED <<mq, posted, handled>>
          BY <1>6, <2>2 DEF WriteToConsumer, Writing, queueVars, consumerVars
        <4>2. Waiting' = Waiting
          BY <4>1 DEF Waiting
        <4>3. Open' = Open
          BY <4>1 DEF Open
        <4>4. QED BY <4>1, <4>2, <4>3
      <3>2. QED BY <1>1, <2>2, <3>1, RefineFrame
    <2>3. QED BY <2>1, <2>2
  <1>7. CASE WriteToDeadConsumer \/ KillDispatcher
    BY <1>7, RefineDeath DEF WriteToDeadConsumer, KillDispatcher, Writing, Gone,
                             queueVars, consumerVars, pipeVars
  <1>8. CASE ReadAck \/ ReadAckEof \/ AckTimeout
    <2>1. UNCHANGED <<posted, mq, handled, given>>
      BY <1>8 DEF ReadAck, ReadAckEof, AckTimeout, TimedOut, queueVars, consumerVars,
                  pipeVars
    <2>2. UNCHANGED <<Waiting, Open>>
      BY <1>8, <2>1 DEF ReadAck, ReadAckEof, AckTimeout, TimedOut, MoveOn,
                        NextConsumer, NextStop, Waiting, Open
    <2>3. QED BY <2>1, <2>2, RefineFrame
  <1>9. QED
    BY <1>2, <1>3, <1>4, <1>5, <1>6, <1>7, <1>8, RefineConsumer
    DEF Next, DispatcherStep

(* Seen from outside, the message queue, the dispatcher, the pipes and the *)
(* consumers are one ordered list of events dealt out in turn: the         *)
(* pipeline implements Delivery.                                           *)
THEOREM PipelineDelivers == Spec => DeliversInTurn
  <1>1. Init => D!Init
    <2> SUFFICES ASSUME Init PROVE D!Init
      OBVIOUS
    <2>1. <<>> \o <<>> = <<>>
      OBVIOUS
    <2>2. Waiting = <<>> /\ Open = TRUE
      <3>1. dispatcher = "receive" /\ mq = <<>>
        BY DEF Init
      <3>2. Waiting = <<>> \o <<>>
        BY <3>1 DEF Waiting
      <3>3. QED BY <2>1, <3>1, <3>2 DEF Open
    <2>3. QED
      BY <2>2
      DEF Init, D!Init, D!Consumers, D!Groups, D!Members, Consumers, Groups
  <1>2. AckIInv /\ CarryInv /\ TurnInv /\ [Next]_vars => [D!Next]_(D!vars)
    BY StepDelivers
  <1>3. QED BY <1>1, <1>2, TurnInvariant, CarryInvariant, PTL DEF Spec, DeliversInTurn, D!Spec
=============================================================================
