------------------------ MODULE DispatchOrderProofs -------------------------
(***************************************************************************)
(* No event is counted twice or out of order, and what deaths may lose is  *)
(* bounded.                                                                *)
(***************************************************************************)
EXTENDS DispatchProofs

LEMMA AppendAt ==
  ASSUME NEW S, NEW s \in Seq(S), NEW e \in S
  PROVE  /\ Append(s, e) \in Seq(S)
         /\ DOMAIN s = 1 .. Len(s) /\ Len(s) \in Nat
         /\ DOMAIN Append(s, e) = 1 .. Len(s) + 1
         /\ \A i \in 1 .. Len(s) : Append(s, e)[i] = s[i]
         /\ Append(s, e)[Len(s) + 1] = e
  OBVIOUS

LEMMA TailAt ==
  ASSUME NEW S, NEW s \in Seq(S), s # <<>>
  PROVE  /\ Tail(s) \in Seq(S) /\ Head(s) = s[1] /\ Head(s) \in S
         /\ DOMAIN s = 1 .. Len(s) /\ Len(s) \in Nat /\ Len(s) > 0
         /\ DOMAIN Tail(s) = 1 .. Len(s) - 1
         /\ \A i \in 1 .. Len(s) - 1 : Tail(s)[i] = s[i + 1]
  OBVIOUS

LEMMA TypeFacts ==
  ASSUME TypeOK, NEW c \in Consumers
  PROVE  /\ pipe(c) \in Seq(Message) /\ handled[c] \in Seq(Nat)
         /\ given[c] \in Seq(Nat) /\ received[c] \in Message
         /\ mq \in Seq(Message) /\ msg \in Message /\ posted \in Nat
         /\ msg.id \in Nat /\ missed[c] \in Nat
         /\ DOMAIN handled[c] = 1 .. Len(handled[c]) /\ Len(handled[c]) \in Nat
         /\ DOMAIN given[c] = 1 .. Len(given[c]) /\ Len(given[c]) \in Nat
         /\ \A i \in DOMAIN given[c] : given[c][i] \in Nat
  <1>1. /\ pipe(c) \in Seq(Message) /\ handled[c] \in Seq(Nat)
        /\ given[c] \in Seq(Nat) /\ received[c] \in Message
        /\ mq \in Seq(Message) /\ msg \in Message /\ posted \in Nat
        /\ missed[c] \in Nat
    BY DEF TypeOK, pipe
  <1>2. \A m \in Message : m.id \in Nat
    BY DEF Message
  <1>3. QED BY <1>1, <1>2

-----------------------------------------------------------------------------
(* What a consumer was given is what it counted, the event it has read and *)
(* is about to count, and the events in its pipe, which only a stop can    *)
(* follow; of a killed consumer only the counted part is left.             *)

ReadBy(h, place) == Len(h) + (IF place = "count" THEN 1 ELSE 0)

Carried(h, g, p, place, m) ==
  /\ Len(h) <= Len(g)
  /\ \A i \in 1 .. Len(h) : h[i] = g[i]
  /\ place = "count" => Len(h) < Len(g) /\ m.id = g[Len(h) + 1]
  /\ place # "killed" =>
       /\ Len(g) <= ReadBy(h, place) + Len(p)
       /\ ReadBy(h, place) + Len(p) <= Len(g) + 1
       /\ \A j \in 1 .. Len(p) :
            /\ ReadBy(h, place) + j <= Len(g)
                 => p[j].op = "EVENT" /\ p[j].id = g[ReadBy(h, place) + j]
            /\ ReadBy(h, place) + j > Len(g) => p[j].op = "STOP_MESSAG"

Carries(c) == Carried(handled[c], given[c], pipe(c), consumer[c], received[c])

CarryInv == \A c \in Consumers : Carries(c)

(* A message is written to a pipe without a stop.                          *)
LEMMA CarryWrite ==
  ASSUME NEW h \in Seq(Nat), NEW g \in Seq(Nat), NEW p \in Seq(Message),
         NEW place, NEW r, NEW m \in Message,
         Carried(h, g, p, place, r), place # "killed",
         \A j \in 1 .. Len(p) : p[j].op = "EVENT"
  PROVE  Carried(h, IF m.op = "EVENT" THEN Append(g, m.id) ELSE g, Append(p, m),
                 place, r)
  <1>1. PICK k \in Nat : k = ReadBy(h, place)
    BY DEF ReadBy
  <1>2. PICK q : q = Append(p, m)
    OBVIOUS
  <1>3. /\ Len(q) = Len(p) + 1 /\ Len(p) \in Nat
        /\ \A j \in 1 .. Len(p) : q[j] = p[j]
        /\ q[Len(p) + 1] = m
    BY <1>2, AppendLast
  <1>4. Len(h) \in Nat /\ Len(g) \in Nat
    OBVIOUS
  <1>5. /\ Len(h) <= Len(g)
        /\ \A i \in 1 .. Len(h) : h[i] = g[i]
        /\ place = "count" => Len(h) < Len(g) /\ r.id = g[Len(h) + 1]
        /\ Len(g) <= k + Len(p) /\ k + Len(p) <= Len(g) + 1
        /\ \A j \in 1 .. Len(p) :
             /\ k + j <= Len(g) => p[j].op = "EVENT" /\ p[j].id = g[k + j]
             /\ k + j > Len(g) => p[j].op = "STOP_MESSAG"
    BY <1>1 DEF Carried
  <1>6. k + Len(p) = Len(g)
    <2>1. CASE Len(p) = 0
      <3>1. place = "count" => k = Len(h) + 1
        BY <1>1 DEF ReadBy
      <3>2. place # "count" => k = Len(h)
        BY <1>1, <1>4 DEF ReadBy
      <3>3. QED BY <1>1, <1>3, <1>4, <1>5, <2>1, <3>1, <3>2
    <2>2. CASE Len(p) # 0
      <3>1. Len(p) \in 1 .. Len(p)
        BY <1>3, <2>2
      <3>2. ~ (k + Len(p) > Len(g))
        BY <1>5, <3>1
      <3>3. QED BY <1>1, <1>3, <1>4, <1>5, <3>2
    <2>3. QED BY <2>1, <2>2
  <1>7. CASE m.op = "EVENT"
    <2>1. PICK f : f = Append(g, m.id)
      OBVIOUS
    <2>2. /\ Len(f) = Len(g) + 1
          /\ \A i \in 1 .. Len(g) : f[i] = g[i]
          /\ f[Len(g) + 1] = m.id
      BY <2>1, AppendLast DEF Message
    <2>3. /\ Len(h) <= Len(f)
          /\ \A i \in 1 .. Len(h) : h[i] = f[i]
      BY <1>4, <1>5, <2>2
    <2>4. place = "count" => Len(h) < Len(f) /\ r.id = f[Len(h) + 1]
      <3>1. Len(h) < Len(g) => Len(h) + 1 \in 1 .. Len(g)
        BY <1>4
      <3>2. QED BY <1>4, <1>5, <2>2, <3>1
    <2>5. Len(f) <= k + Len(q) /\ k + Len(q) <= Len(f) + 1
      BY <1>1, <1>3, <1>4, <1>6, <2>2
    <2>6. ASSUME NEW j \in 1 .. Len(q)
          PROVE  /\ k + j <= Len(f) => q[j].op = "EVENT" /\ q[j].id = f[k + j]
                 /\ k + j > Len(f) => q[j].op = "STOP_MESSAG"
      <3>1. k + j <= Len(f)
        BY <1>1, <1>3, <1>4, <1>6, <2>2
      <3>2. CASE j = Len(p) + 1
        <4>1. k + j = Len(g) + 1
          BY <1>1, <1>3, <1>6, <3>2
        <4>2. q[j].op = "EVENT" /\ q[j].id = f[k + j]
          BY <1>3, <1>7, <2>2, <3>2, <4>1
        <4>3. QED BY <1>1, <1>4, <2>2, <3>1, <4>2
      <3>3. CASE j # Len(p) + 1
        <4>1. j \in 1 .. Len(p) /\ k + j \in 1 .. Len(g)
          BY <1>1, <1>3, <1>4, <1>6, <3>3
        <4>2. k + j <= Len(g) /\ q[j] = p[j] /\ f[k + j] = g[k + j]
          BY <1>3, <2>2, <4>1
        <4>3. q[j].op = "EVENT" /\ q[j].id = f[k + j]
          BY <1>5, <4>1, <4>2
        <4>4. QED BY <1>1, <1>4, <2>2, <3>1, <4>3
      <3>4. QED BY <3>2, <3>3
    <2>7. QED BY <1>1, <1>2, <1>7, <2>1, <2>3, <2>4, <2>5, <2>6 DEF Carried
  <1>8. CASE m.op # "EVENT"
    <2>1. m.op = "STOP_MESSAG"
      BY <1>8 DEF Message
    <2>2. Len(g) <= k + Len(q) /\ k + Len(q) <= Len(g) + 1
      BY <1>1, <1>3, <1>4, <1>6
    <2>3. ASSUME NEW j \in 1 .. Len(q)
          PROVE  /\ k + j <= Len(g) => q[j].op = "EVENT" /\ q[j].id = g[k + j]
                 /\ k + j > Len(g) => q[j].op = "STOP_MESSAG"
      <3>1. CASE j = Len(p) + 1
        BY <1>1, <1>3, <1>4, <1>6, <2>1, <3>1
      <3>2. CASE j # Len(p) + 1
        <4>1. j \in 1 .. Len(p)
          BY <1>3, <3>2
        <4>2. QED BY <1>3, <1>5, <4>1
      <3>3. QED BY <3>1, <3>2
    <2>4. QED BY <1>1, <1>2, <1>5, <1>8, <2>2, <2>3 DEF Carried
  <1>9. QED BY <1>7, <1>8

(* A message is read: an event is the next of those given, and to be       *)
(* counted.                                                                *)
LEMMA CarryRead ==
  ASSUME NEW h \in Seq(Nat), NEW g \in Seq(Nat), NEW p \in Seq(Message), p # <<>>,
         NEW r, Carried(h, g, p, "read", r)
  PROVE  Carried(h, g, Tail(p), IF p[1].op = "STOP_MESSAG" THEN "ack" ELSE "count", p[1])
  <1>1. PICK k \in Nat : k = Len(h)
    OBVIOUS
  <1>2. PICK q : q = Tail(p)
    OBVIOUS
  <1>3. /\ Len(q) = Len(p) - 1 /\ Len(p) \in Nat \ {0} /\ Len(q) \in Nat
        /\ \A j \in 1 .. Len(p) - 1 : q[j] = p[j + 1]
        /\ p[1] \in Message
    BY <1>2, HeadAndTail
  <1>4. Len(g) \in Nat
    OBVIOUS
  <1>5. /\ k <= Len(g)
        /\ \A i \in 1 .. k : h[i] = g[i]
        /\ Len(g) <= k + Len(p) /\ k + Len(p) <= Len(g) + 1
        /\ \A j \in 1 .. Len(p) :
             /\ k + j <= Len(g) => p[j].op = "EVENT" /\ p[j].id = g[k + j]
             /\ k + j > Len(g) => p[j].op = "STOP_MESSAG"
    BY <1>1 DEF Carried, ReadBy
  <1>6. 1 \in 1 .. Len(p)
    BY <1>3
  <1>7. CASE p[1].op = "STOP_MESSAG"
    <2>1. k + 1 > Len(g)
      BY <1>1, <1>4, <1>5, <1>6, <1>7
    <2>2. k = Len(g) /\ Len(q) = 0
      BY <1>1, <1>3, <1>4, <1>5, <2>1
    <2>3. ReadBy(h, "ack") = k
      BY <1>1 DEF ReadBy
    <2>4. /\ Len(g) <= ReadBy(h, "ack") + Len(q)
          /\ ReadBy(h, "ack") + Len(q) <= Len(g) + 1
          /\ 1 .. Len(q) = {}
      BY <1>1, <2>2, <2>3
    <2>5. Carried(h, g, q, "ack", p[1])
      BY <1>1, <1>5, <2>4 DEF Carried
    <2>6. QED BY <1>2, <1>7, <2>5
  <1>8. CASE p[1].op # "STOP_MESSAG"
    <2>1. k + 1 <= Len(g)
      BY <1>1, <1>4, <1>5, <1>6, <1>8
    <2>2. p[1].id = g[k + 1]
      BY <1>5, <1>6, <2>1
    <2>3. ReadBy(h, "count") = k + 1
      BY <1>1 DEF ReadBy
    <2>4. ASSUME NEW j \in 1 .. Len(q)
          PROVE  /\ k + 1 + j <= Len(g) => q[j].op = "EVENT" /\ q[j].id = g[k + 1 + j]
                 /\ k + 1 + j > Len(g) => q[j].op = "STOP_MESSAG"
      <3>1. /\ j \in Nat /\ j + 1 \in 1 .. Len(p) /\ q[j] = p[j + 1]
            /\ k + 1 + j = k + (j + 1)
        BY <1>1, <1>3
      <3>2. QED BY <1>5, <3>1
    <2>5. Len(g) <= k + 1 + Len(q) /\ k + 1 + Len(q) <= Len(g) + 1
      BY <1>1, <1>3, <1>4, <1>5
    <2>6. k < Len(g)
      BY <1>1, <1>4, <2>1
    <2>7. Carried(h, g, q, "count", p[1])
      BY <1>1, <1>5, <2>2, <2>3, <2>4, <2>5, <2>6 DEF Carried
    <2>8. QED BY <1>2, <1>8, <2>7
  <1>9. QED BY <1>7, <1>8

(* The event read is counted.                                              *)
LEMMA CarryCount ==
  ASSUME NEW h \in Seq(Nat), NEW g \in Seq(Nat), NEW p \in Seq(Message),
         NEW m \in Message, Carried(h, g, p, "count", m)
  PROVE  Carried(Append(h, m.id), g, p, "ack", m)
  <1>1. PICK k \in Nat : k = Len(h)
    OBVIOUS
  <1>2. PICK a : a = Append(h, m.id)
    OBVIOUS
  <1>3. Len(a) = k + 1 /\ (\A i \in 1 .. k : a[i] = h[i]) /\ a[k + 1] = m.id
    BY <1>1, <1>2, AppendLast DEF Message
  <1>4. ReadBy(h, "count") = k + 1 /\ ReadBy(a, "ack") = k + 1
    BY <1>1, <1>3 DEF ReadBy
  <1>5. Len(g) \in Nat /\ k < Len(g) /\ m.id = g[k + 1]
    BY <1>1 DEF Carried
  <1>6. \A i \in 1 .. k + 1 : a[i] = g[i]
    <2>1. \A i \in 1 .. k : h[i] = g[i]
      BY <1>1 DEF Carried
    <2>2. \A i \in 1 .. k + 1 : i = k + 1 \/ i \in 1 .. k
      BY <1>1
    <2>3. QED BY <1>3, <1>5, <2>1, <2>2
  <1>7. QED BY <1>2, <1>3, <1>4, <1>5, <1>6, SMTT(30) DEF Carried

LEMMA CarryStep ==
  ASSUME TypeOK, StopInv, CarryInv, [Next]_vars
  PROVE  CarryInv'
  <1>1. CASE UNCHANGED <<handled, given, dispatcher_to_consumer, consumer, received>>
    BY <1>1 DEF CarryInv, Carries, pipe
  <1>2. CASE WriteToConsumer
    <2>1. PICK t \in Consumers : t = Target
      BY TargetIsConsumer
    <2>2. /\ pipe(t)' = Append(pipe(t), msg)
          /\ given'[t] = IF msg.op = "EVENT" THEN Append(given[t], msg.id) ELSE given[t]
          /\ \A c \in Consumers \ {t} : pipe(c)' = pipe(c) /\ given'[c] = given[c]
          /\ UNCHANGED <<handled, consumer, received>>
      <3>1. dispatcher = "write" <=> msg.op = "EVENT"
        BY <1>2 DEF WriteToConsumer, Writing, StopInv, MsgKind
      <3>2. QED BY <1>2, <2>1, <3>1
               DEF WriteToConsumer, RecordGiven, TypeOK, pipe, consumerVars
    <2>3. Carries(t)'
      <3>1. \A j \in 1 .. Len(pipe(t)) : pipe(t)[j].op = "EVENT"
        BY <1>2, <2>1, TargetStopDue DEF WriteToConsumer, StopInv, StopOk
      <3>2. consumer[t] # "killed" /\ Carries(t)
        BY <1>2, <2>1 DEF WriteToConsumer, CarryInv, Gone
      <3>3. QED BY <2>2, <3>1, <3>2, TypeFacts, CarryWrite DEF Carries
    <2>4. ASSUME NEW c \in Consumers \ {t} PROVE Carries(c)'
      BY <2>2 DEF CarryInv, Carries
    <2>5. QED BY <2>3, <2>4 DEF CarryInv
  <1>3. ASSUME NEW d \in Consumers, ConsumerStep(d) \/ KillConsumer(d)
        PROVE  CarryInv'
    <2>1. ASSUME NEW c \in Consumers \ {d} PROVE Carries(c)'
      <3>1. /\ pipe(c)' = pipe(c) /\ handled'[c] = handled[c] /\ given'[c] = given[c]
            /\ consumer'[c] = consumer[c] /\ received'[c] = received[c]
        BY <1>3 DEF ConsumerStep, ReadMessage, increment_counter, ReadEof, SendAck,
             SendAckToDeadDispatcher, KillConsumer, Die, TypeOK, pipe, pipeVars,
             dispatcherVars
      <3>2. QED BY <3>1 DEF CarryInv, Carries
    <2>2. Carries(d)
      BY DEF CarryInv
    <2>3. CASE ReadMessage(d)
      <3>1. /\ pipe(d) # <<>> /\ pipe(d)' = Tail(pipe(d)) /\ consumer[d] = "read"
            /\ handled'[d] = handled[d] /\ given'[d] = given[d]
            /\ received'[d] = Head(pipe(d))
            /\ consumer'[d] = IF Head(pipe(d)).op = "STOP_MESSAG" THEN "ack" ELSE "count"
        BY <2>3 DEF ReadMessage, TypeOK, pipe, dispatcherVars
      <3>2. Head(pipe(d)) = pipe(d)[1]
        BY <3>1, TypeFacts, HeadAndTail
      <3>3. Carried(handled[d], given[d], pipe(d), "read", received[d])
        BY <2>2, <3>1 DEF Carries
      <3>4. Carried(handled[d], given[d], Tail(pipe(d)),
                    IF pipe(d)[1].op = "STOP_MESSAG" THEN "ack" ELSE "count", pipe(d)[1])
        BY <3>1, <3>3, TypeFacts, CarryRead
      <3>5. Carries(d)'
        BY <3>1, <3>2, <3>4 DEF Carries
      <3>6. QED BY <2>1, <3>5 DEF CarryInv
    <2>4. CASE increment_counter(d)
      <3>1. /\ pipe(d)' = pipe(d) /\ consumer[d] = "count" /\ consumer'[d] = "ack"
            /\ handled'[d] = Append(handled[d], received[d].id) /\ given'[d] = given[d]
            /\ received'[d] = received[d]
        BY <2>4 DEF increment_counter, TypeOK, pipe, pipeVars, dispatcherVars
      <3>2. Carried(handled[d], given[d], pipe(d), "count", received[d])
        BY <2>2, <3>1 DEF Carries
      <3>3. Carried(Append(handled[d], received[d].id), given[d], pipe(d), "ack", received[d])
        BY <3>2, TypeFacts, CarryCount
      <3>4. Carries(d)'
        BY <3>1, <3>3 DEF Carries
      <3>5. QED BY <2>1, <3>4 DEF CarryInv
    <2>5. CASE ReadEof(d) \/ SendAck(d)
      <3>1. /\ pipe(d)' = pipe(d) /\ consumer[d] \in {"read", "ack"}
            /\ consumer'[d] \in {"read", "exited"}
            /\ handled'[d] = handled[d] /\ given'[d] = given[d]
        BY <2>5 DEF ReadEof, SendAck, TypeOK, pipe, pipeVars, dispatcherVars
      <3>2. Carries(d)'
        BY <2>2, <3>1 DEF Carries, Carried, ReadBy
      <3>3. QED BY <2>1, <3>2 DEF CarryInv
    <2>6. CASE SendAckToDeadDispatcher(d) \/ KillConsumer(d)
      <3>1. /\ consumer'[d] = "killed" /\ handled'[d] = handled[d] /\ given'[d] = given[d]
        BY <2>6 DEF SendAckToDeadDispatcher, KillConsumer, Die, TypeOK, dispatcherVars
      <3>2. Carries(d)'
        BY <2>2, <3>1 DEF Carries, Carried
      <3>3. QED BY <2>1, <3>2 DEF CarryInv
    <2>7. QED BY <1>3, <2>3, <2>4, <2>5, <2>6 DEF ConsumerStep
  <1>4. QED
    BY <1>1, <1>2, <1>3
    DEF Next, DispatcherStep, StartSend, send_with_retry, PostStop, KillDispatcher,
        mq_receive, WriteToDeadConsumer, ReadAck, ReadAckEof, AckTimeout, TimedOut,
        vars, queueVars, dispatcherVars, consumerVars, pipeVars

LEMMA CarryInvariant == Spec => []CarryInv
  <1>1. Init => CarryInv
    BY DEF Init, CarryInv, Carries, Carried, ReadBy, pipe
  <1>2. AckIInv /\ CarryInv /\ [Next]_vars => CarryInv'
    BY CarryStep DEF AckIInv
  <1>3. QED BY <1>1, <1>2, AckIInvInvariant, PTL DEF Spec

-----------------------------------------------------------------------------
(* Events are given in the order they were sent, each to one consumer.     *)

(* The serial n is that of an event written to c.                          *)
GotBy(c, n) == \E i \in DOMAIN given[c] : given[c][i] = n

Apart(c, d) == \A n \in Nat : ~ (GotBy(c, n) /\ GotBy(d, n))

(* Events given are not newer than the message in msg.                     *)
Past(c) ==
  \A n \in Nat : GotBy(c, n) => n <= msg.id /\ (dispatcher = "write" => n < msg.id)

QueueOrder ==
  /\ msg.id <= posted
  /\ \A i \in DOMAIN mq : msg.id < mq[i].id /\ mq[i].id <= posted
  /\ \A i, j \in DOMAIN mq : i < j => mq[i].id < mq[j].id

OrderInv ==
  /\ QueueOrder
  /\ \A c \in Consumers : Increasing(given[c]) /\ Past(c)
  /\ \A c, d \in Consumers : c # d => Apart(c, d)

(* The steps that matter: the others leave queue, msg and given alone.     *)
LEMMA WhatMoves ==
  ASSUME TypeOK, [Next]_vars
  PROVE  \/ \E m \in Message :
              /\ m.id = posted + 1 /\ Post(m)
              /\ UNCHANGED <<dispatcher, msg, given>>
         \/ mq_receive
         \/ WriteToConsumer
         \/ /\ UNCHANGED <<mq, posted, msg, given>>
            /\ \/ dispatcher' = dispatcher
               \/ dispatcher' = "killed"
               \/ Awaiting /\ MoveOn
  <1>1. CASE send_with_retry
    <2>1. PICK g \in SentCategories : Post(Event(g, posted + 1))
      BY <1>1 DEF send_with_retry
    <2>2. Event(g, posted + 1) \in Message /\ Event(g, posted + 1).id = posted + 1
      BY DispatchAssumption DEF TypeOK, Event, Message
    <2>3. QED BY <1>1, <2>1, <2>2 DEF send_with_retry, dispatcherVars
  <1>2. CASE PostStop
    <2>1. Stop(posted + 1) \in Message /\ Stop(posted + 1).id = posted + 1
      BY DispatchAssumption DEF TypeOK, Stop, Message, Groups
    <2>2. QED BY <1>2, <2>1 DEF PostStop, dispatcherVars
  <1>3. CASE UNCHANGED vars \/ StartSend
    BY <1>3 DEF StartSend, vars, queueVars, dispatcherVars
  <1>4. CASE WriteToDeadConsumer \/ KillDispatcher
    BY <1>4 DEF WriteToDeadConsumer, KillDispatcher, queueVars
  <1>5. CASE ReadAck \/ ReadAckEof \/ AckTimeout
    BY <1>5 DEF ReadAck, ReadAckEof, AckTimeout, TimedOut, queueVars
  <1>6. ASSUME NEW c \in Consumers, ConsumerStep(c) \/ KillConsumer(c)
        PROVE  UNCHANGED <<mq, posted, msg, given, dispatcher>>
    BY <1>6 DEF ConsumerStep, ReadMessage, increment_counter, ReadEof, SendAck,
         SendAckToDeadDispatcher, KillConsumer, Die, queueVars, dispatcherVars
  <1>7. QED
    BY <1>1, <1>2, <1>3, <1>4, <1>5, <1>6 DEF Next, DispatcherStep

LEMMA PostOrder ==
  ASSUME TypeOK, OrderInv, NEW m \in Message, m.id = posted + 1, Post(m),
         UNCHANGED <<dispatcher, msg, given>>
  PROVE  OrderInv'
  <1>1. QueueOrder'
    <2>1. mq' = Append(mq, m) /\ posted' = posted + 1 /\ posted \in Nat
          /\ mq \in Seq(Message) /\ msg.id \in Nat
      BY DEF Post, TypeOK, Message
    <2>2. \A i \in DOMAIN mq : mq[i].id \in Nat
      <3>1. \A i \in DOMAIN mq : mq[i] \in Message
        BY <2>1
      <3>2. QED BY <3>1 DEF Message
    <2>3. /\ DOMAIN mq = 1 .. Len(mq) /\ Len(mq) \in Nat
          /\ DOMAIN mq' = 1 .. Len(mq) + 1
          /\ \A i \in 1 .. Len(mq) : mq'[i] = mq[i]
          /\ mq'[Len(mq) + 1] = m
      BY <2>1, AppendAt
    <2>4. \A i \in DOMAIN mq : msg.id < mq[i].id /\ mq[i].id <= posted
      BY DEF OrderInv, QueueOrder
    <2>5. \A i \in DOMAIN mq' : msg.id < mq'[i].id /\ mq'[i].id <= posted + 1
      BY <2>1, <2>2, <2>3, <2>4 DEF OrderInv, QueueOrder
    <2>6. \A i, j \in DOMAIN mq' : i < j => mq'[i].id < mq'[j].id
      BY <2>1, <2>2, <2>3, <2>4 DEF OrderInv, QueueOrder
    <2>7. QED BY <2>1, <2>5, <2>6 DEF OrderInv, QueueOrder
  <1>2. QED BY <1>1 DEF OrderInv, Past, Apart, GotBy, Increasing

LEMMA ReceiveOrder ==
  ASSUME TypeOK, OrderInv, mq_receive
  PROVE  OrderInv'
  <1>1. /\ mq \in Seq(Message) /\ mq # <<>> /\ msg' = mq[1] /\ mq' = Tail(mq)
        /\ posted' = posted /\ given' = given
    BY DEF mq_receive, TypeOK
  <1>2. /\ 1 \in DOMAIN mq /\ mq[1].id \in Nat /\ posted \in Nat /\ msg.id \in Nat
        /\ \A i \in DOMAIN mq : mq[i].id \in Nat
    <2>1. \A m \in Message : m.id \in Nat
      BY DEF Message
    <2>2. posted \in Nat /\ msg \in Message
      BY DEF TypeOK
    <2>3. 1 \in DOMAIN mq /\ \A i \in DOMAIN mq : mq[i] \in Message
      BY <1>1
    <2>4. QED BY <2>1, <2>2, <2>3
  <1>3. QueueOrder'
    <2>1. \A i \in DOMAIN mq : i # 1 => mq[1].id < mq[i].id
      <3>1. \A i \in DOMAIN mq : i \in Nat /\ i >= 1
        BY <1>1
      <3>2. QED BY <1>2, <3>1 DEF OrderInv, QueueOrder
    <2>2. /\ DOMAIN mq = 1 .. Len(mq) /\ Len(mq) \in Nat
          /\ DOMAIN mq' = 1 .. Len(mq) - 1
          /\ \A i \in 1 .. Len(mq) - 1 : mq'[i] = mq[i + 1]
      BY <1>1, TailAt
    <2>3. \A i \in DOMAIN mq' : mq[1].id < mq'[i].id /\ mq'[i].id <= posted
      BY <1>1, <2>1, <2>2 DEF OrderInv, QueueOrder
    <2>4. \A i, j \in DOMAIN mq' : i < j => mq'[i].id < mq'[j].id
      BY <1>1, <2>2 DEF OrderInv, QueueOrder
    <2>5. mq[1].id <= posted
      BY <1>2 DEF OrderInv, QueueOrder
    <2>6. QED BY <1>1, <2>3, <2>4, <2>5 DEF QueueOrder
  <1>4. msg.id < msg'.id
    BY <1>1, <1>2 DEF OrderInv, QueueOrder
  <1>5. ASSUME NEW c \in Consumers PROVE Increasing(given'[c]) /\ Past(c)'
    BY <1>1, <1>2, <1>4 DEF OrderInv, Past, GotBy, Increasing
  <1>6. ASSUME NEW c \in Consumers, NEW d \in Consumers, c # d PROVE Apart(c, d)'
    BY <1>1, <1>6 DEF OrderInv, Apart, GotBy
  <1>7. QED BY <1>3, <1>5, <1>6 DEF OrderInv

(* What a write adds to what was given.                                    *)
LEMMA WriteGives ==
  ASSUME TypeOK, WriteToConsumer, NEW t \in Consumers, t = Target
  PROVE  /\ dispatcher = "write" => given' = [given EXCEPT ![t] = Append(@, msg.id)]
         /\ dispatcher = "writeStop" => given' = given
         /\ dispatcher \in {"write", "writeStop"} /\ msg' = msg
         /\ dispatcher' = IF dispatcher = "write" THEN "await" ELSE "awaitStop"
         /\ UNCHANGED <<mq, posted, handled, consumer>>
  BY DEF WriteToConsumer, Writing, RecordGiven, queueVars, consumerVars

LEMMA WriteOrder ==
  ASSUME TypeOK, OrderInv, WriteToConsumer
  PROVE  OrderInv'
  <1>1. PICK t \in Consumers : t = Target
    BY TargetIsConsumer
  <1>2. msg' = msg /\ mq' = mq /\ posted' = posted /\ dispatcher' # "write"
    BY <1>1, WriteGives
  <1>3. CASE dispatcher = "writeStop"
    <2>1. given' = given
      BY <1>1, <1>3, WriteGives
    <2>2. QED BY <1>2, <2>1 DEF OrderInv, QueueOrder, Past, Apart, GotBy, Increasing
  <1>4. CASE dispatcher = "write"
    <2>1. /\ given'[t] = Append(given[t], msg.id)
          /\ \A c \in Consumers \ {t} : given'[c] = given[c]
      BY <1>1, <1>4, WriteGives DEF TypeOK
    <2>2. PICK k \in Nat : k = Len(given[t])
      BY TypeFacts
    <2>3. /\ DOMAIN given[t] = 1 .. k /\ DOMAIN given'[t] = 1 .. k + 1
          /\ \A i \in 1 .. k : given'[t][i] = given[t][i]
          /\ given'[t][k + 1] = msg.id
      BY <2>1, <2>2, TypeFacts, AppendAt
    <2>4. ASSUME NEW n \in Nat PROVE GotBy(t, n)' <=> GotBy(t, n) \/ n = msg.id
      <3>1. \A i \in 1 .. k + 1 : i \in 1 .. k \/ i = k + 1
        BY <2>2
      <3>2. k + 1 \in 1 .. k + 1 /\ \A i \in 1 .. k : i \in 1 .. k + 1
        BY <2>2
      <3>3. QED BY <2>3, <3>1, <3>2 DEF GotBy
    <2>5. ASSUME NEW c \in Consumers \ {t}, NEW n \in Nat
          PROVE  GotBy(c, n)' <=> GotBy(c, n)
      BY <2>1 DEF GotBy
    <2>6. \A c \in Consumers, n \in Nat : GotBy(c, n) => n < msg.id
      BY <1>4 DEF OrderInv, Past
    <2>7. msg.id \in Nat
      BY <1>1, TypeFacts
    <2>8. ASSUME NEW c \in Consumers PROVE Past(c)'
      BY <1>2, <2>4, <2>5, <2>6, <2>7 DEF Past
    <2>9. Increasing(given'[t])
      <3>1. \A i \in 1 .. k : given[t][i] < msg.id
        BY <2>3, <2>6, TypeFacts DEF GotBy
      <3>2. \A i, j \in 1 .. k : i < j => given[t][i] < given[t][j]
        BY <2>3 DEF OrderInv, Increasing
      <3>3. ASSUME NEW i \in 1 .. k + 1, NEW j \in 1 .. k + 1, i < j
            PROVE  given'[t][i] < given'[t][j]
        <4>1. i \in 1 .. k /\ (j \in 1 .. k \/ j = k + 1)
          BY <2>2, <3>3
        <4>2. QED BY <2>3, <3>1, <3>2, <3>3, <4>1
      <3>4. QED BY <2>3, <3>3 DEF Increasing
    <2>10. ASSUME NEW c \in Consumers PROVE Increasing(given'[c])
      BY <2>1, <2>9 DEF OrderInv
    <2>11. ASSUME NEW c \in Consumers, NEW d \in Consumers, c # d PROVE Apart(c, d)'
      <3>1. Apart(c, d)
        BY <2>11 DEF OrderInv
      <3>2. \A e \in Consumers : ~ GotBy(e, msg.id)
        BY <2>6, <2>7
      <3>3. QED BY <2>4, <2>5, <2>11, <3>1, <3>2 DEF Apart
    <2>12. QueueOrder'
      BY <1>2 DEF OrderInv, QueueOrder
    <2>13. QED BY <2>8, <2>10, <2>11, <2>12 DEF OrderInv
  <1>5. QED BY <1>1, <1>3, <1>4, WriteGives

LEMMA OrderStep == ASSUME TypeOK, OrderInv, [Next]_vars PROVE OrderInv'
  <1>1. ASSUME UNCHANGED <<mq, posted, msg, given>>,
               dispatcher' = "write" => dispatcher = "write"
        PROVE  OrderInv'
    BY <1>1 DEF OrderInv, QueueOrder, Past, Apart, GotBy, Increasing
  <1>2. MoveOn => dispatcher' # "write"
    BY DEF MoveOn, NextConsumer, NextStop
  <1>3. QED BY <1>1, <1>2, WhatMoves, PostOrder, ReceiveOrder, WriteOrder

LEMMA OrderInvariant == Spec => []OrderInv
  <1>1. Init => OrderInv
    BY DEF Init, OrderInv, QueueOrder, Past, Apart, GotBy, Increasing, Event
  <1>2. TypeOK /\ OrderInv /\ [Next]_vars => OrderInv'
    BY OrderStep
  <1>3. QED BY <1>1, <1>2, TypeCorrect, PTL DEF Spec

(* However consumers and dispatcher() interleave, time out or die, no      *)
(* event is counted twice, by one consumer or by two, and each consumer    *)
(* counts its events in the order they were sent.                          *)
THEOREM CountedOnceInOrder == Spec => []HandledOnceInOrder
  <1>1. TypeOK /\ CarryInv /\ OrderInv => HandledOnceInOrder
    <2> SUFFICES ASSUME TypeOK, CarryInv, OrderInv PROVE HandledOnceInOrder
      OBVIOUS
    <2>1. ASSUME NEW c \in Consumers
          PROVE  \A i \in DOMAIN handled[c] :
                   i \in DOMAIN given[c] /\ handled[c][i] = given[c][i]
      <3>1. /\ DOMAIN handled[c] = 1 .. Len(handled[c]) /\ Len(handled[c]) \in Nat
            /\ DOMAIN given[c] = 1 .. Len(given[c]) /\ Len(given[c]) \in Nat
        BY TypeFacts
      <3>2. /\ Len(handled[c]) <= Len(given[c])
            /\ \A i \in 1 .. Len(handled[c]) : handled[c][i] = given[c][i]
        BY DEF CarryInv, Carries, Carried
      <3>3. QED BY <3>1, <3>2
    <2>2. ASSUME NEW c \in Consumers PROVE Increasing(handled[c])
      BY <2>1 DEF OrderInv, Increasing
    <2>3. ASSUME NEW c \in Consumers, NEW d \in Consumers, c # d
          PROVE  Elements(handled[c]) \intersect Elements(handled[d]) = {}
      <3>1. ASSUME NEW n \in Elements(handled[c]) \intersect Elements(handled[d])
            PROVE  FALSE
        <4>1. GotBy(c, n) /\ GotBy(d, n)
          BY <2>1, <3>1 DEF Elements, GotBy
        <4>2. n \in Nat
          BY <4>1, TypeFacts DEF GotBy
        <4>3. QED BY <2>3, <4>1, <4>2 DEF OrderInv, Apart
      <3>2. QED BY <3>1
    <2>4. QED BY <2>2, <2>3 DEF HandledOnceInOrder
  <1>2. QED BY <1>1, TypeCorrect, CarryInvariant, OrderInvariant, PTL

-----------------------------------------------------------------------------
(* What a death can take.                                                  *)

(* A consumer is never behind by more events than the acks it owes and the *)
(* one just written.                                                       *)
Behind(c) == Len(given[c]) <= Len(handled[c]) + missed[c] + 1

DebtInv == \A c \in Consumers : Behind(c)

LEMMA DebtStep ==
  ASSUME AckIInv, CarryInv, CarryInv', DebtInv, TypeOK', [Next]_vars
  PROVE  DebtInv'
  <1> USE DEF AckIInv
  <1>1. ASSUME NEW c \in Consumers
        PROVE  /\ Len(given[c]) \in Nat /\ Len(handled[c]) \in Nat /\ missed[c] \in Nat
               /\ Len(given'[c]) \in Nat /\ Len(handled'[c]) \in Nat /\ missed'[c] \in Nat
    <2>1. Len(given[c]) \in Nat /\ Len(handled[c]) \in Nat /\ missed[c] \in Nat
      BY TypeFacts
    <2>2. given'[c] \in Seq(Nat) /\ handled'[c] \in Seq(Nat) /\ missed'[c] \in Nat
      BY DEF TypeOK
    <2>3. QED BY <2>1, <2>2
  <1>2. ASSUME NEW c \in Consumers, given'[c] = given[c],
               Len(handled[c]) <= Len(handled'[c]), missed[c] <= missed'[c]
        PROVE  Behind(c)'
    BY <1>1, <1>2, SMTT(30) DEF DebtInv, Behind
  <1>3. CASE WriteToConsumer
    <2>1. PICK t \in Consumers : t = Target
      BY TargetIsConsumer
    <2>2. missed' = missed /\ handled' = handled
      BY <1>3 DEF WriteToConsumer, consumerVars
    <2>3. ASSUME NEW c \in Consumers, given'[c] = given[c] PROVE Behind(c)'
      BY <1>1, <1>2, <2>2, <2>3
    <2>4. /\ dispatcher \in {"write", "writeStop"}
          /\ dispatcher = "writeStop" => given' = given
          /\ dispatcher = "write" => given' = [given EXCEPT ![t] = Append(@, msg.id)]
      BY <1>3, <2>1, WriteGives
    <2>5. CASE dispatcher = "writeStop"
      BY <2>3, <2>4, <2>5 DEF DebtInv
    <2>6. CASE dispatcher = "write"
      <3>1. Len(given'[t]) = Len(given[t]) + 1
        <4>1. given'[t] = Append(given[t], msg.id)
          BY <2>4, <2>6 DEF TypeOK
        <4>2. QED BY <4>1, TypeFacts, AppendLast
      <3>2. /\ consumer[t] # "killed" /\ dispatcher \notin Gone
            /\ WaitedFor(t) = 0
        BY <1>3, <2>1, <2>6 DEF WriteToConsumer, Writing, Gone, WaitedFor, Awaiting
      <3>3. Outstanding(t) = missed[t]
        BY <1>1, <3>2 DEF AckInv, AckOk
      <3>4. /\ Outstanding(t) = Len(pipe(t)) + Unacked(t) + Len(acks(t))
            /\ Len(pipe(t)) \in Nat /\ Len(acks(t)) \in Nat
        BY CountsAreNat
      <3>5. Len(given[t]) <= ReadBy(handled[t], consumer[t]) + Len(pipe(t))
        BY <3>2 DEF CarryInv, Carries, Carried
      <3>6. PICK u \in {0, 1} : /\ ReadBy(handled[t], consumer[t]) = Len(handled[t]) + u
                                /\ u <= Unacked(t)
        <4>1. CASE consumer[t] = "count"
          BY <4>1 DEF ReadBy, Unacked
        <4>2. CASE consumer[t] # "count"
          BY <4>2 DEF ReadBy, Unacked
        <4>3. QED BY <4>1, <4>2
      <3>7. Unacked(t) \in {0, 1}
        BY DEF Unacked
      <3>8. Len(given[t]) <= Len(handled[t]) + missed[t]
        BY <1>1, <3>3, <3>4, <3>5, <3>6, <3>7
      <3>9. Behind(t)'
        BY <1>1, <2>2, <3>1, <3>8 DEF Behind
      <3>10. \A c \in Consumers \ {t} : given'[c] = given[c]
        BY <2>4, <2>6 DEF TypeOK
      <3>11. QED BY <2>3, <3>9, <3>10 DEF DebtInv
    <2>7. QED BY <2>4, <2>5, <2>6
  <1>4. CASE AckTimeout
    <2>1. UNCHANGED <<given, handled>>
      BY <1>4 DEF AckTimeout, TimedOut, consumerVars
    <2>2. PICK t \in Consumers : t = Target
      BY TargetIsConsumer
    <2>3. missed' = [missed EXCEPT ![t] = @ + 1]
      BY <1>4, <2>2 DEF AckTimeout, TimedOut
    <2>4. ASSUME NEW c \in Consumers PROVE missed[c] <= missed'[c]
      <3>1. missed'[c] = missed[c] + 1 \/ missed'[c] = missed[c]
        BY <2>3 DEF TypeOK
      <3>2. QED BY <1>1, <3>1
    <2>5. QED BY <1>1, <1>2, <2>1, <2>4 DEF DebtInv
  <1>5. ASSUME UNCHANGED <<given, missed, handled>> PROVE DebtInv'
    BY <1>5 DEF DebtInv, Behind
  <1>6. ASSUME NEW d \in Consumers, increment_counter(d) PROVE DebtInv'
    <2>1. UNCHANGED <<given, missed>>
      BY <1>6 DEF increment_counter, dispatcherVars
    <2>2. handled' = [handled EXCEPT ![d] = Append(@, received[d].id)]
      BY <1>6 DEF increment_counter
    <2>3. Len(handled'[d]) = Len(handled[d]) + 1
      <3>1. received[d].id \in Nat
        BY TypeFacts DEF Message
      <3>2. QED BY <2>2, <3>1, TypeFacts, AppendLast DEF TypeOK
    <2>4. \A c \in Consumers : Len(handled[c]) <= Len(handled'[c])
      BY <1>1, <2>2, <2>3 DEF TypeOK
    <2>5. QED BY <1>1, <1>2, <2>1, <2>4 DEF DebtInv
  <1>7. QED
    BY <1>3, <1>4, <1>5, <1>6
    DEF Next, DispatcherStep, StartSend, send_with_retry, PostStop, KillDispatcher,
        mq_receive, WriteToDeadConsumer, ReadAck, ReadAckEof, ConsumerStep,
        ReadMessage, ReadEof, SendAck, SendAckToDeadDispatcher, KillConsumer, Die,
        vars, queueVars, dispatcherVars, consumerVars, pipeVars

LEMMA DebtInvariant == Spec => []DebtInv
  <1>1. Init => DebtInv
    BY DEF Init, DebtInv, Behind
  <1>2. /\ AckIInv /\ CarryInv /\ CarryInv' /\ TypeOK' /\ DebtInv /\ [Next]_vars
           => DebtInv'
    BY DebtStep
  <1>3. QED BY <1>1, <1>2, AckIInvInvariant, CarryInvariant, TypeCorrect, PTL DEF Spec

-----------------------------------------------------------------------------
(* Where a message is until it is given.                                   *)

Queued(n) == \E i \in DOMAIN mq : mq[i].id = n

Given(n) == \E c \in Consumers : GotBy(c, n)

PlaceInv ==
  /\ \A n \in 1 .. posted : Queued(n) \/ n = msg.id \/ Given(n)
  /\ dispatcher \in {"receive", "await"} => msg.id = 0 \/ Given(msg.id)
  /\ dispatcher = "exited" => msg.op = "STOP_MESSAG"

LEMMA PlaceStep ==
  ASSUME TypeOK, StopInv, PlaceInv, [Next]_vars
  PROVE  PlaceInv'
  <1>1. ASSUME NEW m \in Message, m.id = posted + 1, Post(m),
               UNCHANGED <<dispatcher, msg, given>>
        PROVE  PlaceInv'
    <2>1. mq \in Seq(Message) /\ posted \in Nat /\ mq' = Append(mq, m) /\ posted' = posted + 1
      BY <1>1 DEF TypeOK, Post
    <2>2. /\ DOMAIN mq = 1 .. Len(mq) /\ Len(mq) \in Nat
          /\ DOMAIN mq' = 1 .. Len(mq) + 1
          /\ \A i \in 1 .. Len(mq) : mq'[i] = mq[i]
          /\ mq'[Len(mq) + 1] = m
      BY <2>1, AppendAt
    <2>3. \A n : Queued(n) => Queued(n)'
      BY <2>2 DEF Queued
    <2>4. ASSUME NEW n, n = posted + 1 PROVE Queued(n)'
      <3>1. Len(mq) + 1 \in DOMAIN mq'
        BY <2>2
      <3>2. mq'[Len(mq) + 1].id = posted + 1
        BY <1>1, <2>2
      <3>3. QED BY <2>4, <3>1, <3>2 DEF Queued
    <2>5. \A n : Given(n)' <=> Given(n)
      BY <1>1 DEF Given, GotBy
    <2>6. \A n \in 1 .. posted' : n \in 1 .. posted \/ n = posted + 1
      BY <2>1
    <2>7. ASSUME NEW n \in 1 .. posted' PROVE Queued(n)' \/ n = msg'.id \/ Given(n)'
      <3>1. CASE n = posted + 1
        BY <2>4, <3>1
      <3>2. CASE n \in 1 .. posted
        <4>1. Queued(n) \/ n = msg.id \/ Given(n)
          BY <3>2 DEF PlaceInv
        <4>2. QED BY <1>1, <2>3, <2>5, <4>1
      <3>3. QED BY <2>6, <2>7, <3>1, <3>2
    <2>8. dispatcher' \in {"receive", "await"} => msg'.id = 0 \/ Given(msg.id)'
      BY <1>1, <2>5 DEF PlaceInv
    <2>9. dispatcher' = "exited" => msg'.op = "STOP_MESSAG"
      BY <1>1 DEF PlaceInv
    <2>10. QED BY <2>7, <2>8, <2>9 DEF PlaceInv
  <1>2. CASE mq_receive
    <2>1. /\ mq \in Seq(Message) /\ mq # <<>> /\ msg' = mq[1] /\ mq' = Tail(mq)
          /\ UNCHANGED <<posted, given>> /\ dispatcher = "receive"
          /\ dispatcher' \in {"write", "writeStop"}
      BY <1>2 DEF mq_receive, TypeOK
    <2>2. /\ DOMAIN mq = 1 .. Len(mq) /\ Len(mq) \in Nat
          /\ DOMAIN mq' = 1 .. Len(mq) - 1
          /\ \A i \in 1 .. Len(mq) - 1 : mq'[i] = mq[i + 1]
      BY <2>1, TailAt
    <2>3. ASSUME NEW n, Queued(n) PROVE Queued(n)' \/ n = msg'.id
      <3>1. PICK i \in DOMAIN mq : mq[i].id = n
        BY <2>3 DEF Queued
      <3>2. CASE i = 1
        BY <2>1, <3>1, <3>2
      <3>3. CASE i # 1
        <4>1. i - 1 \in DOMAIN mq' /\ mq'[i - 1] = mq[i]
          BY <2>2, <3>3
        <4>2. QED BY <3>1, <4>1 DEF Queued
      <3>4. QED BY <3>2, <3>3
    <2>4. \A n : Given(n)' <=> Given(n)
      BY <2>1 DEF Given, GotBy
    <2>5. \A n \in 1 .. posted : n # 0
      BY DEF TypeOK
    <2>6. QED BY <2>1, <2>3, <2>4, <2>5 DEF PlaceInv
  <1>3. CASE WriteToConsumer
    <2>1. PICK t \in Consumers : t = Target
      BY TargetIsConsumer
    <2>2. UNCHANGED <<mq, posted, msg>> /\ dispatcher \in {"write", "writeStop"}
      BY <1>3, <2>1, WriteGives
    <2>3. CASE dispatcher = "writeStop"
      <3>1. given' = given /\ dispatcher' = "awaitStop"
        BY <1>3, <2>1, <2>3, WriteGives
      <3>2. \A n : Given(n)' <=> Given(n)
        BY <3>1 DEF Given, GotBy
      <3>3. QED BY <2>2, <3>1, <3>2 DEF PlaceInv, Queued
    <2>4. CASE dispatcher = "write"
      <3>1. given' = [given EXCEPT ![t] = Append(@, msg.id)] /\ dispatcher' = "await"
        BY <1>3, <2>1, <2>4, WriteGives
      <3>2. /\ DOMAIN given'[t] = 1 .. Len(given[t]) + 1 /\ Len(given[t]) \in Nat
            /\ DOMAIN given[t] = 1 .. Len(given[t])
            /\ \A i \in 1 .. Len(given[t]) : given'[t][i] = given[t][i]
            /\ given'[t][Len(given[t]) + 1] = msg.id
        <4>1. given'[t] = Append(given[t], msg.id)
          BY <3>1 DEF TypeOK
        <4>2. QED BY <4>1, TypeFacts, AppendAt
      <3>3. ASSUME NEW n, Given(n) PROVE Given(n)'
        <4>1. PICK c \in Consumers : GotBy(c, n)
          BY <3>3 DEF Given
        <4>2. GotBy(c, n)'
          <5>1. CASE c = t
            BY <3>2, <4>1, <5>1 DEF GotBy
          <5>2. CASE c # t
            <6>1. given'[c] = given[c]
              BY <3>1, <5>2 DEF TypeOK
            <6>2. QED BY <4>1, <6>1 DEF GotBy
          <5>3. QED BY <5>1, <5>2
        <4>3. QED BY <4>2 DEF Given
      <3>4. Given(msg.id)'
        <4>1. GotBy(t, msg.id)'
          BY <2>2, <3>2 DEF GotBy
        <4>2. QED BY <4>1 DEF Given
      <3>5. QED BY <2>2, <3>1, <3>3, <3>4 DEF PlaceInv, Queued
    <2>5. QED BY <2>2, <2>3, <2>4
  <1>4. ASSUME UNCHANGED <<mq, posted, msg, given>>,
               \/ dispatcher' = dispatcher
               \/ dispatcher' = "killed"
               \/ Awaiting /\ MoveOn
        PROVE  PlaceInv'
    <2>1. \A n : (Given(n)' <=> Given(n)) /\ (Queued(n)' <=> Queued(n))
      BY <1>4 DEF Given, GotBy, Queued
    <2>2. MoveOn => \/ dispatcher = "await" /\ dispatcher' = "receive"
                    \/ dispatcher = "awaitStop" /\ dispatcher' \in {"exited", "writeStop"}
      BY DEF MoveOn, NextConsumer, NextStop
    <2>3. dispatcher = "awaitStop" => msg.op = "STOP_MESSAG"
      BY DEF StopInv, MsgKind
    <2>4. QED BY <1>4, <2>1, <2>2, <2>3 DEF PlaceInv
  <1>5. QED BY <1>1, <1>2, <1>3, <1>4, WhatMoves

LEMMA PlaceInvariant == Spec => []PlaceInv
  <1>1. Init => PlaceInv
    BY DEF Init, PlaceInv, Event
  <1>2. AckIInv /\ PlaceInv /\ [Next]_vars => PlaceInv'
    BY PlaceStep DEF AckIInv
  <1>3. QED BY <1>1, <1>2, AckIInvInvariant, PTL DEF Spec

(* What was given to a living consumer is counted, in its hand, or in its  *)
(* pipe.                                                                   *)
LEMMA GivenIsUnderway ==
  ASSUME TypeOK, CarryInv, NEW c \in Consumers, NEW i \in DOMAIN given[c],
         consumer[c] # "killed", Len(handled[c]) < i
  PROVE  given[c][i] \in Underway(c)
  <1>1. PICK h \in Nat : h = Len(handled[c])
    BY TypeFacts
  <1>2. PICK g \in Nat : g = Len(given[c])
    BY TypeFacts
  <1>3. pipe(c) \in Seq(Message)
    BY TypeFacts
  <1>4. PICK p \in Nat : p = Len(pipe(c))
    BY <1>3
  <1>5. i \in 1 .. g /\ h < i
    BY <1>1, <1>2, TypeFacts
  <1>6. CASE consumer[c] = "count" /\ i = h + 1
    <2>1. received[c].id = given[c][i]
      BY <1>1, <1>6 DEF CarryInv, Carries, Carried
    <2>2. QED BY <1>6, <2>1 DEF Underway
  <1>7. CASE ~ (consumer[c] = "count" /\ i = h + 1)
    <2>1. PICK k \in Nat : k = ReadBy(handled[c], consumer[c]) /\ k < i
      <3>1. CASE consumer[c] = "count"
        <4>1. ReadBy(handled[c], consumer[c]) = h + 1
          BY <1>1, <3>1 DEF ReadBy
        <4>2. h + 1 < i
          BY <1>1, <1>5, <1>7, <3>1
        <4>3. QED BY <4>1, <4>2
      <3>2. CASE consumer[c] # "count"
        <4>1. ReadBy(handled[c], consumer[c]) = h
          BY <1>1, <3>2 DEF ReadBy
        <4>2. QED BY <1>5, <4>1
      <3>3. QED BY <3>1, <3>2
    <2>2. k < i
      BY <2>1
    <2>3. g <= k + p /\ \A j \in 1 .. p : k + j <= g => pipe(c)[j].id = given[c][k + j]
      BY <1>2, <1>4, <2>1 DEF CarryInv, Carries, Carried
    <2>4. PICK j \in Nat : j = i - k
      BY <1>5, <2>2
    <2>5. j \in 1 .. p /\ k + j = i /\ k + j <= g
      BY <1>5, <2>2, <2>3, <2>4
    <2>6. j \in DOMAIN pipe(c) /\ pipe(c)[j].id = given[c][i]
      BY <1>3, <1>4, <2>3, <2>5
    <2>7. QED BY <2>6 DEF Underway, Ids, pipe
  <1>8. QED BY <1>6, <1>7

(* Whatever dies, times out or stops: what dispatcher() takes with it is   *)
(* the one message it had taken and not written, and what a consumer()     *)
(* takes with it is among the last missed + 1 events it was given.         *)
THEOREM LossesAreBounded == Spec => []LossIsBounded
  <1>1. TypeOK /\ CarryInv /\ DebtInv /\ PlaceInv => LossIsBounded
    <2> SUFFICES ASSUME TypeOK, CarryInv, DebtInv, PlaceInv, NEW n \in Lost
                 PROVE  \/ /\ n = msg.id
                           /\ dispatcher = "killed" \/ msg.op = "STOP_MESSAG"
                           /\ \A c \in Consumers : n \notin Elements(given[c])
                        \/ \E c \in Consumers :
                             /\ consumer[c] = "killed"
                             /\ \E i \in DOMAIN given[c] :
                                  given[c][i] = n /\ Len(given[c]) - i <= missed[c]
      BY DEF LossIsBounded
    <2>1. n \in 1 .. posted /\ n \notin Ids(mq) /\ n \notin InHand
      BY DEF Lost
    <2>2. \A c \in Consumers : n \notin Underway(c) /\ n \notin Elements(handled[c])
      BY DEF Lost
    <2>3. CASE Given(n)
      <3>1. PICK c \in Consumers : GotBy(c, n)
        BY <2>3 DEF Given
      <3>2. PICK i \in DOMAIN given[c] : given[c][i] = n
        BY <3>1 DEF GotBy
      <3>3. /\ Len(handled[c]) \in Nat /\ Len(given[c]) \in Nat /\ missed[c] \in Nat
            /\ DOMAIN handled[c] = 1 .. Len(handled[c]) /\ i \in 1 .. Len(given[c])
        BY TypeFacts
      <3>4. Len(handled[c]) < i
        <4>1. SUFFICES ASSUME i <= Len(handled[c]) PROVE FALSE
          BY <3>3
        <4>2. i \in DOMAIN handled[c]
          BY <3>3, <4>1
        <4>3. handled[c][i] = n
          BY <3>2, <3>3, <4>2 DEF CarryInv, Carries, Carried
        <4>4. QED BY <2>2, <4>2, <4>3 DEF Elements
      <3>5. consumer[c] = "killed"
        BY <2>2, <3>2, <3>4, GivenIsUnderway
      <3>6. Len(given[c]) - i <= missed[c]
        BY <3>3, <3>4 DEF DebtInv, Behind
      <3>7. QED BY <3>2, <3>5, <3>6
    <2>4. CASE ~ Given(n)
      <3>1. ~ Queued(n)
        BY <2>1 DEF Queued, Ids
      <3>2. n = msg.id /\ n # 0
        BY <2>1, <2>4, <3>1 DEF PlaceInv
      <3>3. dispatcher \notin {"receive", "await", "write", "writeStop", "awaitStop"}
        BY <2>1, <2>4, <3>2 DEF PlaceInv, InHand
      <3>4. dispatcher = "killed" \/ msg.op = "STOP_MESSAG"
        BY <3>3 DEF TypeOK, DispatcherStates, Gone, PlaceInv
      <3>5. \A c \in Consumers : n \notin Elements(given[c])
        BY <2>4 DEF Given, GotBy, Elements
      <3>6. QED BY <3>2, <3>4, <3>5
    <2>5. QED BY <2>3, <2>4
  <1>2. QED BY <1>1, TypeCorrect, CarryInvariant, DebtInvariant, PlaceInvariant, PTL

-----------------------------------------------------------------------------
(* A clean stop leaves nothing uncounted.                                  *)

Clean == \A c \in Consumers : missed[c] = 0 /\ consumer[c] # "killed"

Drained ==
  dispatcher = "exited" /\ Clean
    => \A c \in Consumers : Len(given[c]) <= Len(handled[c])

(* The dispatcher's last wait is over: with every ack in, every event that *)
(* was written has been counted.                                           *)
LEMMA ExitDrained ==
  ASSUME AckIInv, CarryInv, Awaiting, ReadAck \/ ReadAckEof \/ AckTimeout, Clean'
  PROVE  \A c \in Consumers : Len(given'[c]) <= Len(handled'[c])
  <1> USE DEF AckIInv
  <1>1. PICK t \in Consumers : t = Target
    BY TargetIsConsumer
  <1>2. dispatcher \notin Gone /\ UNCHANGED <<given, handled, consumer>>
    BY DEF ReadAck, ReadAckEof, AckTimeout, TimedOut, consumerVars, Awaiting, Gone
  <1>3. ~ AckTimeout
    BY <1>1 DEF AckTimeout, TimedOut, Clean, TypeOK
  <1>4. \A c \in Consumers : missed[c] = 0 /\ consumer[c] # "killed"
    BY <1>2, <1>3 DEF ReadAck, ReadAckEof, Clean
  <1>5. ASSUME NEW c \in Consumers
        PROVE  /\ Outstanding(c) = WaitedFor(c)
               /\ Outstanding(c) = Len(pipe(c)) + Unacked(c) + Len(acks(c))
               /\ Len(pipe(c)) \in Nat /\ Unacked(c) \in Nat /\ Len(acks(c)) \in Nat
               /\ pipe(c) \in Seq(Message) /\ acks(c) \in Seq(Nat)
               /\ WaitedFor(c) = IF c = t THEN 1 ELSE 0
    <2>1. AckOk(c)
      BY DEF AckInv
    <2>2. WaitedFor(c) = IF c = t THEN 1 ELSE 0
      BY <1>1 DEF WaitedFor
    <2>3. Outstanding(c) = missed[c] + WaitedFor(c)
      BY <1>2, <1>4, <2>1 DEF AckOk
    <2>4. QED BY <1>4, <2>2, <2>3, CountsAreNat DEF Unacked
  <1>6. ASSUME NEW c \in Consumers PROVE Len(pipe(c)) = 0 /\ consumer[c] # "count"
    <2>1. CASE c # t
      <3>1. Len(pipe(c)) = 0 /\ Unacked(c) = 0
        BY <1>5, <2>1
      <3>2. QED BY <3>1 DEF Unacked
    <2>2. CASE c = t /\ ReadAck
      <3>1. acks(t) # <<>>
        BY <1>1, <2>2 DEF ReadAck, acks
      <3>2. Len(acks(t)) >= 1
        BY <1>5, <3>1
      <3>3. Len(pipe(c)) = 0 /\ Unacked(c) = 0
        BY <1>5, <2>2, <3>2
      <3>4. QED BY <3>3 DEF Unacked
    <2>3. CASE c = t /\ ReadAckEof
      <3>1. consumer[t] = "exited"
        BY <1>1, <1>4, <2>3 DEF ReadAckEof, Gone
      <3>2. pipe(t) = <<>>
        BY <1>2, <2>3, <3>1 DEF StopInv, StopOk
      <3>3. QED BY <2>3, <3>1, <3>2
    <2>4. QED BY <1>3, <2>1, <2>2, <2>3
  <1>7. ASSUME NEW c \in Consumers PROVE Len(given[c]) <= Len(handled[c])
    <2>1. Len(given[c]) <= ReadBy(handled[c], consumer[c]) + Len(pipe(c))
      BY <1>4 DEF CarryInv, Carries, Carried
    <2>2. Len(given[c]) \in Nat /\ Len(handled[c]) \in Nat
      BY TypeFacts
    <2>3. ReadBy(handled[c], consumer[c]) = Len(handled[c])
      <3>1. consumer[c] # "count"
        BY <1>6
      <3>2. ReadBy(handled[c], consumer[c]) = Len(handled[c]) + 0
        BY <3>1 DEF ReadBy
      <3>3. QED BY <2>2, <3>2
    <2>4. QED BY <1>6, <2>1, <2>2, <2>3
  <1>8. QED BY <1>2, <1>7

LEMMA DrainedStep ==
  ASSUME AckIInv, CarryInv, Drained, [Next]_vars
  PROVE  Drained'
  <1>1. SUFFICES ASSUME dispatcher' = "exited", Clean'
                 PROVE  \A c \in Consumers : Len(given'[c]) <= Len(handled'[c])
    BY DEF Drained
  <1>2. CASE UNCHANGED <<dispatcher, missed, consumer, given, handled>>
    BY <1>1, <1>2 DEF Drained, Clean
  <1>3. CASE ReadAck \/ ReadAckEof \/ AckTimeout
    BY <1>1, <1>3, ExitDrained DEF ReadAck, ReadAckEof, AckTimeout, TimedOut
  <1>4. CASE mq_receive \/ WriteToConsumer \/ WriteToDeadConsumer \/ KillDispatcher
    BY <1>1, <1>4 DEF mq_receive, WriteToConsumer, WriteToDeadConsumer, KillDispatcher
  <1>5. ASSUME NEW t \in Consumers, ConsumerStep(t) \/ KillConsumer(t)
        PROVE  \A c \in Consumers : Len(given'[c]) <= Len(handled'[c])
    <2>1. consumer \in [Consumers -> ConsumerStates]
      BY DEF AckIInv, TypeOK
    <2>2. dispatcher = "exited" /\ missed' = missed /\ given' = given
      BY <1>1, <1>5 DEF ConsumerStep, ReadMessage, increment_counter, ReadEof, SendAck,
           SendAckToDeadDispatcher, KillConsumer, Die, dispatcherVars
    <2>3. \A c \in Consumers : consumer[c] # "killed"
      BY <1>1, <1>5, <2>1 DEF Clean, ConsumerStep, ReadMessage, increment_counter,
           ReadEof, SendAck, SendAckToDeadDispatcher, KillConsumer, Die, Gone
    <2>4. \A c \in Consumers : Len(given[c]) <= Len(handled[c])
      BY <1>1, <2>2, <2>3 DEF Drained, Clean
    <2>5. ~ increment_counter(t)
      <3>1. consumer[t] = "count" => Len(handled[t]) < Len(given[t])
        BY DEF CarryInv, Carries, Carried
      <3>2. Len(given[t]) \in Nat /\ Len(handled[t]) \in Nat
        BY TypeFacts DEF AckIInv
      <3>3. QED BY <2>4, <3>1, <3>2 DEF increment_counter
    <2>6. handled' = handled
      BY <1>5, <2>5 DEF ConsumerStep, ReadMessage, ReadEof, SendAck,
           SendAckToDeadDispatcher, KillConsumer, Die
    <2>7. QED BY <2>2, <2>4, <2>6
  <1>6. QED
    BY <1>2, <1>3, <1>4, <1>5 DEF Next, DispatcherStep, StartSend, send_with_retry,
       PostStop, vars, dispatcherVars, consumerVars, pipeVars

(* When dispatcher() returns after a stop, no ack was missed and no        *)
(* consumer was killed, every event sent before the stop has been counted. *)
THEOREM StopIsGraceful == Spec => []GracefulStop
  <1>1. Init => Drained
    BY DEF Init, Drained
  <1>2. AckIInv /\ CarryInv /\ Drained /\ [Next]_vars => Drained'
    BY DrainedStep
  <1>3. TypeOK /\ CarryInv /\ OrderInv /\ PlaceInv /\ Drained => GracefulStop
    <2>1. SUFFICES ASSUME TypeOK, CarryInv, OrderInv, PlaceInv, Drained,
                          dispatcher = "exited", Clean, NEW n \in 1 .. msg.id - 1
                   PROVE  \E c \in Consumers : n \in Elements(handled[c])
      BY DEF GracefulStop, Clean
    <2>2. msg \in Message /\ posted \in Nat /\ mq \in Seq(Message)
      BY <2>1 DEF TypeOK
    <2>3. msg.id \in Nat /\ msg.id <= posted /\ \A i \in DOMAIN mq : msg.id < mq[i].id
      BY <2>1, <2>2 DEF Message, OrderInv, QueueOrder
    <2>4. n \in 1 .. posted /\ n < msg.id /\ n # msg.id
      BY <2>1, <2>2, <2>3
    <2>5. ~ Queued(n)
      <3>1. \A i \in DOMAIN mq : mq[i] \in Message
        BY <2>2
      <3>2. \A i \in DOMAIN mq : mq[i].id \in Nat
        BY <3>1 DEF Message
      <3>3. QED BY <2>3, <2>4, <3>2 DEF Queued
    <2>6. PICK c \in Consumers : GotBy(c, n)
      BY <2>1, <2>4, <2>5 DEF PlaceInv, Given
    <2>7. PICK i \in DOMAIN given[c] : given[c][i] = n
      BY <2>6 DEF GotBy
    <2>8. Len(given[c]) <= Len(handled[c])
      BY <2>1 DEF Drained
    <2>9. i \in DOMAIN handled[c] /\ i \in 1 .. Len(handled[c])
      <3>1. PICK h \in Nat : h = Len(handled[c]) /\ DOMAIN handled[c] = 1 .. h
        BY <2>1, TypeFacts
      <3>2. PICK g \in Nat : g = Len(given[c]) /\ DOMAIN given[c] = 1 .. g
        BY <2>1, TypeFacts
      <3>3. i \in 1 .. g /\ g <= h
        BY <2>8, <3>1, <3>2
      <3>4. QED BY <3>1, <3>2, <3>3
    <2>10. handled[c][i] = n
      BY <2>1, <2>7, <2>9 DEF CarryInv, Carries, Carried
    <2>11. QED BY <2>9, <2>10 DEF Elements
  <1>4. QED BY <1>1, <1>2, <1>3, TypeCorrect, AckIInvInvariant, CarryInvariant,
               OrderInvariant, PlaceInvariant, PTL DEF Spec
=============================================================================
