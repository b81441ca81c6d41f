---------------------------- MODULE NaaradProofs ----------------------------
(***************************************************************************)
(* Proofs about the processes of one run and their pipe ends, and about    *)
(* the program through its runs, for any number of consumers, of messages  *)
(* and of runs, any capacities, and whichever process ends when.           *)
(***************************************************************************)
EXTENDS Naarad, TLAPS

USE StartupAssumption, NaaradAssumption

-----------------------------------------------------------------------------
(* One run.  What matters is which ends main() holds when it forks:        *)
(* AtFork(n) when it forks consumer n, AtFork(NUM_CONSUMERS) when it forks *)
(* the dispatcher.                                                         *)

Kept(c)   == {MsgWrite(c), AckRead(c)}
AtFork(n) == UNION {IF c < n THEN Kept(c) ELSE EndsOf(c) : c \in Consumers}
Piped(n)  == UNION {IF c < n THEN EndsOf(c) ELSE {} : c \in Consumers}

MainHolds ==
  /\ main = "init_pipe" => main_ends = Piped(next)
  /\ main = "init_consumer" => main_ends = AtFork(next)
  /\ main \in {"init_dispatcher", "close"} => main_ends = AtFork(NUM_CONSUMERS)
  /\ main \in {"setup", "loop"} \union Gone => main_ends = {}

DispatcherHolds ==
  dispatcher_ends = IF dispatcher = "running" THEN AtFork(NUM_CONSUMERS) ELSE {}

ConsumerHolds(c) ==
  /\ consumer[c] = "closing" => ends[c] = AtFork(c)
  /\ consumer[c] = "read" => ends[c] = {MsgRead(c), AckWrite(c)}
  /\ consumer[c] \in {"unborn"} \union Gone => ends[c] = {}

(* No process is there before it is forked.                                *)
Unborn ==
  /\ main \in {"init_pipe", "init_consumer", "init_dispatcher"}
       => dispatcher = "unborn"
  /\ \A c \in Consumers :
       main = "init_pipe" \/ (main = "init_consumer" /\ c >= next)
         => consumer[c] = "unborn"

HoldInv ==
  /\ MainHolds /\ DispatcherHolds /\ Unborn
  /\ \A c \in Consumers : ConsumerHolds(c)

-----------------------------------------------------------------------------

LEMMA EndsAreEnds ==
  \A n : AtFork(n) \subseteq Ends /\ Piped(n) \subseteq Ends
  BY DEF AtFork, Piped, Kept, EndsOf, Ends

(* Closing the child's ends of consumer n, when those of the consumers     *)
(* before have been closed, and the like for making them.                  *)
LEMMA NextFork ==
  ASSUME NEW n \in Consumers
  PROVE  AtFork(n) \ {MsgRead(n), AckWrite(n)} = AtFork(n + 1)
  <1>1. ASSUME NEW e PROVE e \in AtFork(n) \ {MsgRead(n), AckWrite(n)} <=> e \in AtFork(n + 1)
    <2>1. ASSUME NEW c \in Consumers
          PROVE  (e \in (IF c < n THEN Kept(c) ELSE EndsOf(c)) \ {MsgRead(n), AckWrite(n)})
                   <=> e \in (IF c < n + 1 THEN Kept(c) ELSE EndsOf(c))
      <3>1. c \in Nat /\ n \in Nat
        BY DEF Consumers
      <3>2. CASE c < n
        BY <3>1, <3>2 DEF Kept, EndsOf, MsgRead, MsgWrite, AckRead, AckWrite
      <3>3. CASE c = n
        BY <3>1, <3>3 DEF Kept, EndsOf, MsgRead, MsgWrite, AckRead, AckWrite
      <3>4. CASE c > n
        BY <3>1, <3>4 DEF Kept, EndsOf, MsgRead, MsgWrite, AckRead, AckWrite
      <3>5. QED BY <3>1, <3>2, <3>3, <3>4
    <2>2. e \in AtFork(n) <=> \E c \in Consumers : e \in IF c < n THEN Kept(c) ELSE EndsOf(c)
      BY DEF AtFork
    <2>3. e \in AtFork(n + 1)
            <=> \E c \in Consumers : e \in IF c < n + 1 THEN Kept(c) ELSE EndsOf(c)
      BY DEF AtFork
    <2>4. QED BY <2>1, <2>2, <2>3
  <1>2. QED BY <1>1

LEMMA NextPipes ==
  ASSUME NEW n \in Consumers
  PROVE  Piped(n) \union EndsOf(n) = Piped(n + 1)
  <1>1. ASSUME NEW c \in Consumers PROVE (c < n + 1) <=> (c < n \/ c = n)
    BY DEF Consumers
  <1>2. QED BY <1>1 DEF Piped

LEMMA Ranges ==
  /\ Piped(0) = {}
  /\ Piped(NUM_CONSUMERS) = AtFork(0)
  /\ \A n \in Consumers : n + 1 < NUM_CONSUMERS => n + 1 \in Consumers
  /\ \A n \in Consumers : ~ (n + 1 < NUM_CONSUMERS) => n + 1 = NUM_CONSUMERS
  /\ 0 \in Consumers
  <1>1. \A c \in Consumers : ~ (c < 0) /\ c < NUM_CONSUMERS
    BY DEF Consumers
  <1>2. Piped(0) = {}
    BY <1>1 DEF Piped
  <1>3. Piped(NUM_CONSUMERS) = AtFork(0)
    BY <1>1 DEF Piped, AtFork
  <1>4. QED BY <1>2, <1>3 DEF Consumers

(* The child finds its own two ends among those it was forked with.        *)
LEMMA OwnEnds ==
  ASSUME NEW c \in Consumers
  PROVE  AtFork(c) \intersect {MsgRead(c), AckWrite(c)} = {MsgRead(c), AckWrite(c)}
  <1>1. ~ (c < c)
    BY DEF Consumers
  <1>2. EndsOf(c) \subseteq AtFork(c)
    BY <1>1 DEF AtFork
  <1>3. QED BY <1>2 DEF EndsOf

-----------------------------------------------------------------------------
(* Every process always is where the code can be, with ends of the program. *)
THEOREM StartupTypeCorrect == StartupSpec => []TypeOK
  <1>1. StartupInit => TypeOK
    BY DEF StartupInit, TypeOK, Consumers
  <1>2. TypeOK /\ [StartupNext]_startupVars => TypeOK'
    <2> SUFFICES ASSUME TypeOK, [StartupNext]_startupVars PROVE TypeOK'
      OBVIOUS
    <2> USE DEF TypeOK, mainVars, childVars, Gone
    <2>0. \A c \in Consumers : EndsOf(c) \subseteq Ends
      BY DEF Ends
    <2>1. CASE init_pipe
      BY <2>0, <2>1, Ranges DEF init_pipe, Advance
    <2>2. CASE init_consumer
      BY <2>2, Ranges DEF init_consumer, Advance
    <2>3. CASE init_dispatcher
      BY <2>3 DEF init_dispatcher
    <2>4. CASE close_pipes
      BY <2>4 DEF close_pipes
    <2>5. CASE setup
      BY <2>5 DEF setup
    <2>6. ASSUME NEW how \in Gone, MainEnds(how) PROVE TypeOK'
      BY <2>6 DEF MainEnds
    <2>7. ASSUME NEW how \in Gone, DispatcherEnds(how) PROVE TypeOK'
      BY <2>7 DEF DispatcherEnds
    <2>8. ASSUME NEW c \in Consumers, close_others(c) PROVE TypeOK'
      BY <2>8 DEF close_others
    <2>9. ASSUME NEW c \in Consumers, NEW how \in Gone, ConsumerEnds(c, how)
          PROVE  TypeOK'
      BY <2>9 DEF ConsumerEnds
    <2>10. CASE StartAgain
      BY <2>10, Ranges DEF StartAgain
    <2>11. CASE UNCHANGED startupVars
      BY <2>11 DEF startupVars
    <2>12. QED
      BY <2>1, <2>2, <2>3, <2>4, <2>5, <2>6, <2>7, <2>8, <2>9, <2>10, <2>11
      DEF StartupNext, MainStarts
  <1>3. QED BY <1>1, <1>2, PTL DEF StartupSpec
-----------------------------------------------------------------------------
(* Who holds what.                                                         *)

LEMMA PipeHolds == ASSUME TypeOK, HoldInv, init_pipe PROVE HoldInv'
  <1> USE DEF childVars, Gone
  <1>1. /\ main = "init_pipe" /\ next \in Consumers
        /\ main_ends = Piped(next) /\ main_ends' = Piped(next + 1)
    BY NextPipes DEF HoldInv, MainHolds, init_pipe, TypeOK
  <1>2. \A c \in Consumers : consumer[c] = "unborn" /\ consumer' = consumer
    BY <1>1 DEF HoldInv, Unborn, init_pipe
  <1>3. CASE next + 1 < NUM_CONSUMERS
    BY <1>1, <1>2, <1>3
    DEF HoldInv, MainHolds, DispatcherHolds, ConsumerHolds, Unborn, init_pipe,
        Advance
  <1>4. CASE ~ (next + 1 < NUM_CONSUMERS)
    <2>1. main' = "init_consumer" /\ next' = 0 /\ main_ends' = AtFork(0)
      BY <1>1, <1>4, Ranges DEF init_pipe, Advance
    <2>2. QED
      BY <1>1, <1>2, <2>1
      DEF HoldInv, MainHolds, DispatcherHolds, ConsumerHolds, Unborn, init_pipe
  <1>5. QED BY <1>3, <1>4

LEMMA ConsumerForkHolds == ASSUME TypeOK, HoldInv, init_consumer PROVE HoldInv'
  <1> USE DEF Gone
  <1>1. /\ main = "init_consumer" /\ next \in Consumers /\ next \in Nat
        /\ main_ends = AtFork(next) /\ main_ends' = AtFork(next + 1)
        /\ consumer' = [consumer EXCEPT ![next] = "closing"]
        /\ ends' = [ends EXCEPT ![next] = AtFork(next)]
        /\ dispatcher = "unborn" /\ UNCHANGED <<dispatcher, dispatcher_ends>>
    BY NextFork DEF HoldInv, MainHolds, Unborn, init_consumer, TypeOK, Consumers
  <1>2. \A c \in Consumers : ConsumerHolds(c)'
    BY <1>1 DEF HoldInv, ConsumerHolds, TypeOK
  <1>3. DispatcherHolds'
    BY <1>1 DEF HoldInv, DispatcherHolds
  <1>4. \A c \in Consumers : c >= next + 1 => consumer'[c] = "unborn"
    BY <1>1 DEF HoldInv, Unborn, TypeOK, Consumers
  <1>5. MainHolds' /\ Unborn'
    <2>1. CASE next + 1 < NUM_CONSUMERS
      BY <1>1, <1>4, <2>1 DEF init_consumer, Advance, MainHolds, Unborn
    <2>2. CASE ~ (next + 1 < NUM_CONSUMERS)
      BY <1>1, <2>2, Ranges DEF init_consumer, Advance, MainHolds, Unborn
    <2>3. QED BY <2>1, <2>2
  <1>6. QED BY <1>2, <1>3, <1>5 DEF HoldInv

LEMMA HoldStep ==
  ASSUME TypeOK, HoldInv, [StartupNext]_startupVars
  PROVE  HoldInv'
  <1> USE DEF mainVars, childVars, HoldInv, Gone
  <1>1. CASE init_dispatcher
    BY <1>1
    DEF init_dispatcher, MainHolds, DispatcherHolds, ConsumerHolds, Unborn
  <1>2. CASE close_pipes
    BY <1>2 DEF close_pipes, MainHolds, DispatcherHolds, ConsumerHolds, Unborn
  <1>3. CASE setup
    BY <1>3 DEF setup, MainHolds, DispatcherHolds, ConsumerHolds, Unborn
  <1>4. ASSUME NEW how \in Gone, MainEnds(how) PROVE HoldInv'
    BY <1>4 DEF MainEnds, MainHolds, DispatcherHolds, ConsumerHolds, Unborn
  <1>5. ASSUME NEW how \in Gone, DispatcherEnds(how) PROVE HoldInv'
    BY <1>5 DEF DispatcherEnds, MainHolds, DispatcherHolds, ConsumerHolds, Unborn
  <1>6. ASSUME NEW c \in Consumers, close_others(c) PROVE HoldInv'
    <2>1. /\ consumer[c] = "closing" /\ ends[c] = AtFork(c)
          /\ ends' = [ends EXCEPT ![c] = {MsgRead(c), AckWrite(c)}]
          /\ consumer' = [consumer EXCEPT ![c] = "read"]
      BY <1>6, OwnEnds DEF close_others, ConsumerHolds
    <2>2. \A d \in Consumers : ConsumerHolds(d)'
      BY <2>1 DEF ConsumerHolds, TypeOK
    <2>3. QED
      BY <1>6, <2>1, <2>2
      DEF close_others, MainHolds, DispatcherHolds, Unborn, TypeOK
  <1>7. ASSUME NEW c \in Consumers, NEW how \in Gone, ConsumerEnds(c, how)
        PROVE  HoldInv'
    <2>1. \A d \in Consumers : ConsumerHolds(d)'
      BY <1>7 DEF ConsumerEnds, ConsumerHolds, TypeOK
    <2>2. QED
      BY <1>7, <2>1
      DEF ConsumerEnds, MainHolds, DispatcherHolds, Unborn, TypeOK
  <1>8. CASE StartAgain
    BY <1>8, Ranges
    DEF StartAgain, MainHolds, DispatcherHolds, ConsumerHolds, Unborn
  <1>9. CASE UNCHANGED startupVars
    BY <1>9 DEF startupVars, MainHolds, DispatcherHolds, ConsumerHolds, Unborn
  <1>10. QED
    BY <1>1, <1>2, <1>3, <1>4, <1>5, <1>6, <1>7, <1>8, <1>9, PipeHolds,
       ConsumerForkHolds
    DEF StartupNext, MainStarts

LEMMA EveryoneHolds == StartupSpec => [](TypeOK /\ HoldInv)
  <1>1. StartupInit => HoldInv
    BY Ranges
    DEF StartupInit, HoldInv, MainHolds, DispatcherHolds, ConsumerHolds, Unborn
  <1>2. TypeOK /\ HoldInv /\ [StartupNext]_startupVars => HoldInv'
    BY HoldStep
  <1>3. QED BY <1>1, <1>2, StartupTypeCorrect, PTL DEF StartupSpec

-----------------------------------------------------------------------------
(* A consumer meets no end of file as long as somebody may still write to  *)
(* it, whichever process has closed what: the parent keeps, until it has   *)
(* forked the dispatcher, the ends the dispatcher will use.                *)
THEOREM EofOnlyAfterDispatcher == StartupSpec => []NoEarlyEof
  <1>1. ASSUME NEW n, NEW c \in Consumers
        PROVE  MsgWrite(c) \in AtFork(n) /\ AckRead(c) \in AtFork(n)
    <2>1. Kept(c) \subseteq IF c < n THEN Kept(c) ELSE EndsOf(c)
      BY DEF Kept, EndsOf
    <2>2. Kept(c) \subseteq AtFork(n)
      BY <2>1 DEF AtFork
    <2>3. QED BY <2>2 DEF Kept
  <1>2. TypeOK /\ HoldInv => NoEarlyEof
    <2> SUFFICES ASSUME HoldInv, NEW c \in Consumers,
                        dispatcher = "running"
                          \/ main \in {"init_consumer", "init_dispatcher"}
                 PROVE  Open(MsgWrite(c)) /\ Open(AckRead(c))
      BY DEF NoEarlyEof
    <2>1. CASE dispatcher = "running"
      BY <1>1, <2>1 DEF HoldInv, DispatcherHolds, Open
    <2>2. CASE main \in {"init_consumer", "init_dispatcher"}
      BY <1>1, <2>2 DEF HoldInv, MainHolds, Open
    <2>3. QED BY <2>1, <2>2
  <1>3. QED BY <1>2, EveryoneHolds, PTL

(* After the closes of main() and of the children, each end is open        *)
(* exactly while the process that uses it lives: end of file and SIGPIPE   *)
(* mean what Dispatch takes them to mean, for any number of consumers.     *)
THEOREM PipesAreWired == StartupSpec => []PipesWired
  <1>1. TypeOK /\ HoldInv => PipesWired
    <2> SUFFICES ASSUME TypeOK, HoldInv, main \in {"setup", "loop"} \union Gone,
                        \A c \in Consumers : consumer[c] # "closing",
                        NEW c \in Consumers
                 PROVE  /\ Open(MsgWrite(c)) <=> dispatcher = "running"
                        /\ Open(AckRead(c)) <=> dispatcher = "running"
                        /\ Open(MsgRead(c)) <=> consumer[c] = "read"
                        /\ Open(AckWrite(c)) <=> consumer[c] = "read"
      BY DEF PipesWired
    <2>1. main_ends = {}
      BY DEF HoldInv, MainHolds, Gone
    <2>2. dispatcher_ends
            = IF dispatcher = "running" THEN UNION {Kept(d) : d \in Consumers} ELSE {}
      <3>1. \A d \in Consumers : d < NUM_CONSUMERS
        BY DEF Consumers
      <3>2. AtFork(NUM_CONSUMERS) = UNION {Kept(d) : d \in Consumers}
        BY <3>1 DEF AtFork
      <3>3. QED BY <3>2 DEF HoldInv, DispatcherHolds
    <2>3. \A d \in Consumers :
            ends[d] = IF consumer[d] = "read" THEN {MsgRead(d), AckWrite(d)} ELSE {}
      BY DEF HoldInv, ConsumerHolds, TypeOK, Gone
    <2>4. ASSUME NEW e
          PROVE  Open(e) <=> \/ dispatcher = "running" /\ \E d \in Consumers : e \in Kept(d)
                             \/ \E d \in Consumers : consumer[d] = "read"
                                                    /\ e \in {MsgRead(d), AckWrite(d)}
      <3>1. Open(e) <=> e \in dispatcher_ends \/ \E d \in Consumers : e \in ends[d]
        BY <2>1 DEF Open
      <3>2. e \in dispatcher_ends
              <=> dispatcher = "running" /\ \E d \in Consumers : e \in Kept(d)
        BY <2>2
      <3>3. \A d \in Consumers :
              e \in ends[d]
                <=> consumer[d] = "read" /\ e \in {MsgRead(d), AckWrite(d)}
        BY <2>3
      <3>4. QED BY <3>1, <3>2, <3>3
    <2> USE DEF Kept, MsgRead, MsgWrite, AckRead, AckWrite
    <2>5. /\ Open(MsgWrite(c)) <=> dispatcher = "running"
          /\ Open(AckRead(c)) <=> dispatcher = "running"
      BY <2>4
    <2>6. /\ Open(MsgRead(c)) <=> consumer[c] = "read"
          /\ Open(AckWrite(c)) <=> consumer[c] = "read"
      BY <2>4
    <2>7. QED BY <2>5, <2>6
  <1>2. QED BY <1>1, EveryoneHolds, PTL

-----------------------------------------------------------------------------
(* What a run does with processes and pipe ends is what Startup allows.    *)

(* Every step of the program, with messages and signals, is one of Startup *)
(* or leaves processes and pipe ends alone.                                *)
THEOREM RunsAreStartups == Spec => StartupSpec
  <1>1. Init => StartupInit
    BY DEF Init
  <1>2. [Next]_vars => [StartupNext]_startupVars
    <2> SUFFICES ASSUME [Next]_vars PROVE [StartupNext]_startupVars
      OBVIOUS
    <2> USE DEF Gone
    <2>1. CASE Start
      BY <2>1 DEF Start, start_fails, StartupNext
    <2>2. CASE StartSend \/ mq_send
      BY <2>2 DEF StartSend, mq_send
    <2>3. CASE run_main_loop \/ poll_fails
      BY <2>3 DEF run_main_loop, poll_fails, StartupNext
    <2>4. CASE mq_receive \/ OrphanReceive
      BY <2>4 DEF mq_receive, OrphanReceive
    <2>5. ASSUME NEW c \in Consumers, WriteToConsumer(c) PROVE [StartupNext]_startupVars
      BY <2>5 DEF WriteToConsumer, StartupNext
    <2>6. ASSUME NEW c \in Consumers, ConsumerStep(c) PROVE [StartupNext]_startupVars
      BY <2>6 DEF ConsumerStep, ReadMessage, increment_counter, SendAck, ReadEof,
                  StartupNext
    <2>7. CASE sig_int
      BY <2>7 DEF sig_int, StartupNext
    <2>8. CASE DieOfSignal
      BY <2>8 DEF DieOfSignal, StartupNext
    <2>9. CASE Restart
      BY <2>9 DEF Restart, StartupNext
    <2>10. CASE UNCHANGED vars
      BY <2>10 DEF vars
    <2>11. QED
      BY <2>1, <2>2, <2>3, <2>4, <2>5, <2>6, <2>7, <2>8, <2>9, <2>10
      DEF Next, DispatcherStep
  <1>3. QED BY <1>1, <1>2, PTL DEF Spec, StartupSpec

(* In every run, whatever fails or is interrupted, no consumer meets end   *)
(* of file while somebody may still write to it.                           *)
THEOREM NoEofInAnyRun == Spec => []NoEarlyEof
  BY RunsAreStartups, EofOnlyAfterDispatcher, PTL

(* In every run the open ends tell which processes are alive.              *)
THEOREM WiredInEveryRun == Spec => []PipesWired
  BY RunsAreStartups, PipesAreWired, PTL

-----------------------------------------------------------------------------
(* Sequences and the sets of their elements.                               *)

LEMMA TakeFirst ==
  ASSUME NEW S, NEW s \in Seq(S), s # <<>>
  PROVE  /\ Head(s) \in S
         /\ Tail(s) \in Seq(S) /\ Len(Tail(s)) = Len(s) - 1
         /\ Elements(s) = {Head(s)} \union Elements(Tail(s))
  <1>1. /\ Head(s) \in S /\ Head(s) = s[1]
        /\ Len(s) \in Nat \ {0} /\ DOMAIN s = 1 .. Len(s)
        /\ Tail(s) \in Seq(S) /\ Len(Tail(s)) = Len(s) - 1
        /\ DOMAIN Tail(s) = 1 .. Len(s) - 1
        /\ \A i \in 1 .. Len(s) - 1 : Tail(s)[i] = s[i + 1]
    OBVIOUS
  <1>2. ASSUME NEW e \in Elements(Tail(s)) PROVE e \in Elements(s)
    <2>1. PICK i \in 1 .. Len(s) - 1 : e = s[i + 1]
      BY <1>1, <1>2 DEF Elements
    <2>2. i + 1 \in DOMAIN s
      BY <1>1, <2>1
    <2>3. QED BY <2>1, <2>2 DEF Elements
  <1>3. ASSUME NEW e \in Elements(s), e # Head(s) PROVE e \in Elements(Tail(s))
    <2>1. PICK i \in DOMAIN s : e = s[i]
      BY <1>3 DEF Elements
    <2>2. i # 1
      BY <1>1, <1>3, <2>1
    <2>3. i - 1 \in 1 .. Len(s) - 1 /\ (i - 1) + 1 = i
      BY <1>1, <2>2
    <2>4. QED BY <1>1, <2>1, <2>3 DEF Elements
  <1>4. Head(s) \in Elements(s)
    BY <1>1 DEF Elements
  <1>5. QED BY <1>1, <1>2, <1>3, <1>4

LEMMA AddLast ==
  ASSUME NEW S, NEW s \in Seq(S), NEW e \in S
  PROVE  /\ Append(s, e) \in Seq(S) /\ Len(Append(s, e)) = Len(s) + 1
         /\ Elements(Append(s, e)) = Elements(s) \union {e}
  <1>1. /\ Append(s, e) \in Seq(S) /\ Len(Append(s, e)) = Len(s) + 1
        /\ Len(s) \in Nat /\ DOMAIN s = 1 .. Len(s)
        /\ DOMAIN Append(s, e) = 1 .. Len(s) + 1
        /\ \A i \in 1 .. Len(s) : Append(s, e)[i] = s[i]
        /\ Append(s, e)[Len(s) + 1] = e
    OBVIOUS
  <1>2. \A i \in 1 .. Len(s) + 1 : i \in 1 .. Len(s) \/ i = Len(s) + 1
    BY <1>1
  <1>3. \A i \in 1 .. Len(s) : i \in 1 .. Len(s) + 1
    BY <1>1
  <1>4. Len(s) + 1 \in 1 .. Len(s) + 1
    BY <1>1
  <1>5. Elements(Append(s, e)) = Elements(s) \union {e}
    BY <1>1, <1>2, <1>3, <1>4 DEF Elements
  <1>6. QED BY <1>1, <1>5

LEMMA One == ASSUME NEW e PROVE Elements(<<e>>) = {e} /\ Elements(<<>>) = {}
  BY DEF Elements

LEMMA AtMostOne ==
  ASSUME NEW S, NEW s \in Seq(S), Len(s) <= 1, s # <<>>
  PROVE  Elements(s) = {Head(s)} /\ Head(s) \in S
  <1>1. Len(s) \in Nat /\ Len(s) # 0 /\ DOMAIN s = 1 .. Len(s)
    OBVIOUS
  <1>2. Len(s) = 1 /\ DOMAIN s = {1}
    BY <1>1
  <1>3. Head(s) = s[1] /\ Head(s) \in S
    OBVIOUS
  <1>4. QED BY <1>2, <1>3 DEF Elements
-----------------------------------------------------------------------------
(* Types and bounds: queue, hand and pipes never hold more than they can,  *)
(* in any run.                                                             *)
THEOREM NaaradTypeCorrect == Spec => []NaaradTypeOK
  <1>1. Init => NaaradTypeOK
    <2>1. StartupInit => TypeOK
      BY DEF StartupInit, TypeOK, Consumers, Gone
    <2>2. <<>> \in Seq(Ids) /\ Len(<<>>) = 0
      OBVIOUS
    <2>3. /\ Empty \in [Consumers -> Seq(Ids)] /\ \A c \in Consumers : Len(Empty[c]) = 0
          /\ NoneUnacked \in [Consumers -> BOOLEAN]
      BY <2>2 DEF Empty, NoneUnacked
    <2>4. ASSUME Init
          PROVE  /\ mq \in Seq(Ids) /\ Len(mq) <= MQ_MAXMSG
                 /\ hand \in Seq(Ids) /\ Len(hand) <= 1
                 /\ pipe \in [Consumers -> Seq(Ids)]
                 /\ \A c \in Consumers : Len(pipe[c]) <= PIPE_CAPACITY
                 /\ taken \in [Consumers -> Seq(Ids)]
                 /\ \A c \in Consumers : Len(taken[c]) <= 1
                 /\ counted \in [Consumers -> Seq(Ids)]
                 /\ unacked \in [Consumers -> BOOLEAN]
      <3>1. /\ mq = <<>> /\ hand = <<>> /\ pipe = Empty
            /\ taken = Empty /\ counted = Empty /\ unacked = NoneUnacked
        BY <2>4 DEF Init
      <3>2. QED BY <2>2, <2>3, <3>1
    <2>5. ASSUME Init
          PROVE  /\ TypeOK
                 /\ posted = 0 /\ runs = 1 /\ orphans = 0
                 /\ received = {} /\ elsewhere = {}
                 /\ sending = FALSE /\ stop = FALSE /\ interrupted = FALSE
      BY <2>1, <2>5 DEF Init
    <2>6. QED BY <2>4, <2>5 DEF NaaradTypeOK
  <1>2. NaaradTypeOK /\ TypeOK' /\ [Next]_vars => NaaradTypeOK'
    <2> SUFFICES ASSUME NaaradTypeOK, TypeOK', [Next]_vars PROVE NaaradTypeOK'
      OBVIOUS
    <2> USE DEF flowVars, consumerVars, loopVars, pastVars
    <2>0. <<>> \in Seq(Ids) /\ Len(<<>>) = 0
      OBVIOUS
    <2>1. CASE Start
      BY <2>1 DEF Start, NaaradTypeOK
    <2>2. CASE StartSend
      BY <2>2 DEF StartSend, NaaradTypeOK
    <2>3. CASE mq_send
      <3>1. mq' \in Seq(Ids) /\ Len(mq') = Len(mq) + 1 /\ Len(mq) \in Nat
        BY <2>3, AddLast DEF mq_send, NaaradTypeOK, Ids
      <3>2. Len(mq') <= MQ_MAXMSG /\ posted' \in Nat
        BY <2>3, <3>1 DEF mq_send, NaaradTypeOK
      <3>3. QED BY <2>3, <3>1, <3>2 DEF mq_send, NaaradTypeOK
    <2>4. CASE run_main_loop \/ poll_fails
      BY <2>4 DEF run_main_loop, poll_fails, NaaradTypeOK
    <2>5. CASE mq_receive
      <3>1. /\ Head(mq) \in Ids /\ mq' \in Seq(Ids) /\ Len(mq') = Len(mq) - 1
            /\ Len(mq) \in Nat
        BY <2>5, TakeFirst DEF mq_receive, NaaradTypeOK
      <3>2. hand' \in Seq(Ids) /\ Len(hand') <= 1
        BY <2>5, <3>1 DEF mq_receive
      <3>3. received' \subseteq Ids
        BY <2>5, <3>1 DEF mq_receive, NaaradTypeOK
      <3>4. QED BY <2>5, <3>1, <3>2, <3>3 DEF mq_receive, NaaradTypeOK
    <2>6. ASSUME NEW c \in Consumers, WriteToConsumer(c) PROVE NaaradTypeOK'
      <3>1. CASE Open(MsgRead(c))
        <4>1. /\ Len(pipe[c]) < PIPE_CAPACITY /\ hand' = <<>>
              /\ pipe' = [pipe EXCEPT ![c] = Append(pipe[c], Head(hand))]
          BY <2>6, <3>1 DEF WriteToConsumer
        <4>2. Head(hand) \in Ids /\ pipe[c] \in Seq(Ids)
          BY <2>6, AtMostOne DEF WriteToConsumer, NaaradTypeOK
        <4>3. /\ Append(pipe[c], Head(hand)) \in Seq(Ids)
              /\ Len(Append(pipe[c], Head(hand))) <= PIPE_CAPACITY
          BY <4>1, <4>2, AddLast
        <4>4. QED BY <2>6, <2>0, <4>1, <4>3 DEF WriteToConsumer, NaaradTypeOK
      <3>2. CASE ~ Open(MsgRead(c))
        BY <2>6, <3>2 DEF WriteToConsumer, NaaradTypeOK
      <3>3. QED BY <3>1, <3>2
    <2>7. ASSUME NEW c \in Consumers, ReadMessage(c) PROVE NaaradTypeOK'
      <3>1. /\ pipe[c] \in Seq(Ids) /\ pipe[c] # <<>> /\ Len(pipe[c]) <= PIPE_CAPACITY
            /\ taken' = [taken EXCEPT ![c] = <<Head(pipe[c])>>]
            /\ pipe' = [pipe EXCEPT ![c] = Tail(pipe[c])]
        BY <2>7 DEF ReadMessage, NaaradTypeOK
      <3>2. /\ Head(pipe[c]) \in Ids /\ Tail(pipe[c]) \in Seq(Ids)
            /\ Len(Tail(pipe[c])) <= PIPE_CAPACITY
        BY <3>1, TakeFirst
      <3>3. <<Head(pipe[c])>> \in Seq(Ids) /\ Len(<<Head(pipe[c])>>) <= 1
        BY <3>2
      <3>4. QED BY <2>7, <3>1, <3>2, <3>3 DEF ReadMessage, NaaradTypeOK
    <2>8. ASSUME NEW c \in Consumers, increment_counter(c) PROVE NaaradTypeOK'
      <3>1. /\ taken[c] \in Seq(Ids) /\ taken[c] # <<>> /\ counted[c] \in Seq(Ids)
            /\ counted' = [counted EXCEPT ![c] = Append(counted[c], Head(taken[c]))]
            /\ taken' = [taken EXCEPT ![c] = <<>>]
        BY <2>8 DEF increment_counter, NaaradTypeOK
      <3>2. Append(counted[c], Head(taken[c])) \in Seq(Ids)
        BY <3>1, TakeFirst, AddLast
      <3>3. QED BY <2>0, <2>8, <3>1, <3>2 DEF increment_counter, NaaradTypeOK
    <2>15. ASSUME NEW c \in Consumers, SendAck(c) \/ ReadEof(c) PROVE NaaradTypeOK'
      BY <2>15 DEF SendAck, ReadEof, NaaradTypeOK
    <2>9. CASE sig_int
      BY <2>9 DEF sig_int, NaaradTypeOK
    <2>10. CASE DieOfSignal
      BY <2>10 DEF DieOfSignal, NaaradTypeOK
    <2>11. CASE OrphanReceive
      <3>1. /\ Head(mq) \in Ids /\ mq' \in Seq(Ids) /\ Len(mq') = Len(mq) - 1
            /\ Len(mq) \in Nat
        BY <2>11, TakeFirst DEF OrphanReceive, NaaradTypeOK
      <3>2. QED BY <2>11, <3>1 DEF OrphanReceive, NaaradTypeOK
    <2>12. CASE Restart
      <3>1. received' \subseteq Ids /\ elsewhere' \subseteq Ids
        BY <2>12 DEF Restart, NaaradTypeOK
      <3>2. /\ Empty \in [Consumers -> Seq(Ids)] /\ \A c \in Consumers : Len(Empty[c]) = 0
            /\ NoneUnacked \in [Consumers -> BOOLEAN]
        BY <2>0 DEF Empty, NoneUnacked
      <3>3. runs' \in Nat /\ orphans' \in Nat
        BY <2>12 DEF Restart, NaaradTypeOK
      <3>4. /\ hand' \in Seq(Ids) /\ Len(hand') <= 1
            /\ pipe' \in [Consumers -> Seq(Ids)]
            /\ \A c \in Consumers : Len(pipe'[c]) <= PIPE_CAPACITY
            /\ taken' \in [Consumers -> Seq(Ids)]
            /\ \A c \in Consumers : Len(taken'[c]) <= 1
            /\ counted' \in [Consumers -> Seq(Ids)]
            /\ unacked' \in [Consumers -> BOOLEAN]
        <4>1. /\ hand' = <<>> /\ pipe' = Empty
              /\ taken' = Empty /\ counted' = Empty /\ unacked' = NoneUnacked
          BY <2>12 DEF Restart
        <4>2. QED BY <2>0, <3>2, <4>1
      <3>5. /\ sending' = FALSE /\ stop' = FALSE /\ interrupted' = FALSE
            /\ mq' = mq /\ posted' = posted
        BY <2>12 DEF Restart
      <3>6. QED BY <3>1, <3>3, <3>4, <3>5 DEF NaaradTypeOK
    <2>13. CASE UNCHANGED vars
      BY <2>13 DEF vars, NaaradTypeOK
    <2>14. QED
      BY <2>1, <2>2, <2>3, <2>4, <2>5, <2>6, <2>7, <2>8, <2>9, <2>10, <2>11,
         <2>12, <2>13, <2>15
      DEF Next, DispatcherStep, ConsumerStep
  <1>3. QED BY <1>1, <1>2, RunsAreStartups, StartupTypeCorrect, PTL DEF Spec
-----------------------------------------------------------------------------
(* What becomes of messages.                                               *)

(* Every message sent is in the queue or has been received by a dispatcher. *)
SentInv == \A n \in 1 .. posted : n \in Elements(mq) \union received \union elsewhere

(* What was received has been counted, or is with a process that has it or  *)
(* had it when it was killed.                                              *)
TraceInv ==
  \A n \in received :
    \/ n \in Elements(hand)
    \/ \E c \in Consumers :
         n \in Elements(pipe[c]) \union Elements(taken[c]) \union Elements(counted[c])

(* A consumer that has met end of file leaves nothing, and nobody will be   *)
(* there to write to it: main() and the dispatcher had to be gone first.    *)
EofInv ==
  /\ dispatcher # "exited"
  /\ hand # <<>> => dispatcher # "unborn"
  /\ \A c \in Consumers :
       consumer[c] = "exited" =>
         /\ dispatcher # "running"
         /\ main \notin {"init_pipe", "init_consumer", "init_dispatcher"}
         /\ pipe[c] = <<>> /\ taken[c] = <<>>

LossInv == SentInv /\ TraceInv /\ EofInv

(* A step that moves no message and ends nobody at end of file.            *)
LEMMA NoneMoved ==
  ASSUME LossInv, UNCHANGED <<posted, mq, hand, received, elsewhere, pipe, taken, counted>>,
         EofInv'
  PROVE  LossInv'
  BY DEF LossInv, SentInv, TraceInv

LEMMA SendLoss == ASSUME NaaradTypeOK, LossInv, mq_send PROVE LossInv'
  <1>1. /\ mq' = Append(mq, posted + 1) /\ posted' = posted + 1
        /\ mq \in Seq(Ids) /\ posted \in Nat /\ posted + 1 \in Ids
        /\ UNCHANGED <<hand, received, elsewhere, pipe, taken, counted, main, dispatcher,
                       consumer>>
    BY DEF mq_send, NaaradTypeOK, flowVars, consumerVars, pastVars, startupVars,
           mainVars, childVars, Ids
  <1>2. Elements(mq') = Elements(mq) \union {posted + 1}
    BY <1>1, AddLast
  <1>3. \A n \in 1 .. posted + 1 : n \in 1 .. posted \/ n = posted + 1
    BY <1>1
  <1>4. SentInv'
    BY <1>1, <1>2, <1>3 DEF LossInv, SentInv
  <1>5. QED BY <1>1, <1>4 DEF LossInv, TraceInv, EofInv

LEMMA ReceiveLoss == ASSUME NaaradTypeOK, LossInv, mq_receive PROVE LossInv'
  <1>1. /\ hand = <<>> /\ hand' = <<Head(mq)>> /\ mq' = Tail(mq)
        /\ received' = received \union {Head(mq)}
        /\ mq \in Seq(Ids) /\ mq # <<>> /\ dispatcher = "running"
        /\ UNCHANGED <<posted, elsewhere, pipe, taken, counted, main, dispatcher, consumer>>
    BY DEF mq_receive, NaaradTypeOK, consumerVars, loopVars, pastVars, startupVars,
           mainVars, childVars
  <1>2. Elements(mq) = {Head(mq)} \union Elements(mq')
    BY <1>1, TakeFirst
  <1>3. Elements(hand) = {} /\ Elements(hand') = {Head(mq)}
    BY <1>1, One
  <1>4. SentInv'
    BY <1>1, <1>2 DEF LossInv, SentInv
  <1>5. TraceInv'
    BY <1>1, <1>3 DEF LossInv, TraceInv
  <1>6. EofInv'
    BY <1>1 DEF LossInv, EofInv
  <1>7. QED BY <1>4, <1>5, <1>6 DEF LossInv

LEMMA OrphanLoss == ASSUME NaaradTypeOK, LossInv, OrphanReceive PROVE LossInv'
  <1>1. /\ elsewhere' = elsewhere \union {Head(mq)} /\ mq' = Tail(mq)
        /\ mq \in Seq(Ids) /\ mq # <<>>
        /\ UNCHANGED <<posted, hand, received, pipe, taken, counted, main, dispatcher,
                       consumer>>
    BY DEF OrphanReceive, NaaradTypeOK, loopVars, flowVars, consumerVars, startupVars,
           mainVars, childVars
  <1>2. Elements(mq) = {Head(mq)} \union Elements(mq')
    BY <1>1, TakeFirst
  <1>3. SentInv'
    BY <1>1, <1>2 DEF LossInv, SentInv
  <1>4. QED BY <1>1, <1>3 DEF LossInv, TraceInv, EofInv

LEMMA WriteLoss ==
  ASSUME NaaradTypeOK, LossInv, NEW c \in Consumers, WriteToConsumer(c)
  PROVE  LossInv'
  <1>1. CASE Open(MsgRead(c))
    <2>1. /\ hand \in Seq(Ids) /\ Len(hand) <= 1 /\ hand # <<>> /\ hand' = <<>>
          /\ pipe \in [Consumers -> Seq(Ids)] /\ dispatcher = "running"
          /\ pipe' = [pipe EXCEPT ![c] = Append(pipe[c], Head(hand))]
          /\ UNCHANGED <<posted, mq, received, elsewhere, taken, counted, main, dispatcher,
                         consumer>>
      BY <1>1 DEF WriteToConsumer, NaaradTypeOK, loopVars, pastVars, consumerVars,
                  startupVars, mainVars, childVars
    <2>2. Elements(hand) = {Head(hand)} /\ Head(hand) \in Ids
      BY <2>1, AtMostOne
    <2>3. /\ Elements(pipe'[c]) = Elements(pipe[c]) \union {Head(hand)}
          /\ \A d \in Consumers : d # c => pipe'[d] = pipe[d]
      BY <2>1, <2>2, AddLast
    <2>4. TraceInv'
      BY <2>1, <2>2, <2>3 DEF LossInv, TraceInv
    <2>5. EofInv'
      BY <2>1, <2>3 DEF LossInv, EofInv
    <2>6. QED BY <2>1, <2>4, <2>5 DEF LossInv, SentInv
  <1>2. CASE ~ Open(MsgRead(c))
    <2>1. EofInv'
      BY <1>2 DEF WriteToConsumer, DispatcherEnds, LossInv, EofInv, consumerVars, mainVars
    <2>2. QED BY <1>2, <2>1, NoneMoved DEF WriteToConsumer, loopVars, pastVars, consumerVars
  <1>3. QED BY <1>1, <1>2

LEMMA ReadLoss ==
  ASSUME NaaradTypeOK, LossInv, NEW c \in Consumers, ReadMessage(c)
  PROVE  LossInv'
  <1>1. /\ pipe[c] \in Seq(Ids) /\ pipe[c] # <<>> /\ consumer[c] = "read"
        /\ pipe'[c] = Tail(pipe[c]) /\ taken'[c] = <<Head(pipe[c])>>
        /\ \A d \in Consumers : d # c => pipe'[d] = pipe[d] /\ taken'[d] = taken[d]
        /\ UNCHANGED <<posted, mq, hand, received, elsewhere, counted, main, dispatcher,
                       consumer>>
    BY DEF ReadMessage, Reading, NaaradTypeOK, loopVars, pastVars, startupVars,
           mainVars, childVars
  <1>2. /\ Elements(pipe[c]) = {Head(pipe[c])} \union Elements(pipe'[c])
        /\ Elements(taken'[c]) = {Head(pipe[c])} /\ taken[c] = <<>>
        /\ Elements(taken[c]) = {}
    BY <1>1, TakeFirst, One DEF ReadMessage, Reading
  <1>3. TraceInv'
    BY <1>1, <1>2 DEF LossInv, TraceInv
  <1>4. QED BY <1>1, <1>3 DEF LossInv, SentInv, EofInv

LEMMA CountLoss ==
  ASSUME NaaradTypeOK, LossInv, NEW c \in Consumers, increment_counter(c)
  PROVE  LossInv'
  <1>1. /\ taken[c] \in Seq(Ids) /\ taken[c] # <<>> /\ Len(taken[c]) <= 1
        /\ counted[c] \in Seq(Ids) /\ consumer[c] = "read"
        /\ taken'[c] = <<>> /\ counted'[c] = Append(counted[c], Head(taken[c]))
        /\ \A d \in Consumers : d # c => taken'[d] = taken[d] /\ counted'[d] = counted[d]
        /\ UNCHANGED <<posted, mq, hand, received, elsewhere, pipe, main, dispatcher,
                       consumer>>
    BY DEF increment_counter, NaaradTypeOK, loopVars, pastVars, startupVars, mainVars,
           childVars
  <1>2. Elements(taken[c]) = {Head(taken[c])} /\ Head(taken[c]) \in Ids
    BY <1>1, AtMostOne
  <1>3. Elements(counted'[c]) = Elements(counted[c]) \union {Head(taken[c])}
    BY <1>1, <1>2, AddLast
  <1>4. TraceInv'
    BY <1>1, <1>2, <1>3 DEF LossInv, TraceInv
  <1>5. QED BY <1>1, <1>4 DEF LossInv, SentInv, EofInv

(* At end of file neither main() nor the dispatcher can be there to write. *)
LEMMA EofLoss ==
  ASSUME NaaradTypeOK, HoldInv, NoEarlyEof, LossInv, NEW c \in Consumers, ReadEof(c)
  PROVE  LossInv'
  <1>1. /\ consumer[c] = "read" /\ pipe[c] = <<>> /\ taken[c] = <<>>
        /\ ~ Open(MsgWrite(c))
        /\ consumer' = [consumer EXCEPT ![c] = "exited"]
        /\ UNCHANGED <<posted, mq, hand, received, elsewhere, pipe, taken, counted, main,
                       dispatcher>>
    BY DEF ReadEof, Reading, ConsumerEnds, flowVars, consumerVars, loopVars, pastVars,
           mainVars
  <1>2. /\ dispatcher # "running"
        /\ main \notin {"init_pipe", "init_consumer", "init_dispatcher"}
    BY <1>1 DEF NoEarlyEof, HoldInv, Unborn
  <1>3. EofInv'
    BY <1>1, <1>2 DEF LossInv, EofInv, NaaradTypeOK, TypeOK
  <1>4. QED BY <1>1, <1>3, NoneMoved

LEMMA RestartLoss == ASSUME NaaradTypeOK, LossInv, Restart PROVE LossInv'
  <1>1. /\ elsewhere' = elsewhere \union received /\ received' = {}
        /\ dispatcher' = "unborn" /\ hand' = <<>>
        /\ \A c \in Consumers : consumer'[c] = "unborn"
        /\ UNCHANGED <<mq, posted>>
    BY DEF Restart, StartAgain
  <1>2. QED BY <1>1 DEF LossInv, SentInv, TraceInv, EofInv

(* No step of a process's start, and no death, makes EofInv false.         *)
LEMMA EofFrame ==
  ASSUME NaaradTypeOK, EofInv, UNCHANGED <<hand, pipe, taken, consumer>>,
         dispatcher' # "exited", dispatcher # "unborn" => dispatcher' # "unborn",
         \/ dispatcher' = "running" => dispatcher = "running"
         \/ main = "init_dispatcher",
         \/ main' \in {"init_pipe", "init_consumer", "init_dispatcher"}
              => main \in {"init_pipe", "init_consumer", "init_dispatcher"}
  PROVE  EofInv'
  BY DEF EofInv

LEMMA ConsumerEof ==
  ASSUME NaaradTypeOK, EofInv, UNCHANGED <<hand, pipe, taken, dispatcher>>,
         NEW c \in Consumers, NEW place, place # "exited",
         consumer' = [consumer EXCEPT ![c] = place],
         main' = main \/ main = "init_consumer"
  PROVE  EofInv'
  BY DEF EofInv, NaaradTypeOK, TypeOK

LEMMA StartEof ==
  ASSUME NaaradTypeOK, EofInv, UNCHANGED <<hand, pipe, taken>>,
         \/ MainStarts \/ DispatcherEnds("killed") \/ UNCHANGED startupVars
         \/ \E how \in Gone : MainEnds(how)
         \/ \E c \in Consumers : ConsumerEnds(c, "killed") \/ close_others(c)
  PROVE  EofInv'
  <1> USE DEF mainVars, childVars
  <1>1. CASE init_pipe
    <2>1. UNCHANGED <<consumer, dispatcher>> /\ main = "init_pipe"
      BY <1>1 DEF init_pipe
    <2>2. QED BY <2>1, EofFrame DEF EofInv
  <1>2. CASE init_consumer
    <2>1. next \in Consumers
      BY DEF NaaradTypeOK, TypeOK
    <2>2. /\ main = "init_consumer" /\ dispatcher' = dispatcher
          /\ consumer' = [consumer EXCEPT ![next] = "closing"]
      BY <1>2 DEF init_consumer
    <2>3. QED BY <2>1, <2>2, ConsumerEof
  <1>3. CASE init_dispatcher
    <2>1. /\ consumer' = consumer /\ dispatcher' = "running"
          /\ main = "init_dispatcher" /\ main' = "close"
      BY <1>3 DEF init_dispatcher
    <2>2. QED BY <2>1, EofFrame
  <1>4. CASE close_pipes \/ setup
    <2>1. UNCHANGED <<consumer, dispatcher>> /\ main' \in {"setup", "loop"}
      BY <1>4 DEF close_pipes, setup
    <2>2. QED BY <2>1, EofFrame DEF EofInv
  <1>5. CASE DispatcherEnds("killed")
    <2>1. UNCHANGED <<consumer, main>> /\ dispatcher' = "killed"
      BY <1>5 DEF DispatcherEnds
    <2>2. QED BY <2>1, EofFrame
  <1>6. CASE UNCHANGED startupVars
    <2>1. UNCHANGED <<consumer, main, dispatcher>>
      BY <1>6 DEF startupVars
    <2>2. QED BY <2>1, EofFrame DEF EofInv
  <1>7. ASSUME NEW how \in Gone, MainEnds(how) PROVE EofInv'
    <2>1. UNCHANGED <<consumer, dispatcher>> /\ main' \in {"exited", "killed"}
      BY <1>7 DEF MainEnds, Gone
    <2>2. QED BY <2>1, EofFrame DEF EofInv
  <1>8. ASSUME NEW c \in Consumers, ConsumerEnds(c, "killed") \/ close_others(c)
        PROVE  EofInv'
    <2>1. /\ UNCHANGED <<main, dispatcher>>
          /\ \/ consumer' = [consumer EXCEPT ![c] = "killed"]
             \/ consumer' = [consumer EXCEPT ![c] = "read"]
      BY <1>8 DEF ConsumerEnds, close_others
    <2>2. QED BY <2>1, ConsumerEof
  <1>9. QED BY <1>1, <1>2, <1>3, <1>4, <1>5, <1>6, <1>7, <1>8 DEF MainStarts

(* The steps of the start, and deaths: no message moves.                   *)
LEMMA StartLoss ==
  ASSUME NaaradTypeOK, LossInv,
         \/ Start \/ StartSend \/ run_main_loop \/ poll_fails
         \/ sig_int \/ DieOfSignal
         \/ \E c \in Consumers : SendAck(c)
         \/ UNCHANGED vars
  PROVE  LossInv'
  <1> USE DEF flowVars, consumerVars, loopVars, pastVars
  <1>1. UNCHANGED <<posted, mq, hand, received, elsewhere, pipe, taken, counted>>
    BY DEF Start, StartSend, run_main_loop, poll_fails, sig_int, DieOfSignal, SendAck, vars
  <1>2. \/ MainStarts \/ DispatcherEnds("killed") \/ UNCHANGED startupVars
        \/ \E how \in Gone : MainEnds(how)
        \/ \E c \in Consumers : ConsumerEnds(c, "killed") \/ close_others(c)
    BY DEF Start, start_fails, StartSend, run_main_loop, poll_fails, sig_int,
           DieOfSignal, SendAck, vars, Gone
  <1>3. EofInv'
    BY <1>1, <1>2, StartEof DEF LossInv
  <1>4. QED BY <1>1, <1>3, NoneMoved

(* Through any number of runs, of orphan dispatchers and of messages, a    *)
(* message that reached /test_queue is lost only with a process that was   *)
(* killed: main() may end, start again, or leave its children behind, and  *)
(* consumers that meet end of file have counted all they were given.       *)
THEOREM NoLossWithoutDeath == Spec => []LossNeedsDeath
  <1>1. Init => LossInv
    BY DEF Init, StartupInit, LossInv, SentInv, TraceInv, EofInv
  <1>2. NaaradTypeOK /\ HoldInv /\ NoEarlyEof /\ LossInv /\ [Next]_vars => LossInv'
    BY SendLoss, ReceiveLoss, OrphanLoss, WriteLoss, ReadLoss, CountLoss, EofLoss,
       RestartLoss, StartLoss
    DEF Next, DispatcherStep, ConsumerStep
  <1>3. NaaradTypeOK /\ LossInv => LossNeedsDeath
    <2> SUFFICES ASSUME NaaradTypeOK, LossInv PROVE LossNeedsDeath
      OBVIOUS
    <2>1. 1 .. posted \subseteq Elements(mq) \union received \union elsewhere
      BY DEF LossInv, SentInv
    <2>2. ASSUME NEW n \in Lost
          PROVE  \/ dispatcher = "killed" /\ n \in Elements(hand)
                 \/ \E c \in Consumers :
                      /\ consumer[c] = "killed"
                      /\ n \in Elements(pipe[c]) \union Elements(taken[c])
      <3>1. n \in received /\ n \notin OnItsWay /\ \A c \in Consumers : n \notin Elements(counted[c])
        BY DEF Lost
      <3>2. CASE n \in Elements(hand)
        <4>1. hand # <<>>
          BY <3>2, One
        <4>2. dispatcher \notin {"running", "unborn", "exited"}
          BY <3>1, <3>2, <4>1 DEF OnItsWay, LossInv, EofInv
        <4>3. QED BY <3>2, <4>2 DEF NaaradTypeOK, TypeOK, Gone
      <3>3. CASE n \notin Elements(hand)
        <4>1. PICK c \in Consumers : n \in Elements(pipe[c]) \union Elements(taken[c])
          BY <3>1, <3>3 DEF LossInv, TraceInv
        <4>2. consumer[c] \in Gone
          BY <3>1, <4>1 DEF OnItsWay
        <4>3. consumer[c] # "exited"
          BY <4>1, One DEF LossInv, EofInv
        <4>4. QED BY <4>1, <4>2, <4>3 DEF Gone
      <3>4. QED BY <3>2, <3>3
    <2>3. QED BY <2>1, <2>2 DEF LossNeedsDeath
  <1>4. QED
    BY <1>1, <1>2, <1>3, NaaradTypeCorrect, NoEofInAnyRun, RunsAreStartups,
       EveryoneHolds, PTL
    DEF Spec
=============================================================================
