----------------------------- MODULE EventPath -----------------------------
(***************************************************************************)
(* The way of an event through the main process: a hook outputs it to the  *)
(* perf ring of its CPU; the main loop drains the rings CPU by CPU; and    *)
(* handle_event() looks up the operation, counts it, records it in the     *)
(* queue of recent events and sends it to the dispatcher, which is here no *)
(* more than something that takes messages while it lives.                 *)
(***************************************************************************)
EXTENDS Hooks

CONSTANTS
  RING_CAPACITY,  (* events that fit in the perf ring of a CPU               *)
  MQ_MAXMSG,      (* messages that fit in the message queue                  *)
  MayInterrupt    (* may SIGINT arrive, or the dispatcher die?               *)

ASSUME EventPathAssumption ==
  /\ RING_CAPACITY \in Nat \ {0}
  /\ MQ_MAXMSG \in Nat \ {0}
  /\ MayInterrupt \in BOOLEAN

(* The map init_operation_map() builds.                                    *)
OperationMap ==
  [open |-> 0, read |-> 1, write |-> 2, create |-> 3, link |-> 4, unlink |-> 5,
   syslink |-> 6, mkdir |-> 7, rmdir |-> 8, mknod |-> 9, rename |-> 10]

OP_UNKNOWN == 255
Codes == 0 .. 10

(* handle_event()'s use of get().                                          *)
CodeOf(operation) ==
  IF operation \in DOMAIN OperationMap THEN OperationMap[operation] ELSE OP_UNKNOWN

VARIABLES
  ring,         (* per CPU, the events in its perf ring, oldest first        *)
  kept,         (* ghost: per CPU, every event its ring had room for         *)
  stop,         (* set by sig_int()                                          *)
  main,         (* what the main thread is about to do                       *)
  ready,        (* CPUs this perf_buffer__poll has still to process          *)
  cpu,          (* the CPU whose ring is being processed,                    *)
  batch,        (* the events in it when processing began,                   *)
  done,         (* and how many of them handle_event was called for          *)
  counters,     (* OperationCounters, by operation code                      *)
  recorded,     (* events passed to pushRear, in order                       *)
  sent,         (* number of events passed to producer and sent              *)
  queue,        (* messages in the message queue                             *)
  dispatching   (* does the dispatcher live?                                 *)

ringVars   == <<ring, kept>>
loopVars   == <<stop, main, ready, cpu, batch, done>>
handleVars == <<counters, recorded, sent>>
queueVars  == <<queue, dispatching>>
vars == <<hooksVars, ringVars, loopVars, handleVars, queueVars>>

TypeOK ==
  /\ HooksTypeOK
  /\ ring \in [CPUs -> Seq(Event)] /\ kept \in [CPUs -> Seq(Event)]
  /\ \A c \in CPUs : Len(ring[c]) <= RING_CAPACITY
  /\ stop \in BOOLEAN
  /\ main \in {"test", "poll", "process", "count", "push", "send", "stopped"}
  /\ ready \subseteq CPUs /\ cpu \in CPUs
  /\ batch \in 0 .. RING_CAPACITY /\ done \in 0 .. batch
  /\ counters \in [Codes -> Nat]
  /\ recorded \in Seq(Event) /\ sent \in Nat
  /\ queue \in 0 .. MQ_MAXMSG /\ dispatching \in BOOLEAN

Init ==
  /\ HooksInit
  /\ ring = [c \in CPUs |-> <<>>] /\ kept = [c \in CPUs |-> <<>>]
  /\ stop = FALSE /\ main = "test" /\ ready = {} /\ cpu \in CPUs
  /\ batch = 0 /\ done = 0
  /\ counters = [k \in Codes |-> 0] /\ recorded = <<>> /\ sent = 0
  /\ queue = 0 /\ dispatching = TRUE

-----------------------------------------------------------------------------
(* The hooks, attached until main() returns.                               *)

RunHook ==
  /\ main # "stopped"
  /\ Prepare
  /\ UNCHANGED <<ringVars, loopVars, handleVars, queueVars>>

(* Mutant of Output: the ring is taken to have room always.                *)
OutputAnyway(e) ==
  /\ ring' = [ring EXCEPT ![e.cpu] = Append(@, e)]
  /\ kept' = [kept EXCEPT ![e.cpu] = Append(@, e)]

(* bpf_perf_event_output(): when the ring is full the event is lost.       *)
Output(e) ==
  IF Len(ring[e.cpu]) < RING_CAPACITY
  THEN /\ ring' = [ring EXCEPT ![e.cpu] = Append(@, e)]
       /\ kept' = [kept EXCEPT ![e.cpu] = Append(@, e)]
  ELSE UNCHANGED ringVars

OutputEvent(t) ==
  /\ main # "stopped"
  /\ submit_event(t)
  /\ Output(EventOf(hook[t]))
  /\ UNCHANGED <<loopVars, handleVars, queueVars>>

-----------------------------------------------------------------------------
(* The main loop.                                                          *)

sig_int ==
  /\ MayInterrupt
  /\ ~ stop
  /\ main # "stopped"
  /\ stop' = TRUE
  /\ UNCHANGED <<hooksVars, ringVars, main, ready, cpu, batch, done, handleVars, queueVars>>

(* while (!stop)                                                           *)
run_main_loop ==
  /\ main = "test"
  /\ main' = IF stop THEN "stopped" ELSE "poll"
  /\ UNCHANGED <<hooksVars, ringVars, stop, ready, cpu, batch, done, handleVars, queueVars>>

(* Mutants of poll: epoll_wait() waits without a timeout and is restarted  *)
(* after a signal; a ring is not reported before it holds two events.      *)
PollForEver ==
  /\ main = "poll"
  /\ ready' = {c \in CPUs : ring[c] # <<>>}
  /\ ready' # {}
  /\ main' = "process"
  /\ UNCHANGED <<hooksVars, ringVars, stop, cpu, batch, done, handleVars, queueVars>>

WakeUpAtTwo ==
  /\ main = "poll"
  /\ ready' = {c \in CPUs : Len(ring[c]) >= 2}
  /\ main' = IF ready' # {} THEN "process" ELSE "test"
  /\ UNCHANGED <<hooksVars, ringVars, stop, cpu, batch, done, handleVars, queueVars>>

(* perf_buffer__poll(): epoll_wait() reports the rings with something in   *)
(* them; when there are none it times out, or a signal interrupts it.      *)
poll ==
  /\ main = "poll"
  /\ ready' = {c \in CPUs : ring[c] # <<>>}
  /\ main' = IF ready' # {} THEN "process" ELSE "test"
  /\ UNCHANGED <<hooksVars, ringVars, stop, cpu, batch, done, handleVars, queueVars>>

(* perf_event_read_simple() for one ready CPU: read data_head once.        *)
process_records ==
  /\ main = "process"
  /\ \/ /\ ready = {}
        /\ main' = "test"
        /\ UNCHANGED <<ready, cpu, batch, done>>
     \/ \E c \in ready :
        /\ ready' = ready \ {c}
        /\ cpu' = c /\ batch' = Len(ring[c]) /\ done' = 0
        /\ main' = "count"
  /\ UNCHANGED <<hooksVars, ringVars, stop, handleVars, queueVars>>

Current == ring[cpu][done + 1]

(* Mutant of increment_counter: a case falls through to the next.          *)
CountTwo ==
  /\ main = "count"
  /\ LET k == CodeOf(Current.operation)
     IN  counters' = [j \in Codes |-> IF j \in {k, k + 1} THEN counters[j] + 1
                                      ELSE counters[j]]
  /\ main' = "push"
  /\ UNCHANGED <<hooksVars, ringVars, stop, ready, cpu, batch, done, recorded, sent, queueVars>>

(* handle_event(): fill the Message and count it ...                       *)
increment_counter ==
  /\ main = "count"
  /\ LET k == CodeOf(Current.operation)
     IN  counters' = IF k \in Codes THEN [counters EXCEPT ![k] = @ + 1] ELSE counters
  /\ main' = "push"
  /\ UNCHANGED <<hooksVars, ringVars, stop, ready, cpu, batch, done, recorded, sent, queueVars>>

(* ... record it ...                                                       *)
pushRear ==
  /\ main = "push"
  /\ recorded' = Append(recorded, Current)
  /\ main' = "send"
  /\ UNCHANGED <<hooksVars, ringVars, stop, ready, cpu, batch, done, counters, sent, queueVars>>

(* mq_send() to a blocking queue returns when there is room.  A signal does *)
(* not end it: the handler is installed with signal(), which restarts it.  *)
Send ==
  /\ queue < MQ_MAXMSG
  /\ queue' = queue + 1
  /\ sent' = sent + 1

(* Mutant of producer: data_tail is set to the head of the ring as it is   *)
(* when the batch ends.                                                    *)
DropAll ==
  /\ main = "send"
  /\ Send
  /\ done' = done + 1
  /\ IF done + 1 < batch
     THEN main' = "count" /\ UNCHANGED ring
     ELSE /\ main' = "process"
          /\ ring' = [ring EXCEPT ![cpu] = <<>>]
  /\ UNCHANGED <<hooksVars, kept, stop, ready, cpu, batch, counters, recorded, dispatching>>

(* ... and send it.  After the last event of the batch data_tail is        *)
(* written, which makes room in the ring.                                  *)
producer ==
  /\ main = "send"
  /\ Send
  /\ done' = done + 1
  /\ IF done + 1 < batch
     THEN main' = "count" /\ UNCHANGED ring
     ELSE /\ main' = "process"
          /\ ring' = [ring EXCEPT ![cpu] = SubSeq(@, batch + 1, Len(@))]
  /\ UNCHANGED <<hooksVars, kept, stop, ready, cpu, batch, counters, recorded, dispatching>>

MainStep ==
  run_main_loop \/ poll \/ process_records
    \/ increment_counter \/ pushRear \/ producer

(* The dispatcher receives a message; and it may die at any moment: Ctrl+C *)
(* ends it, as does the death of a consumer.                               *)
dispatcher_receives ==
  /\ dispatching /\ queue > 0
  /\ queue' = queue - 1
  /\ UNCHANGED <<hooksVars, ringVars, loopVars, handleVars, dispatching>>

dispatcher_dies ==
  /\ MayInterrupt
  /\ dispatching
  /\ dispatching' = FALSE
  /\ UNCHANGED <<hooksVars, ringVars, loopVars, handleVars, queue>>

Next ==
  \/ RunHook
  \/ \E t \in Tasks : OutputEvent(t)
  \/ sig_int
  \/ MainStep
  \/ dispatcher_receives
  \/ dispatcher_dies

Spec == Init /\ [][Next]_vars

(* The main thread runs, and so does the dispatcher while it lives.        *)
FairSpec == Spec /\ WF_vars(MainStep) /\ WF_vars(dispatcher_receives)

-----------------------------------------------------------------------------
(* Properties.                                                             *)

(* What handle_event has still to be called for, or to record.             *)
Pending(c) ==
  IF c # cpu \/ main \notin {"count", "push", "send"} THEN ring[c]
  ELSE SubSeq(ring[c], IF main = "send" THEN done + 2 ELSE done + 1, Len(ring[c]))

(* The recorded events of a CPU, and which of them the n-th recorded is.   *)
RecordedOf(c) == {n \in DOMAIN recorded : recorded[n].cpu = c}
Place(n) == Cardinality({m \in RecordedOf(recorded[n].cpu) : m <= n})

(* Between the output of an event to a ring with room and pushRear nothing *)
(* is lost, repeated or put out of the order of its CPU, though the ring   *)
(* fills while it is drained: the events recorded of a CPU are the first   *)
(* its ring was given, in that order, and the others are still in the ring. *)
PerCpuOrder ==
  /\ \A n \in DOMAIN recorded :
       LET c == recorded[n].cpu
       IN  Place(n) <= Len(kept[c]) /\ recorded[n] = kept[c][Place(n)]
  /\ \A c \in CPUs :
       Pending(c) = SubSeq(kept[c], Cardinality(RecordedOf(c)) + 1, Len(kept[c]))

(* The counters the TUI thread may read at any moment agree with the       *)
(* recorded events but for the one being handled, and so does the number   *)
(* of events sent to the dispatcher.                                       *)
CountersTrack ==
  /\ \A k \in Codes :
       counters[k] = Cardinality({n \in DOMAIN recorded :
                                    CodeOf(recorded[n].operation) = k})
                     + (IF main = "push" /\ CodeOf(Current.operation) = k THEN 1 ELSE 0)
  /\ sent = Len(recorded) - (IF main = "send" THEN 1 ELSE 0)

(* Every event a ring had room for is recorded, unless the program is      *)
(* interrupted or its dispatcher dies.                                     *)
EventuallyRecorded ==
  \A c \in CPUs : \A n \in 1 .. 2 * MaxCalls :
    (Len(kept[c]) >= n) ~>
      (Cardinality(RecordedOf(c)) >= n \/ stop \/ ~ dispatching)

(* After SIGINT the main loop ends, but for one case: it stays in the send *)
(* of an event to a queue that is full and has no dispatcher any more.     *)
SigIntStops ==
  stop ~> \/ main = "stopped"
          \/ main = "send" /\ queue = MQ_MAXMSG /\ ~ dispatching

(* tui.h:19 "Structure to hold all operation counters": every operation    *)
(* that reaches handle_event has its counter.                              *)
OperationsCounted ==
  \A n \in DOMAIN recorded : CodeOf(recorded[n].operation) \in Codes
=============================================================================
