--------------------------- MODULE LockFreeQueue ---------------------------
(***************************************************************************)
(* The queue of recent events, include/tui/lock_free_queue.c: a linked     *)
(* list with a dummy node at its head, filled and trimmed by the main      *)
(* thread (pushRear, popFront, at exit freeDequeue) and walked by the TUI  *)
(* thread (displayEntries) without any lock.                               *)
(*                                                                         *)
(* Only the main thread writes.  A step is one shared access of it, or one *)
(* access the TUI thread makes to memory the main thread may be writing.   *)
(* A node's message is reduced to two of its fields, each holding the      *)
(* serial number of the event it came from.  free() leaves a node's bytes  *)
(* in place but for the first sixteen, where op is, and malloc() may give  *)
(* out a freed node again, with whatever is left in it.                    *)
(***************************************************************************)
EXTENDS Naturals, Sequences, FiniteSets

CONSTANTS
  MAX_ENTRIES,  (* events the queue keeps                                    *)
  Nodes,        (* the addresses malloc() may return                         *)
  NULL,
  MaxEvents,    (* bound: events ever handed to pushRear                     *)
  WeakMayFail,  (* may atomic_compare_exchange_weak fail spuriously?         *)
  MayExit       (* does the main loop end, and freeDequeue run?              *)

Garbage == 0

ASSUME QueueAssumption ==
  /\ MAX_ENTRIES \in Nat \ {0}
  /\ IsFiniteSet(Nodes) /\ Nodes # {} /\ NULL \notin Nodes
  /\ MaxEvents \in Nat
  /\ WeakMayFail \in BOOLEAN
  /\ MayExit \in BOOLEAN

VARIABLES
  head, tail, size,   (* dq                                                  *)
  live,               (* nodes malloc() gave out and free() did not take back *)
  op, file, next,     (* what is in each node's memory                       *)
  main,               (* what the main thread is about to do                 *)
  new_node,           (* its locals: the node being pushed,                  *)
  m_head, m_tail, m_next, (* and what it loaded                              *)
  events,             (* ghost: events handed to pushRear so far             *)
  linked,             (* ghost: serials of the events linked in, in order    *)
  tui,                (* what the TUI thread is about to do                  *)
  current, index,     (* its locals in displayEntries,                       *)
  t_op,               (* the op it has copied of the entry it is at,         *)
  array,              (* and the entries copied: <<serial of op, of file>>   *)
  start,              (* ghost: Len(linked) when the walk began              *)
  disturbed           (* ghost: was a node the walk may reach ever freed?      *)

dqVars   == <<head, tail, size>>
heapVars == <<live, op, file, next>>
mainVars == <<main, new_node, m_head, m_tail, m_next, events, linked>>
tuiVars  == <<tui, current, index, t_op, array, start, disturbed>>
vars == <<dqVars, heapVars, mainVars, tuiVars>>

NodeOrNull == Nodes \union {NULL}

MainStates ==
  {"idle", "storeOp", "storeFile", "storeNext", "load", "casNext", "helpTail",
   "casTail", "fetchAdd", "popLoad", "popHelp", "popCas", "fetchSub", "popFree",
   "freeLoad", "freeNext", "clear", "freed", "exited"}
TuiStates == {"idle", "loadFirst", "test", "readFile", "advance", "crashed"}

TypeOK ==
  /\ head \in NodeOrNull /\ tail \in NodeOrNull /\ size \in 0 .. MAX_ENTRIES + 1
  /\ live \subseteq Nodes
  /\ op \in [Nodes -> Nat] /\ file \in [Nodes -> Nat]
  /\ next \in [Nodes -> NodeOrNull]
  /\ main \in MainStates
  /\ new_node \in NodeOrNull
  /\ m_head \in NodeOrNull /\ m_tail \in NodeOrNull /\ m_next \in NodeOrNull
  /\ events \in Nat /\ linked \in Seq(Nat)
  /\ tui \in TuiStates
  /\ current \in NodeOrNull /\ index \in 0 .. MAX_ENTRIES /\ t_op \in Nat
  /\ array \in Seq(Nat \X Nat) /\ Len(array) <= MAX_ENTRIES
  /\ start \in Nat /\ disturbed \in BOOLEAN

(* initDequeue()                                                           *)
Init ==
  /\ \E dummy \in Nodes :
       /\ head = dummy /\ tail = dummy /\ live = {dummy}
  /\ size = 0
  /\ op = [a \in Nodes |-> Garbage] /\ file = [a \in Nodes |-> Garbage]
  /\ next = [a \in Nodes |-> NULL]
  /\ main = "idle" /\ new_node = NULL
  /\ m_head = NULL /\ m_tail = NULL /\ m_next = NULL
  /\ events = 0 /\ linked = <<>>
  /\ tui = "idle" /\ current = NULL /\ index = 0 /\ t_op = Garbage
  /\ array = <<>> /\ start = 0 /\ disturbed = FALSE

Goto(l) == main' = l

(* A weak compare-exchange of a location with the value expected there.    *)
(* It always fails when the values differ, and may fail when they do not.  *)
Succeeds(actual, expected) == actual = expected
Fails(actual, expected)    == actual # expected \/ WeakMayFail

free(a) ==
  /\ live' = live \ {a}
  /\ op' = [op EXCEPT ![a] = Garbage]
  /\ disturbed' = TRUE
  /\ UNCHANGED <<file, next, tui, current, index, t_op, array, start>>

-----------------------------------------------------------------------------
(* pushRear()                                                              *)

malloc_new_node ==
  /\ main = "idle"
  /\ events < MaxEvents
  /\ events' = events + 1
  /\ \E a \in Nodes \ live : new_node' = a /\ live' = live \union {a}
  /\ Goto("storeOp")
  /\ UNCHANGED <<dqVars, op, file, next, m_head, m_tail, m_next, linked, tuiVars>>

(* malloc() returns NULL: the event is not recorded.                       *)
malloc_fails ==
  /\ main = "idle"
  /\ events < MaxEvents
  /\ events' = events + 1
  /\ UNCHANGED <<dqVars, heapVars, main, new_node, m_head, m_tail, m_next, linked,
                 tuiVars>>

store_op ==
  /\ main = "storeOp"
  /\ op' = [op EXCEPT ![new_node] = events]
  /\ Goto("storeFile")
  /\ UNCHANGED <<dqVars, live, file, next, new_node, m_head, m_tail, m_next, events,
                 linked, tuiVars>>

store_file ==
  /\ main = "storeFile"
  /\ file' = [file EXCEPT ![new_node] = events]
  /\ Goto("storeNext")
  /\ UNCHANGED <<dqVars, live, op, next, new_node, m_head, m_tail, m_next, events,
                 linked, tuiVars>>

store_next ==
  /\ main = "storeNext"
  /\ next' = [next EXCEPT ![new_node] = NULL]
  /\ Goto("load")
  /\ UNCHANGED <<dqVars, live, op, file, new_node, m_head, m_tail, m_next, events,
                 linked, tuiVars>>

(* Mutant of push_load: a lagging tail is taken for the last node.         *)
PushAtTail ==
  /\ main = "load"
  /\ m_tail' = tail
  /\ m_next' = next[tail]
  /\ Goto("casNext")
  /\ UNCHANGED <<dqVars, heapVars, new_node, m_head, events, linked, tuiVars>>

(* The three loads at the top of the loop; the main thread being the only  *)
(* writer, nothing comes between them and the second look at tail agrees.  *)
push_load ==
  /\ main = "load"
  /\ m_tail' = tail
  /\ m_next' = next[tail]
  /\ Goto(IF next[tail] = NULL THEN "casNext" ELSE "helpTail")
  /\ UNCHANGED <<dqVars, heapVars, new_node, m_head, events, linked, tuiVars>>

cas_next ==
  /\ main = "casNext"
  /\ \/ /\ Succeeds(next[m_tail], m_next)
        /\ next' = [next EXCEPT ![m_tail] = new_node]
        /\ linked' = Append(linked, events)
        /\ Goto("casTail")
     \/ /\ Fails(next[m_tail], m_next)
        /\ Goto("load")
        /\ UNCHANGED <<next, linked>>
  /\ UNCHANGED <<dqVars, live, op, file, new_node, m_head, m_tail, m_next, events,
                 tuiVars>>

(* The compare-exchanges of tail; their results are not looked at.         *)
SwingTail(to) ==
  /\ \/ Succeeds(tail, m_tail) /\ tail' = to
     \/ Fails(tail, m_tail) /\ UNCHANGED tail
  /\ UNCHANGED <<head, size, heapVars, new_node, m_head, m_tail, m_next, events,
                 linked, tuiVars>>

cas_tail == main = "casTail" /\ SwingTail(new_node) /\ Goto("fetchAdd")

(* Mutant of help_tail: try again without bringing tail forward.           *)
RetryOnly ==
  /\ main \in {"helpTail", "popHelp"}
  /\ Goto(IF main = "helpTail" THEN "load" ELSE "popLoad")
  /\ UNCHANGED <<dqVars, heapVars, new_node, m_head, m_tail, m_next, events,
                 linked, tuiVars>>

(* Tail lags behind: bring it forward and try again, here or in popFront.  *)
help_tail ==
  /\ main \in {"helpTail", "popHelp"}
  /\ SwingTail(m_next)
  /\ Goto(IF main = "helpTail" THEN "load" ELSE "popLoad")

(* Mutant of fetch_add: one entry too many is kept.                        *)
KeepOneMore ==
  /\ main = "fetchAdd"
  /\ size' = size + 1
  /\ Goto(IF size > MAX_ENTRIES THEN "popLoad" ELSE "idle")
  /\ UNCHANGED <<head, tail, heapVars, new_node, m_head, m_tail, m_next, events,
                 linked, tuiVars>>

fetch_add ==
  /\ main = "fetchAdd"
  /\ size' = size + 1
  /\ Goto(IF size >= MAX_ENTRIES THEN "popLoad" ELSE "idle")
  /\ UNCHANGED <<head, tail, heapVars, new_node, m_head, m_tail, m_next, events,
                 linked, tuiVars>>

-----------------------------------------------------------------------------
(* popFront(), called by pushRear when there are too many entries.         *)

pop_load ==
  /\ main = "popLoad"
  /\ m_head' = head /\ m_tail' = tail /\ m_next' = next[head]
  /\ Goto(IF head # tail THEN "popCas"
          ELSE IF next[head] = NULL THEN "idle" ELSE "popHelp")
  /\ UNCHANGED <<dqVars, heapVars, new_node, events, linked, tuiVars>>

pop_cas ==
  /\ main = "popCas"
  /\ \/ Succeeds(head, m_head) /\ head' = m_next /\ Goto("fetchSub")
     \/ Fails(head, m_head) /\ Goto("popLoad") /\ UNCHANGED head
  /\ UNCHANGED <<tail, size, heapVars, new_node, m_head, m_tail, m_next, events,
                 linked, tuiVars>>

(* Mutant of fetch_sub: size only counts what is pushed.                   *)
SizeNotReduced ==
  /\ main = "fetchSub"
  /\ Goto("popFree")
  /\ UNCHANGED <<dqVars, heapVars, new_node, m_head, m_tail, m_next, events,
                 linked, tuiVars>>

fetch_sub ==
  /\ main = "fetchSub"
  /\ size' = size - 1
  /\ Goto("popFree")
  /\ UNCHANGED <<head, tail, heapVars, new_node, m_head, m_tail, m_next, events,
                 linked, tuiVars>>

pop_free ==
  /\ main = "popFree"
  /\ free(m_head)
  /\ Goto("idle")
  /\ UNCHANGED <<dqVars, new_node, m_head, m_tail, m_next, events, linked>>

-----------------------------------------------------------------------------
(* freeDequeue(), called when the main loop is over, then the exit of the  *)
(* process, which ends the TUI thread wherever it is.                      *)

(* Mutant of free_load: the dummy node is forgotten.                       *)
FreeEntriesOnly ==
  /\ MayExit
  /\ main = "idle"
  /\ m_head' = next[head]
  /\ Goto("freeNext")
  /\ UNCHANGED <<dqVars, heapVars, new_node, m_tail, m_next, events, linked, tuiVars>>

free_load ==
  /\ MayExit
  /\ main = "idle"
  /\ m_head' = head
  /\ Goto("freeNext")
  /\ UNCHANGED <<dqVars, heapVars, new_node, m_tail, m_next, events, linked, tuiVars>>

free_next ==
  /\ main = "freeNext"
  /\ IF m_head # NULL
     THEN free(m_head) /\ m_head' = next[m_head] /\ UNCHANGED main
     ELSE UNCHANGED <<heapVars, m_head, tuiVars>> /\ Goto("clear")
  /\ UNCHANGED <<dqVars, new_node, m_tail, m_next, events, linked>>

(* head, tail and size are cleared by three stores; the TUI thread reads   *)
(* only head.                                                              *)
clear ==
  /\ main = "clear"
  /\ head' = NULL /\ tail' = NULL /\ size' = 0
  /\ Goto("freed")
  /\ UNCHANGED <<heapVars, new_node, m_head, m_tail, m_next, events, linked, tuiVars>>

exit ==
  /\ main = "freed"
  /\ Goto("exited")
  /\ UNCHANGED <<dqVars, heapVars, new_node, m_head, m_tail, m_next, events, linked,
                 tuiVars>>

pushRear ==
  \/ malloc_new_node \/ malloc_fails \/ store_op \/ store_file \/ store_next
  \/ push_load \/ cas_next \/ cas_tail \/ help_tail \/ fetch_add
popFront == pop_load \/ pop_cas \/ fetch_sub \/ pop_free
freeDequeue == free_load \/ free_next \/ clear \/ exit

-----------------------------------------------------------------------------
(* displayEntries(), on the TUI thread.                                    *)

Running == main # "exited"
TuiGoto(l) == tui' = l

(* After freeDequeue() head is NULL, and following it ends the process.    *)
load_head ==
  /\ Running
  /\ tui = "idle"
  /\ current' = head /\ index' = 0 /\ array' = <<>>
  /\ start' = Len(linked) /\ disturbed' = (head \notin live)
  /\ IF head = NULL
     THEN TuiGoto("crashed") /\ Goto("exited")
     ELSE TuiGoto("loadFirst") /\ UNCHANGED main
  /\ UNCHANGED <<dqVars, heapVars, new_node, m_head, m_tail, m_next, events,
                 linked, t_op>>

(* Mutant of load_first: the walk begins at the dummy node.                *)
BeginAtDummy ==
  /\ Running
  /\ tui = "loadFirst"
  /\ TuiGoto("test")
  /\ UNCHANGED <<dqVars, heapVars, mainVars, current, index, t_op, array, start,
                 disturbed>>

load_first ==
  /\ Running
  /\ tui = "loadFirst"
  /\ current' = next[current]
  /\ TuiGoto("test")
  /\ UNCHANGED <<dqVars, heapVars, mainVars, index, t_op, array, start, disturbed>>

(* The loop condition, and the copy of op; or the end of the walk.         *)
test ==
  /\ Running
  /\ tui = "test"
  /\ IF current # NULL /\ index < MAX_ENTRIES
     THEN t_op' = op[current] /\ TuiGoto("readFile")
     ELSE UNCHANGED t_op /\ TuiGoto("idle")
  /\ UNCHANGED <<dqVars, heapVars, mainVars, current, index, array, start, disturbed>>

read_file ==
  /\ Running
  /\ tui = "readFile"
  /\ array' = Append(array, <<t_op, file[current]>>)
  /\ TuiGoto("advance")
  /\ UNCHANGED <<dqVars, heapVars, mainVars, current, index, t_op, start, disturbed>>

advance ==
  /\ Running
  /\ tui = "advance"
  /\ current' = next[current] /\ index' = index + 1
  /\ TuiGoto("test")
  /\ UNCHANGED <<dqVars, heapVars, mainVars, t_op, array, start, disturbed>>

displayEntries == load_head \/ load_first \/ test \/ read_file \/ advance

Next == pushRear \/ popFront \/ freeDequeue \/ displayEntries

Spec == Init /\ [][Next]_vars

(* The main thread goes on while it has something to do, and a             *)
(* compare-exchange that may fail spuriously does not fail for ever.       *)
FairSpec ==
  /\ Spec
  /\ WF_vars(main # "idle" /\ (pushRear \/ popFront \/ freeDequeue))
  /\ SF_vars(cas_next /\ main' = "casTail")
  /\ SF_vars(help_tail /\ tail' # tail)
  /\ SF_vars(pop_cas /\ main' = "fetchSub")

-----------------------------------------------------------------------------
(* Properties.                                                             *)

(* The node n links after head.                                            *)
NodeAt[n \in 0 .. Cardinality(Nodes)] ==
  IF n = 0 THEN head
  ELSE IF NodeAt[n - 1] = NULL THEN NULL ELSE next[NodeAt[n - 1]]

Length == Cardinality({n \in 1 .. Cardinality(Nodes) : NodeAt[n] # NULL})
Contents == [n \in 1 .. Length |-> file[NodeAt[n]]]
Chain == {NodeAt[n] : n \in 0 .. Length}

Filling == main \in {"storeOp", "storeFile", "storeNext", "load", "casNext", "helpTail"}
Popped  == main \in {"fetchSub", "popFree"}
Closing == main \in {"freeNext", "clear", "freed", "exited"}

(* Between calls the queue holds exactly the newest events, at most        *)
(* MAX_ENTRIES of them, oldest first, both fields of each from the same    *)
(* event, and size says how many.                                          *)
KeepsNewest ==
  main = "idle" =>
    /\ size = Length
    /\ Length = IF Len(linked) < MAX_ENTRIES THEN Len(linked) ELSE MAX_ENTRIES
    /\ Contents = SubSeq(linked, Len(linked) - Length + 1, Len(linked))
    /\ \A n \in 1 .. Length : op[NodeAt[n]] = file[NodeAt[n]]

(* The nodes malloc() gave out are those of the list, the one being pushed *)
(* and the one being freed: none is leaked, and nothing the main thread    *)
(* follows was freed.  Tail is one of the last two nodes, and freeDequeue  *)
(* leaves none.                                                            *)
NoLeakNoDangling ==
  /\ ~ Closing =>
       /\ live = Chain \union (IF Filling THEN {new_node} ELSE {})
                       \union (IF Popped THEN {m_head} ELSE {})
       /\ tail = NodeAt[Length] \/ (Length > 0 /\ tail = NodeAt[Length - 1])
  /\ main \in {"clear", "freed", "exited"} => live = {}

(* Every entry of array is one event's, whole, and the entries are         *)
(* consecutive in the order they were linked.                              *)
Consecutive(i) ==
  \A k \in 1 .. Len(array) :
    i + k <= Len(linked) /\ array[k] = <<linked[i + k], linked[i + k]>>

(* A walk during which no node is freed shows a run of consecutive events, *)
(* and none that was in the queue when it began is missing from its end    *)
(* but for want of room.                                                   *)
QuietWalkIsExact ==
  (tui = "test" /\ ~ disturbed) =>
    \E i \in 0 .. Len(linked) :
      /\ Consecutive(i)
      /\ (current = NULL \/ index = MAX_ENTRIES)
           => i + Len(array) >= start \/ index = MAX_ENTRIES

(* A push, with the removal it may call for, comes to an end.              *)
PushReturns == (main # "idle" /\ ~ Closing) ~> (main = "idle")

(* lock_free_queue.c:88 "Current entries in the dequeue (newest last)":    *)
(* an entry shown after another is a newer event.                          *)
NewestLast ==
  \A j, k \in 1 .. Len(array) : j < k => array[j][2] < array[k][2]
=============================================================================
