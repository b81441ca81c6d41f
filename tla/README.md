# naarad in TLA+

naarad watches a directory: LSM hooks written in BPF report what is done to its
files, the main process counts and records the reports, shows them in a terminal
and sends them through a POSIX message queue to a dispatcher process that deals
them out to consumer processes. This directory models that program, checks the
models with TLC and proves what matters most with TLAPS. Paths below are
relative to the repository's root; line numbers are in `PROJECT.json`.

## 1. The system

```
 kernel, per CPU             main process                    dispatcher        consumers
 hooks -> data_array         perf_buffer__poll               mq_receive        4 groups x 2
          -> perf ring  ==>  handle_event                    write  =pipe==>   read
 inode_cache                   increment_counter             select <==pipe=   ack
                               pushRear  (recent events)     round-robin       increment_counter
                               producer  ==/test_queue==>    stop loop
                             TUI thread: getch, displayEntries, read_counter
```

| Component | Source | State | Operations |
|---|---|---|---|
| LSM hooks | `src/file_monitor.bpf.c` | per-CPU scratch `data_array`, hash `inode_cache` (1024 names), perf rings | ten hooks, `submit_event` |
| Main loop | `src/file_monitor.c`, libbpf's perf buffer reader | `stop`, the batch being drained | `run_main_loop`, `perf_buffer__poll`, `sig_int` |
| Event handler | `include/userspace/ebpf.c` | none of its own | `handle_event`: look up, count, record, send |
| Operation map | `include/tui/hashmap.c` | 100 slots without chaining | `init_operation_map`, `insert`, `get`, `cleanup_operation_map` |
| Counters | `include/tui/tui.c` | eleven atomic counters, one copy per process after the forks | `increment_counter`, `read_counter` |
| Recent events | `include/tui/lock_free_queue.c` | linked list with a dummy, `head`, `tail`, `size`, at most 60 entries | `pushRear`, `popFront`, `displayEntries`, `freeDequeue` |
| Message pipeline | `include/message_queue/*` | `/test_queue` (10 messages), two pipes per consumer, whose turn it is per group | `send_with_retry`, `dispatcher`, `consumer` |
| Start-up, shutdown | `src/file_monitor.c`, `message.c` | pipe ends per process, process ids | `init_pipe`, `init_consumer`, `init_dispatcher`, `main` |
| Terminal interface | `src/file_monitor.c` (`make_tui`), `tui.c` | current tab and block, last update, rows shown | keys, `update_table`, `draw_bar_graph` |
| Logging | `include/utils/logs.c` | callbacks, quiet flag | `log_log` |

How they interact. The kernel and the main process share the perf rings. The main
thread and the TUI thread share the list of recent events and the counters, with
atomic accesses and no lock. The main process, the dispatcher and the consumers
share only the named queue and the pipes; an end of a pipe that is closed shows
as end of file or SIGPIPE at the other. The consumers count too, but in copies of
the counters that nobody reads.

What is hard here, and what would make each component correct:

* **Message pipeline**: an acknowledgement carries no identity and may come after
  the dispatcher stopped waiting; any process may die; queue and pipes are
  bounded and block. Correct means: no event counted twice or out of order, none
  lost but with a process that was killed, and then no more than its missed acks put
  at stake; turns kept, an exit drains what was sent before it, nobody is left
  waiting for ever, no consumer is left behind.
* **Recent events**: compare-exchanges that fail spuriously, freed nodes that a
  concurrent walk still holds and `malloc` reuses. Correct means: exactly the
  newest entries, none leaked, none used after it was freed, and a walk that shows
  events whole and in order.
* **Event path**: hooks on several CPUs that may preempt each other and share a cache
  whose elements the kernel reuses, rings that fill while they are drained, names
  cached at one call and used at another. Correct means: an event is of its own
  hook call unless another hook got in its way, each CPU's events keep their order,
  counters and records agree.
* **Operation map**: collisions lose names. Correct means: what is found is what
  was last inserted, and the program's own names are all found.

`PROJECT.json` lists each hazard at its line with the properties that cover it.

## 2. The modules

| Module | What it is |
|---|---|
| `Dispatch` | the message pipeline: main process (sending side), queue, dispatcher, pipes, consumers, deaths |
| `Delivery` | what the pipeline promises: events accepted in order, dealt in turn, counted in order |
| `DispatchDelivers` | the refinement mapping from `Dispatch` to `Delivery` |
| `DispatchProofs` | TLAPS: types of `Dispatch`, and the accounting of acknowledgements |
| `DispatchOrderProofs` | TLAPS: events are counted once and in order, how much a death can lose, a clean stop leaves none behind |
| `DispatchDeliversProofs` | TLAPS: the turns are balanced; `Dispatch` implements `Delivery` |
| `Startup` | the processes of a run and the pipe ends each holds: forks, closes, failures |
| `Naarad` | the whole program from its start to its end and again: `Startup` with the sends, the dispatcher, the consumers, Ctrl+C and the queue that outlives a run |
| `NaaradProofs` | TLAPS: open ends tell which processes live; `Naarad` implements `Startup`; messages are lost only with killed processes |
| `LockFreeQueue` | the queue of recent events, one shared access a step |
| `RecentEvents` | what that queue promises its writer |
| `RecordsRecent` | the refinement mapping from `LockFreeQueue` to `RecentEvents` |
| `LockFreeQueueProofs` | TLAPS: all of that, and what a quiet walk sees |
| `Hooks` | the LSM hooks, their scratch data and the cache of names, one access a step |
| `EventPath` | `Hooks` with the rings, the main loop and `handle_event` |
| `EventPathProofs` | TLAPS: types, whose event a hook submits, order, counters |
| `Tui` | keys, tabs, bars and table, beside `EventPath` |
| `TuiProofs` | TLAPS: `Tui` is an `EventPath`; selections and bars |
| `OperationMap` | the hash map from names to codes |
| `OperationMapProofs` | TLAPS: what is found, what is lost, and to whom |
| `MCHooks`, `MCOperationMap` | instances for TLC |

Below the source names are kept: an action is called after the function or call
it stands for. Operators introduced as "Mutant of X" state how X would look with a
plausible mistake in it; each property is shown to fail when X is so replaced.

### Dispatch

State: `mq` is the named queue, `posted` numbers what was put in it; `sender` is
the main process, inside `mq_send` or not. `dispatcher` is the dispatcher's place
in `dispatcher()`: `receive` (in `mq_receive`), `write` and `await` (the body of
the main loop), `writeStop` and `awaitStop` (the stop loop), `exited`, `killed`.
`msg`, `current_consumer`, `stopping` are its locals. Each consumer has two pipes
and a place in `consumer()`: `read`, `count` (it has read an event and not counted it),
`ack`. `handled`, `missed` and `given` are ghosts: what a consumer passed to
`increment_counter`, how many acks of it the dispatcher gave up on, and which events
were written to it.

| Action | Code |
|---|---|
| `StartSend`, `send_with_retry` | `producer` enters; `mq_send` blocks while the queue is full, because the queue is opened without `O_NONBLOCK` |
| `PostStop` | a `STOP_MESSAG` posted from outside; nothing in the program posts one |
| `mq_receive` | receive, and the test of `op` |
| `WriteToConsumer`, `WriteToDeadConsumer` | `write` to the pipe: blocks when full, SIGPIPE when the consumer is gone |
| `ReadAck`, `ReadAckEof`, `AckTimeout` | `select` then `read`: an ack, end of file, or nothing for five seconds; then `MoveOn`, round-robin or to the next consumer of the stop loop, whose end closes the pipes and exits |
| `ReadMessage`, `increment_counter`, `SendAck`, `SendAckToDeadDispatcher`, `ReadEof` | the loop of `consumer()`, each call a step |
| `KillDispatcher`, `KillConsumer` | deaths from outside, between any two steps |

What a process holds is gone with it: the `msg` of a killed dispatcher is no place where a
message still is, and `Die`, the death of a consumer, empties its pipe, which the kernel
discards when nobody can read it any more.

A `write` of a `Message` is shorter than `PIPE_BUF`, hence atomic, so pipes are
sequences of whole messages. Acks carry no identity in the code; the model keeps
the serial of the message each was written for, to say which it is, and no action
looks at it. A serial in `AckDebt` or `AckGenuine` is therefore a fact about the
code, not something the code could use.

### LockFreeQueue

Only the main thread writes the list and only the TUI thread walks it. `main` and
`tui` are the two program counters; the main thread's steps are its single shared
accesses, the TUI thread's steps the reads that can see a difference. Memory is a
set of addresses: `live` are those `malloc` gave out, `op`, `file` and `next` what
is in each. `free` leaves the bytes but for the first sixteen, which the allocator
overwrites and where `op` lies, and a later `pushRear` may get the same address
with the old bytes still in it. `op` and `file` hold the serial of the event they
were copied from, so that a torn entry shows. The walk's reads of `current->next`
and `head->next`, and its tests, follow the code; a walk that follows the NULL head
left by `freeDequeue` ends the process (`crashed`).

### Hooks

A hook call is a task on a CPU that goes through the accesses of the code one by one:
`BeginHook` is the test of the directory and the `memset` of the CPU's scratch `data_t`;
`SetName` the `bpf_d_path` or `bpf_probe_read_str`, `NoPath` the file without dentry or
mount; `CacheName` is `bpf_map_update_elem` of `file_open`; `LookupName` and `CopyName` are
`bpf_map_lookup_elem` and the `memcpy` from the pointer it returned; `SetOperation` and
`submit_event` follow, twice for `read+write`. Names are reduced to the hook call they come
from, and an empty name is 0.

Between two of these steps hooks of other CPUs go on, and on a kernel that preempts BPF
programs also hooks of the same CPU, which then share the scratch `data_t`:
`MaxPreemptions` says how often, 0 is a kernel that does not. `inode_cache` is a
preallocated hash map: an update for a number that is in it fills the spare element of the
CPU (`spare`) and makes the replaced one the next spare, so a pointer that
`file_permission` looked up may point to an element filled for another file when
it copies. `quiet` is a ghost of each hook call and of each name in the cache: nobody wrote the
scratch data of the call, or filled the element it held, while it was under way. The
key is an inode number, and no hook takes an entry out: the model speaks of numbers, not of
files.

### EventPath

`EventPath` EXTENDS `Hooks`. `RunHook` is any step of a hook but the output, `OutputEvent`
the output: `Output` appends to the CPU's ring or, when it is full, loses the event.
`run_main_loop` tests `stop`; `poll` is `epoll_wait`,
`process_records` takes the next ready CPU and reads `data_head` once; then
`increment_counter`, `pushRear` and `producer` are the three effects of
`handle_event` for every event of the batch, and the last of the batch gives the
space back by writing `data_tail`. `producer` is a send to a blocking queue of `MQ_MAXMSG`
messages, which `dispatcher_receives` empties as long as the dispatcher lives:
`dispatcher_dies` is Ctrl+C, which reaches it as well, or the death of a consumer.

### Startup

`main` is the function `main()` is in, `next` the consumer its loop is at. What matters
is who holds which end of which pipe: a child inherits all its parent holds, so
`init_consumer` forks a consumer with the ends of every other, `close_others` is its
`close` calls, and `close_pipes` those of `main()`. The closes of one loop are one step:
each only takes an end away from the process itself, and nobody writes before the
dispatcher is there. `start_fails` is the `return 1` of any step, and `MainEnds`,
`DispatcherEnds` and `ConsumerEnds` the end of a process, whose ends the kernel closes.
A `read` meets end of file, and a `write` SIGPIPE, when nobody holds the other end
(`Open`). `Dispatch` begins after this, and takes for granted that an end of file tells that
the dispatcher is gone and a SIGPIPE that the consumer is: `PipesWired` is that.

`StartAgain` begins another run with new processes; what an orphan of an earlier run
holds is left out here and told in `Naarad` as far as it touches the shared queue.

### Naarad

`Naarad` EXTENDS `Startup` and says what the processes do. `StartSend`, `mq_send` and
`run_main_loop` are the main loop: `stop` is tested between polls only, so a main
process that is inside `mq_send` stays there. `signal()` sets SA_RESTART, therefore a send
that SIGINT interrupts is restarted, and `send_with_retry` sees no EINTR. `mq_receive`,
`WriteToConsumer`, `ReadMessage`, `increment_counter`, `SendAck` and `ReadEof` are dispatcher and
consumers, which a signal may end between any two of them: `hand` is what the dispatcher has
received and not written, `taken` what a consumer has read and not counted, `unacked`
that it has still to ack. Whose
turn it is and how long an ack is waited for is `Dispatch`'s matter, so here a message goes to any
consumer and the wait, which always ends, takes no step. Nothing in the program posts a stop
message, so none is sent here.

`sig_int` is Ctrl+C: the terminal sends SIGINT to the whole foreground group. The main
process has a handler once `signal()` has run, at the end of `setup`; before, and in
every child, the default action ends the process (`DieOfSignal`, each process in its own time).
`Restart` is the program started by hand again: `mq_open` with `O_CREAT` finds
`/test_queue` as it was left, all else is new. A dispatcher that the run before has left
running counts in `orphans` and goes on receiving (`OrphanReceive`). `received` is a ghost, the messages this run's dispatcher has taken out of the
queue, and `elsewhere` those of the dispatchers of earlier runs. Who has pressed Ctrl+C waits for the processes to die before starting again.

### Tui

`Tui` EXTENDS `EventPath`: `make_tui` is a thread of the main process, whose counters and
recent events it reads while the main thread writes them. `TabKey`, `ArrowKey` and
`QuitKey` are the cases of the `switch`; a key that changes nothing redraws nothing.
`draw_bar_graph` and `read_counter` are the eleven atomic loads, one a step, in the
order of the bars; the terms of one sum are loaded in any order, which C leaves to the
compiler. `update_table` takes the newest `MAX_ENTRIES` events up to the first without a
file name, where the code's test for the end of the array also stops. The walk itself is one
step here, `LockFreeQueue` has its accesses. `last_update` is left out: whether or not a second has
passed, `redraw_screen` calls `update_table` again for the table's tab.

### OperationMap

`Insert` is the table after `insert()`, `get` what `get()` returns, `Loaded` the table after
each insert of `init_operation_map`; a name is the sequence of its characters and
`hash` is the code's, as a recursive function of how many of them it has read. A slot whose
pointer is NULL is `Empty`. `cleanup_operation_map` leaves the slots as they were, as the
code leaves its dangling pointers. `inserted` is a ghost, all calls of `insert` in order.

## 3. What TLC checks

| Run | Instance | Question |
|---|---|---|
| `dispatch_safety` | 2 groups x 2 consumers, queue 2, pipes 2, 3 messages, everything may die or be stopped | is any event counted twice or out of order; what does a death lose; do acks balance; are turns fair; does a clean stop drain; is the whole a `Delivery`? |
| `dispatch_progress` | 1 group x 2, queue 2, pipes 1, 4 messages, fair processes | is every event counted unless a process ends; does every consumer follow the dispatcher? |
| `send_returns` (violated) | the dispatcher may die | does a send return? |
| `stop_ack` (violated) | nothing dies | is the stop's ack the stop's? |
| `queue` | 2 entries, 4 addresses, 4 events, spurious failures, exit, fair main thread | are exactly the newest kept, nothing leaked or dangling, is a quiet walk exact, does a push return, is every step one of `RecentEvents`? |
| `newest_last` (violated) | as `queue`, 5 events, no exit | is a walk in order while events are evicted? |
| `hooks` | 2 CPUs, 2 tasks, 2 inode numbers, 4 elements, 5 hook calls, 1 preemption | is an event another's only when another hook got in its way; is every element used once? |
| `event_path` | 2 CPUs, 1 task, rings of 2, queue 1, 3 hook calls (6 events), the dispatcher may die, fair main thread and dispatcher | order per CPU, counters; is what a ring took recorded; does SIGINT end the loop? |
| `tui` | 1 CPU, 1 task, 2 inode numbers, 2 elements, 2 hook calls, 3 keys | are selections in range; is each bar a number that was right at some moment? |
| `operations_counted` (violated) | all hooks | has every operation a counter? |
| `operation_map` | the program's names and table, three more names | are its names found; what does a collision cost? |
| `naarad` | 2 consumers, queue 2, pipes 1, 4 messages, 2 runs, any step may fail, fair processes | do pipe ends tell who lives; what is lost, and with whom; does Ctrl+C end everybody; is anybody left behind; is the queue served? |

**The properties.** `HandledOnceInOrder`, `LossIsBounded`, `RoundRobinBalanced` and
`GracefulStop` are what users of the pipeline rely on. Deaths do lose messages;
`LossIsBounded` says which: the one in the hand of a killed dispatcher, and of the events
given to a killed consumer at most the last `missed + 1`, since the dispatcher waits for each ack
and only a timeout puts another event at stake. `DeliversInTurn` says the
whole at once, as a refinement. `AckDebt` and `AckGenuine` are the accounting
behind them: an ack missed is owed for ever, and an ack is the right one only as
long as none was missed. `KeepsNewest`, `NoLeakNoDangling`, `RecordsRecentEvents`
and `QuietWalkIsExact` do the same for the list; the last is deliberately
restricted to walks during which no node was freed, because of the walks that are
overtaken the code promises too much (`newest_last`). It speaks of no walk beside
`freeDequeue`: that one may end the process. `QuietHookIsGenuine` says by what alone an event can
come to be another's: a hook that preempted it on its CPU, or an element refilled between
lookup and copy, at this call or at the one that cached the name; without these the
operation is its own, and the name its own or one its inode number was opened under.
`HooksTypeOK` includes that no element has two uses. `PerCpuOrder` and `CountersTrack`
follow an event from ring to send. `BarsBetween` says what the bars are
worth, which are read one counter after another: each between the count when
the drawing began and the count now, so that a bar may be of another moment than its
neighbour but never of none. `PipesWired` and `NoEarlyEof` are about processes each of
which must close the ends that others use; `LossNeedsDeath` about a queue that
two runs, and two dispatchers, may share: what is in it stays until somebody receives it, and
after that only a killed process loses it, never the end of `main()` or an end of file; `CtrlCEndsChildren`, `CtrlCEndsMain` and
`ConsumersNotLeftBehind` about who is gone in the end. `CtrlCEndsMain` names its one
exception, a main process in a send to a full queue whose dispatcher died first: the same
blocking send that `send_returns` shows, and the exception of `SigIntStops` as well. A run that fails after `init_dispatcher` does leave its
dispatcher and consumers running (`orphans`): no property says otherwise.

**The four violated runs** are disagreements between the code and what it says:
a send that "gives up" after retries it cannot make, a stop acknowledgement that may be
somebody else's, "newest last" entries that are not, and symbolic links that are
submitted under one name and looked up under another.

**Bounds, and why they are enough.** Messages are told apart by serial only. In
`dispatch_safety` three messages reach both groups, give one consumer two
messages in its pipe (so a late ack meets a later message), fill queue and pipe and
still leave a stop; in `dispatch_progress` four messages fill queue, pipe and the
dispatcher's hand so that the main process blocks. `queue` runs four events
through two places and four addresses, so that addresses are freed and reused while a walk is
under way. In `hooks` two opens of a file make its first element the spare of a CPU, a read has looked
that element up before, and the second open of the other file on that CPU fills it: five calls,
one of which may preempt another. In `event_path` a
ring overflows during a batch, its one task may go from CPU to CPU between calls, and the
main process blocks in the send. In `tui` three keys reach both tabs, wrap around the blocks from
either side, and let the bars be drawn again after more was counted. In `naarad` four messages leave the
queue full and a message in a pipe when the second run finds it, with or without an orphan.
`MaxPosts`, `MaxEvents`, `MaxCalls`, `MaxPreemptions`, `MaxInserts`, `MaxKeys` and `MaxRuns` are
the only bounds that the code does not have; `MQ_MAXMSG` (10), `PIPE_CAPACITY`,
`MAX_ENTRIES` (60), `Elements` (1024 and one per CPU), `RING_CAPACITY` and the four groups are
the code's, made smaller. Symmetry is used in `hooks` only, for
CPUs, tasks, inode numbers and elements, which the code only compares; the spares its
initial state chooses are, up to symmetry, the only choice.

Deadlock is checked in `operation_map`; the other systems come to rest when the
bound on events is reached, or when all has exited.

**Fairness.** `Dispatch!FairSpec`: the kernel runs a process that can run, so each of
`send_with_retry`, the dispatcher's step and each consumer's step is weakly fair.
Events, stops and deaths are never obliged to happen, and acks may come late or in
time. `LockFreeQueue!FairSpec`: the main thread, once inside a push, goes on, and a weak
compare-exchange tried for ever succeeds some time (strong fairness of the
successful outcome), which is what hardware promises of a spurious failure.
`Naarad!FairSpec`: every process that can run does, and a signal that is pending is
delivered; events, failures, Ctrl+C and the next run need never come, and orphans need
not receive. `EventPath!FairSpec`: the main thread runs, and the dispatcher receives as long as it lives, which is
what `EventuallyHandled` is about; it may die at any moment, and then `producer` waits for ever once
the queue is full.

## 4. What TLAPS proves

Every invariant and every refinement that a passing run checks is a theorem, for all values
of the constants that satisfy the modules' assumptions; `OperationsKnown` under one
hypothesis more, named below. The assumptions say that
sizes are numbers and not zero where the code's are not, that NULL is no address, and the like.
TLC evaluates them in each run.

### The message pipeline (`DispatchAssumption`)

* `TypeCorrect` (`DispatchProofs`): `Spec => []TypeOK`. One lemma per action. The
  arithmetic is that of the round-robin turn and of the indices of the stop loop.
* `AcksAreOwed`, `AcksAreGenuine` (`DispatchProofs`): `Spec => []AckDebt` and
  `Spec => []AckGenuine`.

`AckDebt` alone is not inductive. A consumer that has stopped no longer acks, so one
must know that nothing will be written to it any more. `StopInv` says so: until the stop
loop reaches a consumer (`StopDue`, in the order `Earlier` of the loop) it has not
exited and has only events before it; and a stop is the last thing in a pipe, so that
a consumer that read one leaves nothing unread. `AckGenuine` needs to know which
message the outstanding ack is for: `AckInv` says that the newest item on its way round
(`NewestIsMsg`: the last in the pipe, else the one in the consumer's hand, else the last in the
ack pipe) is the one in `msg` while the dispatcher waits for that consumer; with nothing
missed it is the only one. `AckIInv` is the conjunction with `TypeOK`; the lemmas show
that it holds initially, is preserved by each action, and implies the two properties.

* `CountedOnceInOrder` (`DispatchOrderProofs`): `Spec => []HandledOnceInOrder`. `CarryInv` says
  that what a consumer counted is the first part of what it was given, and that what it has read
  and what is in its pipe are the rest, behind which only a stop can be; of a killed consumer only
  the counted part is left. So it is enough to follow what is given: the serials in `mq`
  increase and are above the one in `msg` (`QueueOrder`); what was given is not newer than `msg`,
  and strictly older while the dispatcher is about to write it (`Past`), which is why a message is
  given in order and to one consumer only (`Apart`).
* `LossesAreBounded` (`DispatchOrderProofs`): `Spec => []LossIsBounded`. `PlaceInv`: a message
  posted is in the queue, in `msg`, or was given, and `msg` was given once the dispatcher has
  gone on from it. `DebtInv`: a consumer is behind by no more events than its missed acks and
  one, which follows from `AckDebt` while both live and stays so after a death, when nothing
  more is given to it.
* `StopIsGraceful` (`DispatchOrderProofs`): `Spec => []GracefulStop`. `AckDebt` at the end of the
  last wait gives empty pipes (`ExitDrained`), hence every event given is counted (`Drained`); what
  was sent before the stop is neither in the queue, by `QueueOrder`, nor in `msg`, so it was given.

* `LoadIsBalanced` (`DispatchDeliversProofs`): `Spec => []RoundRobinBalanced`. That two
  counts differ by at most one is not inductive: one must know who is ahead. `TurnInv` says
  that in each group the members before some `T` have one event more than the others,
  and that, while the dispatcher takes messages, `T` is the member whose turn it is
  (`TurnOf`; the next one while an ack is awaited).
* `PipelineDelivers`: `Spec => DeliversInTurn`, with `D!Spec` the specification of
  `Delivery`. One lemma per kind of action says which abstract step it is: a post is `Accept` or
  `AcceptStop`, a write of an event is `Give` to the member whose turn it is (`SameTurn`, from the
  balance), the consumer's `increment_counter` is `Handle`, the receipt of a stop `Obey`, the
  dispatcher's death `Fail`; all others stutter.

### Start-up and the whole program (`StartupAssumption`, `NaaradAssumption`)

* `StartupTypeCorrect`, `EofOnlyAfterDispatcher`, `PipesAreWired` (`NaaradProofs`):
  `StartupSpec` implies `[]TypeOK`, `[]NoEarlyEof` and `[]PipesWired`. Neither property is
  inductive: that nobody holds an end follows from what everybody holds. `HoldInv` says just
  that, process by process: the main process at consumer `n` has all ends of the
  consumers from `n` on and the two it keeps of each one before (`AtFork`), a consumer
  that has not closed yet what its parent had when it was forked, the dispatcher what
  the parent had after the last.
* `RunsAreStartups`: `Spec => StartupSpec`, action by action, each step of
  the program one of `Startup` or a stutter. `NoEofInAnyRun` and `WiredInEveryRun` follow.
* `NaaradTypeCorrect`, `NoLossWithoutDeath`: `Spec => []NaaradTypeOK` and
  `Spec => []LossNeedsDeath`. `LossInv` follows a message from the queue on: `SentInv`, every serial
  posted is in the queue or was received; `TraceInv`, what this run received is in the hand, in a
  pipe, taken or counted, if only of a process that is gone; and `EofInv`, a consumer that
  exited did so at end of file and left nothing. The last needs `NoEarlyEof`: whoever could still
  write to that pipe had to be gone before.

### Recent events (`QueueAssumption`)

All of `LockFreeQueueProofs` rests on one invariant, `QInv`: there is a sequence `s` of nodes, the
list in memory, and everything shared is described by it.

* `Chained`: its nodes are distinct and each links to the next, the last to NULL. `Holds`: its
  nodes but the dummy hold the newest serials of `linked`, whole and in order.
* `OpenInv` says who owns what: the nodes allocated are those of `s`, the one being filled and
  the one popped and not yet freed, and `tail` is the last or the one before. `StepInv` says
  what the main thread's registers are worth at each of its steps: it is the only writer, so what it
  loaded is still so when its compare-exchange comes, which can fail only spuriously.
* `SizeInv` relates `size` to the length of `s` step by step, as `size` is counted after the link and
  after the unlink. `CloseInv` is the same for `freeDequeue`. `PlaceInv` and `SerialInv` hold the
  walk's place and say that events are linked as they occur.

From it follow `QueueTypeCorrect`, `QueueKeepsNewest` (`KeepsNewest`), `QueueLeaksNothing`
(`NoLeakNoDangling`) and `ListRecordsRecent`, the refinement of `RecentEvents`: the successful
compare-exchange of `next` is `Record`, that of `head` `Evict`, the first access of `freeDequeue`
`Close`, the rest stutters. `WalkIsExact` (`QuietWalkIsExact`) needs `WalkInv`: while nothing has been freed
since the walk began, the node it is at is the one of `s`, or the one popped and not yet
freed, that holds the event after the last it copied (`At`), and what it copied is a run of
`linked`; `PoppedInv` says what the popped node held.

The model reads the list as a recursive function of the number of links followed;
`FollowsList` computes it for every length from `s`.

### The event path (`HooksAssumption`, `EventPathAssumption`)

* `HooksTypeCorrect` (`EventPathProofs`): `HooksSpec => []HooksTypeOK`. `HookShape` says what the
  place of a hook tells of it; that elements stay apart is shown element by element (`Apart`),
  since the one that is filled was a spare or free (`FilledWasOut`).
* `QuietHooksAreGenuine`: `HooksSpec => []QuietHookIsGenuine`, for any number of preemptions and
  any number of elements. `HooksSound` says what a quiet hook has made so far of the scratch
  data and of the element it holds, `CacheSound` that what a quiet hook put in an element that is
  in the cache is a name of that inode number; each lemma shows that a step that writes scratch
  data or fills an element leaves no hook it disturbs quiet. `EventPathHooks`
  (`Spec => HooksSpec`) carries both to the whole path.
* `EventPathTypeCorrect`: `Spec => []TypeOK`, with `BatchInv`: the batch
  is still in the ring while it is handled, and a ring that was reported ready is not empty
  when its turn comes.
* `CountersAgree`: `Spec => []CountersTrack`, with `BatchInv`. A hook may append to the ring
  that is being drained, so that the event in hand is the same one before and after has to be
  proved; the number of records of an operation grows by one with it (`CountAppend`).
* `NothingLostInOrder`: `Spec => []PerCpuOrder`. What is recorded of a CPU and what
  waits in its ring are the two parts of what the ring took. `OrderInv` says where they meet: the ring
  is the end of `kept` behind the events recorded, but for those of the batch that are both recorded and
  not yet given back (`RingInv`); the n-th event recorded of a CPU is the n-th it was given (`Placed`);
  a record is counted for the CPU whose ring it came from (`RingsOwn`).

### The terminal interface (`TuiAssumption` besides)

* `TuiLeavesEventPath` (`TuiProofs`): `TuiSpec => Spec`; every theorem about `EventPath` holds beside the
  TUI thread.
* `SelectionInRange`: `TuiSpec => []TuiTypeOK`, whatever the keys.
* `BarsAreTimely`: `TuiSpec => []BarsBetween`. `BarsInv` adds the bar in hand: the terms read so far
  add up to at least what they were when the drawing began and at most what they are
  (`PartBetween`), which needs that a counter only grows (`CountersGrow`).

### The operation map (`OperationMapAssumption`)

* `FoundIsLast`, `LostToEarlier` (`OperationMapProofs`): `Spec => []FoundIsLastInserted` and
  `Spec => []LostOnlyByCollision`. `MapInv` says how the table reflects all inserts so far: a
  slot in use holds the last value inserted for its name, and is the name's own (`Latest`); the slot of
  every name inserted is in use, by the name or by one inserted before it ever was (`Taken`).
  `InsertReflects` is the step, for any table and any list of inserts, and
  `LoadedReflects` repeats it over the inserts of `init_operation_map`.
* `DistinctAreKnown`: if no two operations hash alike, `Spec => []OperationsKnown`. The eleven of the
  program do not in 100 slots: the run `operation_map` has the program's own names and table.

Nothing is used of `hash` but that it is a slot (`HashIsSlot`): the code stays right with any other.
`hash` and `Loaded` are recursive functions; that their definitions have a solution, and what holds of it, is
shown by least counterexamples (`Iteration`, `KeptToTheEnd`), because a set of numbers
that is not empty has a least one (`Least`), which the library proves of any well-founded order.

### What stays with TLC

All liveness properties (`EventuallyHandled`, `ConsumersFollowDispatcher`, `PushReturns`,
`EventuallyRecorded`, `SigIntStops`, and `CtrlCEndsChildren`, `CtrlCEndsMain`,
`ConsumersNotLeftBehind` and `QueueServed` of `Naarad`), since fairness and ENABLED are beyond these provers; which numbers `hash` gives for the
program's names; and the four violated claims, for which a behaviour is shown rather than proved.
Symmetry is TLC's only.

## 5. What is not modelled

* Of the terminal interface: windows, colours, layout, the fixed text of the paragraph and
  the list, the look-up of user and group names. Logging is text only.
* A `mq_receive` or a `read` that fails otherwise than by end of file, and the `EAGAIN` branch of
  `send_with_retry`, which a blocking queue never takes. A `select` that fails goes on as
  one that timed out. An old `/test_queue` with other attributes than `get_message_queue` asks for;
  a `category` outside `0 .. 3`, which only a foreign process could send.
* What an orphan dispatcher does with a message after it has received it, and its consumers.
* Files as distinct from their inode numbers: a number that is used again after an unlink
  keeps the old name in the cache. Paths that do not fit in the name, which `bpf_d_path` then
  leaves empty or cut. Of the kernel's hash map only which element is given out and when; that the
  bytes of an element change one by one while they are copied is not told apart from the
  new name.
* The branch of `popFront` that helps a lagging tail and its "queue is empty" branch are
  modelled (`popHelp`) but unreachable, since only `pushRear` calls it, with one more
  entry than allowed. `isEmpty` and `isFull` are not called. Memory other than
  nodes does not reuse freed nodes, and the array `displayEntries` fills is not memory of
  the model.
* Third-party code other than libbpf's perf buffer reader, the kernel type dumps under
  `src/vmlinux`, and what the build makes. These are nearly all lines of the
  repository: the program itself is about two thousand.

## 6. Plan

The modules planned are written, and each invariant a run checks is proved. What is left:

1. In `Dispatch`, a `mq_receive` that fails and sends the dispatcher to its stop loop
   without a stop message; the proofs about what the dispatcher holds change with it.
2. The step from `Naarad` to `Dispatch`: that the pipes of one run, once wired, behave as `Dispatch`
   takes for granted, as a refinement instead of the argument given above.
3. The action properties that liveness rests on: that a step never undoes what another process
   waits for.
4. The lemma `Least`, stated where each proof that needs it can cite it.
