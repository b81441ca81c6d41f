-------------------------------- MODULE Tui --------------------------------
(***************************************************************************)
(* The terminal interface, a thread of the main process beside the event   *)
(* path: make_tui() of src/file_monitor.c, which waits for keys and draws  *)
(* when one has changed the selection, and what include/tui/tui.c draws: a *)
(* bar graph of the operation counters, which the main thread goes on      *)
(* incrementing, and a table of the recent events.                         *)
(*                                                                         *)
(* Windows, colours and layout are left out, and so are the list and the   *)
(* paragraph, whose text is fixed.  The walk over the queue of recent      *)
(* events is one step: LockFreeQueue has its accesses, and what becomes of *)
(* it while main() returns.                                                *)
(***************************************************************************)
EXTENDS EventPath

CONSTANTS
  MAX_ENTRIES,  (* events the queue of recent events keeps                   *)
  Keys,         (* keys that are pressed                                     *)
  MaxKeys       (* bound: keys ever pressed                                  *)

AllKeys == {"q", "KEY_UP", "KEY_DOWN", "TAB", "SHIFT+TAB"}

ASSUME TuiAssumption ==
  MAX_ENTRIES \in Nat \ {0} /\ Keys \subseteq AllKeys /\ MaxKeys \in Nat

NUM_TABS   == 2
NUM_BLOCKS == 3

(* The counters each bar adds up: read, write, delete, rename, misc.       *)
Bars == <<{0, 1}, {2, 3, 7}, {5, 8}, {10}, {4, 6, 9}>>
NUM_BARS == Len(Bars)

VARIABLES
  tui,            (* what the TUI thread is about to do                      *)
  keys,           (* keys pressed so far                                     *)
  current_tab, current_block,
  bar, unread,    (* in draw_bar_graph(): the bar, and its counters not read *)
  values,         (* per bar, the sum so far                                 *)
  rows,           (* the events in the table                                 *)
  before          (* ghost: the counters when the bars were begun            *)

drawVars == <<bar, unread, values, rows, before>>
tuiVars  == <<tui, keys, current_tab, current_block, drawVars>>
allVars  == <<vars, tuiVars>>

TuiTypeOK ==
  /\ TypeOK
  /\ tui \in {"draw", "bars", "getch", "ended"}
  /\ keys \in 0 .. MaxKeys
  /\ current_tab \in 0 .. NUM_TABS - 1
  /\ current_block \in 0 .. (IF current_tab = 0 THEN NUM_BLOCKS - 1 ELSE 0)
  /\ bar \in 1 .. NUM_BARS /\ unread \subseteq Bars[bar]
  /\ values \in [1 .. NUM_BARS -> Nat]
  /\ rows \in Seq(Event) /\ Len(rows) <= MAX_ENTRIES
  /\ before \in [Codes -> Nat]

(* redraw_screen() is called before the first key is looked for.           *)
TuiInit ==
  /\ Init
  /\ tui = "draw" /\ keys = 0 /\ current_tab = 0 /\ current_block = 0
  /\ bar = 1 /\ unread = {} /\ values = [b \in 1 .. NUM_BARS |-> 0]
  /\ rows = <<>>
  /\ before = counters

-----------------------------------------------------------------------------
(* The keys.                                                               *)

getch(k) ==
  /\ tui = "getch"
  /\ keys < MaxKeys
  /\ keys' = keys + 1
  /\ UNCHANGED <<vars, drawVars>>

Select(tab, block) ==
  /\ current_tab' = tab /\ current_block' = block
  /\ tui' = "draw"

(* Mutant of TabKey: the index of the tab before the first is not wrapped. *)
TabNotWrapped(k) ==
  /\ getch(k)
  /\ \/ k = "TAB" /\ Select((current_tab + 1) % NUM_TABS, 0)
     \/ k = "SHIFT+TAB" /\ Select(current_tab - 1, 0)

(* Another tab, with its first block selected.                             *)
TabKey(k) ==
  /\ getch(k)
  /\ \/ k = "TAB" /\ Select((current_tab + 1) % NUM_TABS, 0)
     \/ k = "SHIFT+TAB" /\ Select((current_tab - 1 + NUM_TABS) % NUM_TABS, 0)

(* Another block of the first tab; nothing at its ends, or elsewhere.      *)
ArrowKey(k) ==
  LET to == IF k = "KEY_UP" THEN current_block - 1 ELSE current_block + 1
  IN  /\ k \in {"KEY_UP", "KEY_DOWN"}
      /\ getch(k)
      /\ IF current_tab = 0 /\ to \in 0 .. NUM_BLOCKS - 1
         THEN Select(0, to)
         ELSE UNCHANGED <<tui, current_tab, current_block>>

(* The thread ends; the main thread does not hear of it.                   *)
QuitKey(k) ==
  /\ k = "q"
  /\ getch(k)
  /\ tui' = "ended"
  /\ UNCHANGED <<current_tab, current_block>>

-----------------------------------------------------------------------------
(* Drawing.                                                                *)

(* The first block of the first tab is the bar graph.                      *)
draw_bar_graph ==
  /\ tui = "draw" /\ current_tab = 0
  /\ tui' = "bars"
  /\ bar' = 1 /\ unread' = Bars[1]
  /\ values' = [b \in 1 .. NUM_BARS |-> 0]
  /\ before' = counters
  /\ UNCHANGED <<vars, keys, current_tab, current_block, rows>>

Drawn ==
  IF bar < NUM_BARS
  THEN bar' = bar + 1 /\ unread' = Bars[bar + 1] /\ UNCHANGED tui
  ELSE tui' = "getch" /\ unread' = {} /\ UNCHANGED bar

(* Mutant of read_counter: the same counter is read for each term.         *)
ReadSame ==
  /\ tui = "bars"
  /\ \E k \in unread :
       /\ values' = [values EXCEPT ![bar] = @ + counters[CHOOSE j \in Bars[bar] : TRUE]]
       /\ IF unread # {k} THEN unread' = unread \ {k} /\ UNCHANGED <<bar, tui>>
                          ELSE Drawn
  /\ UNCHANGED <<vars, keys, current_tab, current_block, rows, before>>

(* One atomic load.  The terms of a sum are loaded in an order of the      *)
(* compiler's choice.                                                      *)
read_counter ==
  /\ tui = "bars"
  /\ \E k \in unread :
       /\ values' = [values EXCEPT ![bar] = @ + counters[k]]
       /\ IF unread # {k} THEN unread' = unread \ {k} /\ UNCHANGED <<bar, tui>>
                          ELSE Drawn
  /\ UNCHANGED <<vars, keys, current_tab, current_block, rows, before>>

(* The newest events, up to the first without a file name, which is taken  *)
(* for the end; when there are none yet the table is left as it is.        *)
Held ==
  LET n == Len(recorded)
  IN  SubSeq(recorded, IF n > MAX_ENTRIES THEN n - MAX_ENTRIES + 1 ELSE 1, n)

update_table ==
  /\ tui = "draw" /\ current_tab = 1
  /\ IF Held = <<>> THEN UNCHANGED rows
     ELSE \E n \in 0 .. Len(Held) :
            /\ \A m \in 1 .. n : Held[m].file # 0
            /\ n < Len(Held) => Held[n + 1].file = 0
            /\ rows' = SubSeq(Held, 1, n)
  /\ tui' = "getch"
  /\ UNCHANGED <<vars, keys, current_tab, current_block, bar, unread, values, before>>

redraw_screen == draw_bar_graph \/ read_counter \/ update_table

(* Until main() returns.                                                   *)
make_tui ==
  /\ main # "stopped"
  /\ \/ \E k \in Keys : TabKey(k) \/ ArrowKey(k) \/ QuitKey(k)
     \/ redraw_screen

TuiNext == (Next /\ UNCHANGED tuiVars) \/ make_tui

TuiSpec == TuiInit /\ [][TuiNext]_allVars

-----------------------------------------------------------------------------
(* Properties.                                                             *)

(* The sums of draw_bar_graph(), of counters that do not change.           *)
BarsOf(f) ==
  <<f[0] + f[1], f[2] + f[3] + f[7], f[5] + f[8], f[10], f[4] + f[6] + f[9]>>

(* The bars are no snapshot: events are counted while they are read one    *)
(* counter after another.  But each is a number of operations that was     *)
(* right at some moment: no less than the count when the drawing began, no *)
(* more than the count now, and both the same when nothing happened.       *)
BarsBetween ==
  \A b \in 1 .. NUM_BARS :
    (tui \in {"getch", "ended"} \/ (tui = "bars" /\ b < bar)) =>
      BarsOf(before)[b] <= values[b] /\ values[b] <= BarsOf(counters)[b]
=============================================================================
