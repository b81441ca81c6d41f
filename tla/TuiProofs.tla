------------------------------ MODULE TuiProofs ------------------------------
(***************************************************************************)
(* Proofs about the terminal interface beside the event path: that it      *)
(* leaves the event path as it is, that its selection stays in range       *)
(* whatever keys are pressed, and that the bars it draws while events are  *)
(* counted are right at some moment of the drawing.                        *)
(***************************************************************************)
EXTENDS Tui, EventPathProofs

USE EventPathAssumption, TuiAssumption

-----------------------------------------------------------------------------
(* The event path is not disturbed.                                        *)

LEMMA TuiStepsAreSteps == [TuiNext]_allVars => [Next]_vars
  <1>1. ASSUME NEW k, TabKey(k) \/ ArrowKey(k) \/ QuitKey(k)
        PROVE  UNCHANGED vars
    BY <1>1 DEF TabKey, ArrowKey, QuitKey, getch
  <1>2. redraw_screen => UNCHANGED vars
    BY DEF redraw_screen, draw_bar_graph, read_counter, update_table
  <1>3. QED BY <1>1, <1>2 DEF TuiNext, make_tui, allVars

(* Beside the TUI thread the event path behaves as it does alone.          *)
THEOREM TuiLeavesEventPath == TuiSpec => Spec
  <1>1. TuiInit => Init
    BY DEF TuiInit
  <1>2. QED BY <1>1, TuiStepsAreSteps, PTL DEF TuiSpec, Spec
-----------------------------------------------------------------------------
(* Sums of counters.                                                       *)

LEMMA BarsAre ==
  /\ NUM_BARS = 5
  /\ Bars[1] = {0, 1} /\ Bars[2] = {2, 3, 7} /\ Bars[3] = {5, 8}
  /\ Bars[4] = {10} /\ Bars[5] = {4, 6, 9}
  /\ \A b \in 1 .. NUM_BARS : Bars[b] \subseteq Codes /\ Bars[b] # {}
  <1>1. NUM_BARS = 5
    BY DEF NUM_BARS, Bars
  <1>2. /\ Bars[1] = {0, 1} /\ Bars[2] = {2, 3, 7} /\ Bars[3] = {5, 8}
        /\ Bars[4] = {10} /\ Bars[5] = {4, 6, 9}
    BY DEF Bars
  <1>3. ASSUME NEW b \in 1 .. 5
        PROVE  Bars[b] \subseteq Codes /\ Bars[b] # {}
    <2>1. b = 1 \/ b = 2 \/ b = 3 \/ b = 4 \/ b = 5
      OBVIOUS
    <2>2. QED BY <1>2, <2>1 DEF Codes
  <1>4. QED BY <1>1, <1>2, <1>3

(* The counters of S added up.                                             *)
Term(f, S, k) == IF k \in S THEN f[k] ELSE 0
SumOf(f, S) ==
  Term(f, S, 0) + Term(f, S, 1) + Term(f, S, 2) + Term(f, S, 3) + Term(f, S, 4)
    + Term(f, S, 5) + Term(f, S, 6) + Term(f, S, 7) + Term(f, S, 8) + Term(f, S, 9)
    + Term(f, S, 10)

LEMMA TermTyped ==
  ASSUME NEW f \in [Codes -> Nat], NEW S
  PROVE  \A k \in Codes : Term(f, S, k) \in Nat
  BY DEF Term

LEMMA SumOfNone ==
  ASSUME NEW f
  PROVE  SumOf(f, {}) = 0
  BY DEF SumOf, Term

LEMMA SumOfMore ==
  ASSUME NEW f \in [Codes -> Nat], NEW S, NEW k \in Codes \ S
  PROVE  /\ SumOf(f, S) \in Nat
         /\ SumOf(f, S \union {k}) = SumOf(f, S) + f[k]
  <1>1. \A j \in Codes : Term(f, S, j) \in Nat /\ Term(f, S \union {k}, j) \in Nat
    BY TermTyped
  <1>2. \A j \in Codes : j # k => Term(f, S \union {k}, j) = Term(f, S, j)
    BY DEF Term
  <1>3. Term(f, S \union {k}, k) = f[k] /\ Term(f, S, k) = 0 /\ f[k] \in Nat
    BY DEF Term
  <1>4. \/ k = 0 \/ k = 1 \/ k = 2 \/ k = 3 \/ k = 4 \/ k = 5
        \/ k = 6 \/ k = 7 \/ k = 8 \/ k = 9 \/ k = 10
    BY DEF Codes
  <1>5. QED BY <1>1, <1>2, <1>3, <1>4 DEF SumOf, Codes

LEMMA SumMonotone ==
  ASSUME NEW f \in [Codes -> Nat], NEW g \in [Codes -> Nat],
         \A k \in Codes : f[k] <= g[k], NEW S
  PROVE  SumOf(f, S) <= SumOf(g, S) /\ SumOf(f, S) \in Nat /\ SumOf(g, S) \in Nat
  <1>1. \A k \in Codes : Term(f, S, k) \in Nat /\ Term(g, S, k) \in Nat
    BY TermTyped
  <1>2. \A k \in Codes : Term(f, S, k) <= Term(g, S, k)
    BY DEF Term
  <1>3. QED BY <1>1, <1>2 DEF SumOf, Codes

LEMMA SumOfBar ==
  ASSUME NEW f \in [Codes -> Nat], NEW b \in 1 .. NUM_BARS
  PROVE  SumOf(f, Bars[b]) = BarsOf(f)[b]
  <1>1. b = 1 \/ b = 2 \/ b = 3 \/ b = 4 \/ b = 5
    BY BarsAre
  <1>2. \A k \in 0 .. 10 : f[k] \in Nat
    BY DEF Codes
  <1>3. /\ SumOf(f, {0, 1}) = f[0] + f[1]
        /\ SumOf(f, {2, 3, 7}) = f[2] + f[3] + f[7]
        /\ SumOf(f, {5, 8}) = f[5] + f[8]
        /\ SumOf(f, {10}) = f[10]
        /\ SumOf(f, {4, 6, 9}) = f[4] + f[6] + f[9]
    BY <1>2 DEF SumOf, Term
  <1>4. /\ BarsOf(f)[1] = f[0] + f[1] /\ BarsOf(f)[2] = f[2] + f[3] + f[7]
        /\ BarsOf(f)[3] = f[5] + f[8] /\ BarsOf(f)[4] = f[10]
        /\ BarsOf(f)[5] = f[4] + f[6] + f[9]
    BY DEF BarsOf
  <1>5. QED BY <1>1, <1>3, <1>4, BarsAre
-----------------------------------------------------------------------------
(* Types.                                                                  *)

TuiTypes ==
  /\ tui \in {"draw", "bars", "getch", "ended"}
  /\ keys \in 0 .. MaxKeys
  /\ current_tab \in 0 .. NUM_TABS - 1
  /\ current_block \in 0 .. (IF current_tab = 0 THEN NUM_BLOCKS - 1 ELSE 0)
  /\ bar \in 1 .. NUM_BARS /\ unread \subseteq Bars[bar]
  /\ values \in [1 .. NUM_BARS -> Nat]
  /\ rows \in Seq(Event) /\ Len(rows) <= MAX_ENTRIES
  /\ before \in [Codes -> Nat]

LEMMA HeldTyped ==
  ASSUME TypeOK
  PROVE  Held \in Seq(Event) /\ Len(Held) \in Nat /\ Len(Held) <= MAX_ENTRIES
  <1>1. recorded \in Seq(Event) /\ Len(recorded) \in Nat /\ MAX_ENTRIES \in Nat \ {0}
    BY DEF TypeOK
  <1>2. CASE Len(recorded) > MAX_ENTRIES
    <2>1. Held = SubSeq(recorded, Len(recorded) - MAX_ENTRIES + 1, Len(recorded))
      BY <1>2 DEF Held
    <2>2. Held \in Seq(Event) /\ Len(Held) = MAX_ENTRIES
      BY <1>1, <1>2, <2>1
    <2>3. QED BY <1>1, <2>2
  <1>3. CASE ~ (Len(recorded) > MAX_ENTRIES)
    <2>1. Held = recorded
      BY <1>1, <1>3 DEF Held
    <2>2. QED BY <1>1, <1>3, <2>1
  <1>4. QED BY <1>2, <1>3

LEMMA KeysTyped ==
  ASSUME TuiTypes, NEW k, TabKey(k) \/ ArrowKey(k) \/ QuitKey(k)
  PROVE  TuiTypes'
  <1>1. /\ keys' = keys + 1 /\ keys < MaxKeys /\ MaxKeys \in Nat
        /\ UNCHANGED <<bar, unread, values, rows, before>>
    BY DEF TabKey, ArrowKey, QuitKey, getch, drawVars
  <1>2. keys' \in 0 .. MaxKeys
    BY <1>1 DEF TuiTypes
  <1>3. /\ tui' \in {"draw", "bars", "getch", "ended"}
        /\ current_tab' \in 0 .. NUM_TABS - 1
        /\ current_block' \in 0 .. (IF current_tab' = 0 THEN NUM_BLOCKS - 1 ELSE 0)
    <2>1. CASE TabKey(k)
      <3>1. tui' = "draw" /\ current_block' = 0
        BY <2>1 DEF TabKey, Select
      <3>2. current_tab = 0 \/ current_tab = 1
        BY DEF TuiTypes, NUM_TABS
      <3>3. current_tab' = (current_tab + 1) % 2 \/ current_tab' = (current_tab - 1 + 2) % 2
        BY <2>1 DEF TabKey, Select, NUM_TABS
      <3>4. current_tab' \in 0 .. 1
        BY <3>2, <3>3
      <3>5. QED BY <3>1, <3>4 DEF NUM_TABS, NUM_BLOCKS
    <2>2. CASE ArrowKey(k)
      <3>1. \/ \E to \in 0 .. NUM_BLOCKS - 1 :
                 tui' = "draw" /\ current_tab' = 0 /\ current_block' = to
            \/ UNCHANGED <<tui, current_tab, current_block>>
        BY <2>2 DEF ArrowKey, Select
      <3>2. QED BY <3>1 DEF TuiTypes, NUM_TABS, NUM_BLOCKS
    <2>3. CASE QuitKey(k)
      BY <2>3 DEF QuitKey, TuiTypes
    <2>4. QED BY <2>1, <2>2, <2>3
  <1>4. QED BY <1>1, <1>2, <1>3 DEF TuiTypes

(* What reading counter k of the bar being drawn does.                     *)
LEMMA ReadCounter ==
  ASSUME TypeOK, TuiTypes, read_counter
  PROVE  /\ tui = "bars" /\ UNCHANGED <<vars, keys, current_tab, current_block, rows, before>>
         /\ \E k \in unread :
              /\ k \in Codes /\ counters[k] \in Nat
              /\ values' = [values EXCEPT ![bar] = values[bar] + counters[k]]
              /\ \/ /\ unread # {k} /\ unread' = unread \ {k} /\ bar' = bar /\ tui' = tui
                 \/ /\ unread = {k} /\ bar < NUM_BARS /\ bar' = bar + 1
                    /\ unread' = Bars[bar + 1] /\ tui' = tui
                 \/ /\ unread = {k} /\ bar = NUM_BARS /\ bar' = bar
                    /\ unread' = {} /\ tui' = "getch"
  <1>1. tui = "bars" /\ UNCHANGED <<vars, keys, current_tab, current_block, rows, before>>
    BY DEF read_counter
  <1>2. PICK k \in unread :
           /\ values' = [values EXCEPT ![bar] = values[bar] + counters[k]]
           /\ IF unread # {k} THEN unread' = unread \ {k} /\ UNCHANGED <<bar, tui>> ELSE Drawn
    BY DEF read_counter
  <1>3. k \in Codes /\ counters[k] \in Nat
    BY BarsAre DEF TuiTypes, TypeOK
  <1>4. bar \in 1 .. 5 /\ NUM_BARS = 5
    BY BarsAre DEF TuiTypes
  <1>5. bar < NUM_BARS \/ bar = NUM_BARS
    BY <1>4
  <1>6. QED BY <1>1, <1>2, <1>3, <1>5 DEF Drawn

LEMMA TuiTyped ==
  ASSUME TypeOK, TuiTypes, [TuiNext]_allVars
  PROVE  TuiTypes'
  <1>1. CASE UNCHANGED tuiVars
    BY <1>1 DEF tuiVars, drawVars, TuiTypes
  <1>2. ASSUME NEW k, TabKey(k) \/ ArrowKey(k) \/ QuitKey(k)
        PROVE  TuiTypes'
    BY <1>2, KeysTyped
  <1>3. CASE draw_bar_graph
    <2>1. /\ tui' = "bars" /\ bar' = 1 /\ unread' = Bars[1] /\ before' = counters
          /\ values' = [b \in 1 .. NUM_BARS |-> 0]
          /\ UNCHANGED <<keys, current_tab, current_block, rows>>
      BY <1>3 DEF draw_bar_graph
    <2>2. 1 \in 1 .. NUM_BARS /\ values' \in [1 .. NUM_BARS -> Nat] /\ before' \in [Codes -> Nat]
      BY <2>1, BarsAre DEF TypeOK
    <2>3. QED BY <2>1, <2>2 DEF TuiTypes
  <1>4. CASE read_counter
    <2>1. /\ tui = "bars" /\ UNCHANGED <<keys, current_tab, current_block, rows, before>>
      BY <1>4, ReadCounter
    <2>2. PICK k \in unread :
             /\ k \in Codes /\ counters[k] \in Nat
             /\ values' = [values EXCEPT ![bar] = values[bar] + counters[k]]
             /\ \/ /\ unread' = unread \ {k} /\ bar' = bar /\ tui' = tui
                \/ /\ bar < NUM_BARS /\ bar' = bar + 1
                   /\ unread' = Bars[bar + 1] /\ tui' = tui
                \/ /\ bar' = bar /\ unread' = {} /\ tui' = "getch"
      BY <1>4, ReadCounter
    <2>3. bar \in 1 .. 5 /\ NUM_BARS = 5 /\ values \in [1 .. NUM_BARS -> Nat]
      BY BarsAre DEF TuiTypes
    <2>4. values' \in [1 .. NUM_BARS -> Nat]
      <3>1. values[bar] + counters[k] \in Nat
        BY <2>2, <2>3
      <3>2. QED BY <2>2, <2>3, <3>1
    <2>5. bar' \in 1 .. NUM_BARS /\ unread' \subseteq Bars[bar']
      BY <2>2, <2>3, SMTT(30) DEF TuiTypes
    <2>6. tui' \in {"draw", "bars", "getch", "ended"}
      BY <2>1, <2>2
    <2>7. QED BY <2>1, <2>4, <2>5, <2>6 DEF TuiTypes
  <1>5. CASE update_table
    <2>1. /\ tui' = "getch"
          /\ UNCHANGED <<keys, current_tab, current_block, bar, unread, values, before>>
      BY <1>5 DEF update_table
    <2>2. rows' \in Seq(Event) /\ Len(rows') <= MAX_ENTRIES
      <3>1. CASE rows' = rows
        BY <3>1 DEF TuiTypes
      <3>2. ASSUME NEW n \in 0 .. Len(Held), rows' = SubSeq(Held, 1, n)
            PROVE  rows' \in Seq(Event) /\ Len(rows') <= MAX_ENTRIES
        <4>1. Held \in Seq(Event) /\ Len(Held) \in Nat /\ Len(Held) <= MAX_ENTRIES
          BY HeldTyped
        <4>2. SubSeq(Held, 1, n) \in Seq(Event) /\ Len(SubSeq(Held, 1, n)) = n
          BY <4>1
        <4>3. QED BY <3>2, <4>1, <4>2
      <3>3. QED BY <1>5, <3>1, <3>2 DEF update_table
    <2>3. QED BY <2>1, <2>2 DEF TuiTypes
  <1>6. QED
    BY <1>1, <1>2, <1>3, <1>4, <1>5 DEF TuiNext, make_tui, redraw_screen, allVars

(* Whatever keys are pressed the selected tab and block exist, and the     *)
(* table never has more rows than the queue keeps.                         *)
THEOREM SelectionInRange == TuiSpec => []TuiTypeOK
  <1>1. TuiInit => TuiTypes
    <2> SUFFICES ASSUME TuiInit PROVE TuiTypes
      OBVIOUS
    <2>1. /\ tui = "draw" /\ keys = 0 /\ current_tab = 0 /\ current_block = 0
          /\ bar = 1 /\ unread = {} /\ values = [b \in 1 .. NUM_BARS |-> 0]
          /\ rows = <<>> /\ before = [k \in Codes |-> 0]
      BY DEF TuiInit, Init
    <2>2. bar \in 1 .. NUM_BARS /\ keys \in 0 .. MaxKeys /\ rows \in Seq(Event)
          /\ Len(rows) <= MAX_ENTRIES
      BY <2>1, BarsAre
    <2>3. values \in [1 .. NUM_BARS -> Nat] /\ before \in [Codes -> Nat]
      BY <2>1
    <2>4. QED BY <2>1, <2>2, <2>3 DEF TuiTypes, NUM_TABS, NUM_BLOCKS
  <1>2. TypeOK /\ TuiTypes /\ [TuiNext]_allVars => TuiTypes'
    BY TuiTyped
  <1>3. TypeOK /\ TuiTypes => TuiTypeOK
    BY DEF TuiTypes, TuiTypeOK
  <1>4. QED
    BY <1>1, <1>2, <1>3, TuiLeavesEventPath, EventPathTypeCorrect, PTL DEF TuiSpec
-----------------------------------------------------------------------------
(* The bars.                                                               *)

Between(b) ==
  BarsOf(before)[b] <= values[b] /\ values[b] <= BarsOf(counters)[b]

(* The counters read of the bar being drawn add up to no less than they    *)
(* were when the drawing began, and to no more than they are.              *)
PartBetween ==
  LET read == Bars[bar] \ unread
  IN  SumOf(before, read) <= values[bar] /\ values[bar] <= SumOf(counters, read)

BarsInv ==
  /\ \A k \in Codes : before[k] <= counters[k]
  /\ tui = "bars" =>
       PartBetween /\ \A b \in 1 .. NUM_BARS : b > bar => values[b] = 0
  /\ \A b \in 1 .. NUM_BARS : (tui # "bars" \/ b < bar) => Between(b)

(* Counters only grow.                                                     *)
LEMMA CountersGrow ==
  ASSUME TypeOK, [Next]_vars
  PROVE  \A k \in Codes : counters[k] \in Nat /\ counters'[k] \in Nat /\ counters[k] <= counters'[k]
  <1>1. counters \in [Codes -> Nat]
    BY DEF TypeOK
  <1>2. CASE increment_counter
    <2>1. counters' = counters \/ \E k \in Codes : counters' = [counters EXCEPT ![k] = counters[k] + 1]
      BY <1>2 DEF increment_counter
    <2>2. QED BY <1>1, <2>1
  <1>3. CASE counters' = counters
    BY <1>1, <1>3
  <1>4. QED
    BY <1>2, <1>3 DEF Next, MainStep, RunHook, OutputEvent, sig_int, run_main_loop, poll,
       process_records, pushRear, producer, dispatcher_receives, dispatcher_dies, vars, handleVars

LEMMA BarsKept ==
  ASSUME TypeOK, TypeOK', TuiTypes, BarsInv, [Next]_vars, UNCHANGED tuiVars
  PROVE  BarsInv'
  <1>1. /\ tui' = tui /\ bar' = bar /\ unread' = unread /\ values' = values /\ before' = before
    BY DEF tuiVars, drawVars
  <1>2. /\ counters \in [Codes -> Nat] /\ counters' \in [Codes -> Nat]
        /\ \A k \in Codes : counters[k] <= counters'[k]
    BY CountersGrow DEF TypeOK
  <1>3. before \in [Codes -> Nat] /\ values \in [1 .. NUM_BARS -> Nat] /\ bar \in 1 .. NUM_BARS
    BY DEF TuiTypes
  <1>4. \A k \in Codes : before[k] <= counters'[k]
    BY <1>2, <1>3 DEF BarsInv
  <1>5. \A S : /\ SumOf(counters, S) <= SumOf(counters', S)
               /\ SumOf(counters, S) \in Nat /\ SumOf(counters', S) \in Nat
    BY <1>2, SumMonotone
  <1>6. tui = "bars" => PartBetween'
    <2> SUFFICES ASSUME tui = "bars" PROVE PartBetween'
      OBVIOUS
    <2> DEFINE read == Bars[bar] \ unread
    <2>1. SumOf(before, read) <= values[bar] /\ values[bar] <= SumOf(counters, read)
      BY DEF BarsInv, PartBetween
    <2>2. values[bar] \in Nat
      BY <1>3
    <2> HIDE DEF read
    <2>3. values[bar] <= SumOf(counters', read)
      BY <1>5, <2>1, <2>2
    <2>4. QED BY <1>1, <2>1, <2>3 DEF PartBetween, read
  <1>7. ASSUME NEW b \in 1 .. NUM_BARS, Between(b)
        PROVE  Between(b)'
    <2>1. /\ BarsOf(counters)[b] = SumOf(counters, Bars[b])
          /\ BarsOf(counters')[b] = SumOf(counters', Bars[b])
      BY <1>2, SumOfBar
    <2>2. BarsOf(before)[b] <= values[b] /\ values[b] <= BarsOf(counters)[b] /\ values[b] \in Nat
      BY <1>3, <1>7 DEF Between
    <2>3. values[b] <= BarsOf(counters')[b]
      BY <1>5, <2>1, <2>2
    <2>4. QED BY <1>1, <2>2, <2>3 DEF Between
  <1>8. QED BY <1>1, <1>4, <1>6, <1>7 DEF BarsInv

(* The bars are begun with no counter read.                                *)
LEMMA BarsBegun ==
  ASSUME TypeOK, TuiTypes, draw_bar_graph
  PROVE  BarsInv'
  <1>1. /\ tui' = "bars" /\ bar' = 1 /\ unread' = Bars[1] /\ before' = counters
        /\ values' = [b \in 1 .. NUM_BARS |-> 0] /\ counters' = counters
    BY DEF draw_bar_graph, vars, handleVars
  <1>2. \A k \in Codes : before'[k] <= counters'[k]
    BY <1>1 DEF TypeOK
  <1>3. \A b \in 1 .. NUM_BARS : values'[b] = 0
    BY <1>1
  <1>4. PartBetween'
    <2>1. 1 \in 1 .. NUM_BARS /\ Bars[1] \ Bars[1] = {}
      BY BarsAre
    <2>2. SumOf(before', {}) = 0 /\ SumOf(counters', {}) = 0
      BY SumOfNone
    <2>3. values'[bar'] = 0 /\ Bars[bar'] \ unread' = {}
      BY <1>1, <1>3, <2>1
    <2>4. QED BY <2>2, <2>3 DEF PartBetween
  <1>5. \A b \in 1 .. NUM_BARS : ~ (b < bar')
    BY <1>1
  <1>6. QED BY <1>1, <1>2, <1>3, <1>4, <1>5 DEF BarsInv

(* A counter read is added to the bar, and the last one completes it.      *)
LEMMA BarsRead ==
  ASSUME TypeOK, TuiTypes, BarsInv, read_counter
  PROVE  BarsInv'
  <1>1. tui = "bars" /\ counters' = counters /\ before' = before
    BY ReadCounter DEF vars, handleVars
  <1>2. PICK k \in unread :
              /\ k \in Codes /\ counters[k] \in Nat
              /\ values' = [values EXCEPT ![bar] = values[bar] + counters[k]]
              /\ \/ /\ unread # {k} /\ unread' = unread \ {k} /\ bar' = bar /\ tui' = tui
                 \/ /\ unread = {k} /\ bar < NUM_BARS /\ bar' = bar + 1
                    /\ unread' = Bars[bar + 1] /\ tui' = tui
                 \/ /\ unread = {k} /\ bar = NUM_BARS /\ bar' = bar
                    /\ unread' = {} /\ tui' = "getch"
    BY ReadCounter
  <1>3. /\ before \in [Codes -> Nat] /\ values \in [1 .. NUM_BARS -> Nat]
        /\ bar \in 1 .. NUM_BARS /\ unread \subseteq Bars[bar]
        /\ counters \in [Codes -> Nat] /\ NUM_BARS = 5
    BY BarsAre DEF TuiTypes, TypeOK
  <1>4. before[k] <= counters[k] /\ before[k] \in Nat
    BY <1>2, <1>3 DEF BarsInv
  <1> DEFINE read == Bars[bar] \ unread
  <1>5. /\ SumOf(before, read) <= values[bar] /\ values[bar] <= SumOf(counters, read)
    BY <1>1 DEF BarsInv, PartBetween
  <1>6. /\ SumOf(before, read \union {k}) <= values'[bar]
        /\ values'[bar] <= SumOf(counters, read \union {k})
    <2>1. k \in Codes \ read
      BY <1>2
    <2> HIDE DEF read
    <2>2. /\ SumOf(before, read) \in Nat /\ SumOf(counters, read) \in Nat
          /\ SumOf(before, read \union {k}) = SumOf(before, read) + before[k]
          /\ SumOf(counters, read \union {k}) = SumOf(counters, read) + counters[k]
      BY <1>3, <2>1, SumOfMore
    <2>3. values'[bar] = values[bar] + counters[k] /\ values[bar] \in Nat
      BY <1>2, <1>3
    <2>4. QED BY <1>2, <1>4, <1>5, <2>2, <2>3
  <1>7. \A b \in 1 .. NUM_BARS : b # bar => values'[b] = values[b]
    BY <1>2, <1>3
  <1>8. ASSUME NEW b \in 1 .. NUM_BARS, b < bar
        PROVE  Between(b)'
    <2>1. Between(b) /\ values'[b] = values[b]
      BY <1>1, <1>3, <1>7, <1>8 DEF BarsInv
    <2>2. QED BY <1>1, <2>1 DEF Between
  <1>9. ASSUME NEW b \in 1 .. NUM_BARS, b > bar
        PROVE  values'[b] = 0
    BY <1>1, <1>3, <1>7, <1>9 DEF BarsInv
  <1>10. CASE unread' = unread \ {k} /\ bar' = bar /\ tui' = tui
    <2>1. Bars[bar'] \ unread' = read \union {k}
      BY <1>2, <1>3, <1>10
    <2>2. PartBetween'
      BY <1>1, <1>6, <1>10, <2>1 DEF PartBetween
    <2>3. QED BY <1>1, <1>8, <1>9, <1>10, <2>2 DEF BarsInv
  <1>11. CASE unread = {k}
    <2>1. read \union {k} = Bars[bar]
      BY <1>3, <1>11
    <2>2. ASSUME NEW b \in 1 .. NUM_BARS, b = bar
          PROVE  Between(b)'
      <3>1. /\ SumOf(before, Bars[b]) = BarsOf(before)[b]
            /\ SumOf(counters, Bars[b]) = BarsOf(counters)[b]
        BY <1>3, SumOfBar
      <3>2. QED BY <1>1, <1>6, <2>1, <2>2, <3>1 DEF Between
    <2>3. CASE bar < NUM_BARS /\ bar' = bar + 1 /\ unread' = Bars[bar + 1] /\ tui' = tui
      <3>1. bar + 1 \in 1 .. NUM_BARS /\ bar + 1 > bar
        BY <1>3, <2>3
      <3>2. values'[bar'] = 0 /\ Bars[bar'] \ unread' = {}
        BY <1>9, <2>3, <3>1
      <3>3. PartBetween'
        BY <1>1, <3>2, SumOfNone DEF PartBetween
      <3>4. \A b \in 1 .. NUM_BARS : /\ b > bar' => b > bar
                                     /\ b < bar' => b < bar \/ b = bar
        BY <1>3, <2>3
      <3>5. QED BY <1>1, <1>8, <1>9, <2>2, <2>3, <3>3, <3>4 DEF BarsInv
    <2>4. CASE bar = NUM_BARS /\ tui' = "getch"
      <3>1. \A b \in 1 .. NUM_BARS : b < bar \/ b = bar
        BY <1>3, <2>4
      <3>2. QED BY <1>1, <1>8, <2>2, <2>4, <3>1 DEF BarsInv
    <2>5. QED BY <1>2, <1>11, <2>3, <2>4
  <1>12. QED BY <1>2, <1>10, <1>11

(* Each bar drawn is a number of operations that was right at some moment  *)
(* of the drawing, however the counting and the reading interleave.        *)
THEOREM BarsAreTimely == TuiSpec => []BarsBetween
  <1>1. TuiInit => BarsInv
    <2> SUFFICES ASSUME TuiInit PROVE BarsInv
      OBVIOUS
    <2>1. /\ tui = "draw" /\ values = [b \in 1 .. NUM_BARS |-> 0]
          /\ before = [k \in Codes |-> 0] /\ counters = [k \in Codes |-> 0]
      BY DEF TuiInit, Init
    <2>2. ASSUME NEW b \in 1 .. NUM_BARS
          PROVE  Between(b)
      <3>1. before \in [Codes -> Nat] /\ counters = before
        BY <2>1
      <3>2. SumOf(before, Bars[b]) = 0
        <4>1. \A k \in Codes : Term(before, Bars[b], k) = 0
          BY <2>1 DEF Term
        <4>2. QED BY <4>1 DEF SumOf, Codes
      <3>3. BarsOf(before)[b] = 0
        BY <3>1, <3>2, SumOfBar
      <3>4. QED BY <2>1, <3>1, <3>3 DEF Between
    <2>3. QED BY <2>1, <2>2 DEF BarsInv
  <1>2. TypeOK /\ TypeOK' /\ TuiTypes /\ BarsInv /\ [TuiNext]_allVars => BarsInv'
    <2> SUFFICES ASSUME TypeOK, TypeOK', TuiTypes, BarsInv, [TuiNext]_allVars
                 PROVE  BarsInv'
      OBVIOUS
    <2>1. CASE UNCHANGED tuiVars
      <3>1. [Next]_vars
        BY TuiStepsAreSteps
      <3>2. QED BY <2>1, <3>1, BarsKept
    <2>2. CASE UNCHANGED <<vars, drawVars>> /\ tui # "bars" /\ tui' # "bars"
      <3>1. counters' = counters /\ values' = values /\ before' = before
        BY <2>2 DEF vars, handleVars, drawVars
      <3>2. QED BY <2>2, <3>1 DEF BarsInv, Between
    <2>3. ASSUME NEW k, TabKey(k) \/ ArrowKey(k) \/ QuitKey(k)
          PROVE  BarsInv'
      <3>1. UNCHANGED <<vars, drawVars>> /\ tui = "getch" /\ tui' \in {"draw", "getch", "ended"}
        BY <2>3 DEF TabKey, ArrowKey, QuitKey, getch, Select
      <3>2. QED BY <2>2, <3>1
    <2>4. CASE draw_bar_graph
      BY <2>4, BarsBegun
    <2>5. CASE read_counter
      BY <2>5, BarsRead
    <2>6. CASE update_table
      <3>1. /\ counters' = counters /\ values' = values /\ before' = before
            /\ tui = "draw" /\ tui' = "getch"
        BY <2>6 DEF update_table, vars, handleVars
      <3>2. QED BY <3>1 DEF BarsInv, Between
    <2>7. QED
      BY <2>1, <2>3, <2>4, <2>5, <2>6 DEF TuiNext, make_tui, redraw_screen, allVars
  <1>3. BarsInv => BarsBetween
    BY DEF BarsInv, BarsBetween, Between
  <1>4. TypeOK /\ TuiTypes <=> TuiTypeOK
    BY DEF TuiTypes, TuiTypeOK
  <1>5. QED
    BY <1>1, <1>2, <1>3, <1>4, SelectionInRange, PTL DEF TuiSpec
=============================================================================
