------------------------ MODULE LockFreeQueueProofs ------------------------
(***************************************************************************)
(* Proofs about the queue of recent events, for any MAX_ENTRIES and any    *)
(* number of nodes: that it keeps the newest events, that no node is       *)
(* leaked or followed after its free(), that it implements RecentEvents,   *)
(* and what a walk sees in which nothing is freed.                         *)
(***************************************************************************)
EXTENDS RecordsRecent, FiniteSetTheorems, NaturalsInduction, TLAPS

USE QueueAssumption

-----------------------------------------------------------------------------
(* The list from head, as the model follows it.                            *)

LEMMA Least ==
  ASSUME NEW T \in SUBSET Nat, T # {}
  PROVE  \E m \in T : \A n \in T : m <= n
  <1>1. \E m \in T : \A n \in T : ~ (<<n, m>> \in OpToRel(<, Nat))
    BY WFMin, NatLessThanWellFounded
  <1>2. \A m, n \in Nat : <<n, m>> \in OpToRel(<, Nat) <=> n < m
    BY DEF OpToRel
  <1>3. PICK m \in T : \A n \in T : ~ (<<n, m>> \in OpToRel(<, Nat))
    BY <1>1
  <1>4. \A n \in T : ~ (n < m) /\ n \in Nat /\ m \in Nat
    BY <1>2, <1>3
  <1>5. QED BY <1>4

(* A function that follows the links of s is s, and then NULL.             *)
FollowOf(h, link, k) ==
  CHOOSE f : f = [n \in 0 .. k |->
                    IF n = 0 THEN h ELSE IF f[n - 1] = NULL THEN NULL ELSE link[f[n - 1]]]

LEMMA FollowsList ==
  ASSUME NEW h, NEW link, NEW k \in Nat, NEW s \in Seq(Nodes), s # <<>>, h = s[1],
         \A i \in 1 .. Len(s) : link[s[i]] = IF i = Len(s) THEN NULL ELSE s[i + 1]
  PROVE  FollowOf(h, link, k)
           = [n \in 0 .. k |-> IF n < Len(s) THEN s[n + 1] ELSE NULL]
  <1> DEFINE g == [n \in 0 .. k |-> IF n < Len(s) THEN s[n + 1] ELSE NULL]
             Step(f) == [n \in 0 .. k |->
                    IF n = 0 THEN h ELSE IF f[n - 1] = NULL THEN NULL ELSE link[f[n - 1]]]
  <1>1. Len(s) \in Nat /\ Len(s) > 0 /\ \A i \in 1 .. Len(s) : s[i] \in Nodes /\ s[i] # NULL
    <2>1. \A i \in 1 .. Len(s) : s[i] \in Nodes
      OBVIOUS
    <2>2. \A x \in Nodes : x # NULL
      OBVIOUS
    <2>3. Len(s) \in Nat /\ Len(s) # 0
      OBVIOUS
    <2>4. \A i \in 1 .. Len(s) : s[i] # NULL
      BY <2>1, <2>2
    <2>5. QED BY <2>1, <2>3, <2>4
  <1>2. ASSUME NEW n \in 0 .. k, n # 0
        PROVE  g[n] = IF g[n - 1] = NULL THEN NULL ELSE link[g[n - 1]]
    <2>1. n - 1 \in 0 .. k /\ n - 1 + 1 = n
      BY <1>2
    <2>2. CASE n < Len(s)
      <3>1. n \in 1 .. Len(s) /\ n # Len(s) /\ n - 1 < Len(s)
        BY <1>1, <1>2, <2>2
      <3>2. g[n - 1] = s[n] /\ g[n] = s[n + 1]
        BY <2>1, <2>2, <3>1
      <3>3. QED BY <1>1, <3>1, <3>2
    <2>3. CASE n = Len(s)
      <3>1. n \in 1 .. Len(s) /\ n - 1 < Len(s) /\ ~ (n < Len(s))
        BY <1>1, <1>2, <2>3
      <3>2. g[n - 1] = s[n] /\ g[n] = NULL
        BY <2>1, <3>1
      <3>3. QED BY <1>1, <2>3, <3>1, <3>2
    <2>4. CASE n > Len(s)
      <3>1. ~ (n < Len(s)) /\ ~ (n - 1 < Len(s))
        BY <1>1, <1>2, <2>4
      <3>2. QED BY <2>1, <3>1
    <2>5. QED BY <1>1, <1>2, <2>2, <2>3, <2>4
  <1>3. g = Step(g)
    <2>1. g[0] = h
      BY <1>1
    <2>2. \A n \in 0 .. k : g[n] = Step(g)[n]
      <3> HIDE DEF g
      <3>1. QED BY <1>2, <2>1
    <2>3. g = [n \in 0 .. k |-> g[n]]
      OBVIOUS
    <2> HIDE DEF g
    <2>4. Step(g) = [n \in 0 .. k |-> Step(g)[n]]
      OBVIOUS
    <2> HIDE DEF Step
    <2>5. QED BY <2>2, <2>3, <2>4
  <1>4. ASSUME NEW f, f = Step(f)
        PROVE  f = g
    <2>1. DOMAIN f = 0 .. k /\ f = [n \in 0 .. k |-> f[n]]
      BY <1>4
    <2>2. \A n \in 0 .. k : f[n] = g[n]
      <3> DEFINE T == {n \in 0 .. k : f[n] # g[n]}
      <3>1. SUFFICES ASSUME T # {} PROVE FALSE
        OBVIOUS
      <3>2. PICK m \in T : \A n \in T : m <= n
        <4>1. T \in SUBSET Nat
          OBVIOUS
        <4> HIDE DEF T
        <4>2. QED BY <3>1, <4>1, Least
      <3>3. m \in 0 .. k /\ f[m] # g[m]
        BY <3>2
      <3>4. CASE m = 0
        <4>1. f[0] = h
          BY <1>4
        <4>2. g[0] = h
          BY <1>1
        <4>3. QED BY <3>3, <3>4, <4>1, <4>2
      <3>5. CASE m # 0
        <4>1. m - 1 \in 0 .. k /\ ~ (m <= m - 1)
          BY <3>3, <3>5
        <4>2. f[m - 1] = g[m - 1]
          BY <3>2, <4>1
        <4> HIDE DEF g
        <4>3. f[m] = IF f[m - 1] = NULL THEN NULL ELSE link[f[m - 1]]
          BY <1>4, <3>3, <3>5
        <4>4. QED BY <1>2, <3>3, <3>5, <4>2, <4>3
      <3>6. QED BY <3>4, <3>5
    <2>3. g = [n \in 0 .. k |-> g[n]]
      OBVIOUS
    <2> HIDE DEF g
    <2>4. QED BY <2>1, <2>2, <2>3
  <1> HIDE DEF g
  <1>5. FollowOf(h, link, k) = Step(FollowOf(h, link, k))
    <2>1. \E f : f = Step(f)
      BY <1>3
    <2>2. QED BY <2>1 DEF FollowOf
  <1>6. QED BY <1>4, <1>5 DEF g

LEMMA DistinctBound ==
  ASSUME NEW s \in Seq(Nodes), \A i, j \in 1 .. Len(s) : s[i] = s[j] => i = j
  PROVE  Len(s) <= Cardinality(Nodes) /\ Cardinality(Nodes) \in Nat
  <1>1. Len(s) \in Nat /\ s \in [1 .. Len(s) -> Nodes]
    OBVIOUS
  <1>2. s \in Injection(1 .. Len(s), Nodes)
    BY <1>1 DEF Injection, IsInjective
  <1>3. Cardinality(1 .. Len(s)) <= Cardinality(Nodes)
    BY <1>2, FS_Injection
  <1>4. Cardinality(1 .. Len(s)) = Len(s)
    BY <1>1, FS_Interval
  <1>5. QED BY <1>3, <1>4, FS_CardinalityType

(* What the model calls Length and Contents, of a list s.                  *)
NodesOf(s) == {s[i] : i \in 1 .. Len(s)}

ListOf(h, link, s) ==
  /\ s \in Seq(Nodes) /\ s # <<>> /\ h = s[1]
  /\ \A i, j \in 1 .. Len(s) : s[i] = s[j] => i = j
  /\ \A i \in 1 .. Len(s) : link[s[i]] = IF i = Len(s) THEN NULL ELSE s[i + 1]

Follow(h, link) == FollowOf(h, link, Cardinality(Nodes))
LengthOf(h, link) == Cardinality({n \in 1 .. Cardinality(Nodes) : Follow(h, link)[n] # NULL})
ContentsOf(h, link, data) == [n \in 1 .. LengthOf(h, link) |-> data[Follow(h, link)[n]]]

LEMMA ListLength ==
  ASSUME NEW h, NEW link, NEW s, ListOf(h, link, s), NEW data
  PROVE  /\ \A n \in 0 .. Len(s) - 1 : Follow(h, link)[n] = s[n + 1]
         /\ LengthOf(h, link) = Len(s) - 1 /\ Len(s) \in Nat /\ Len(s) > 0
         /\ ContentsOf(h, link, data) = [n \in 1 .. Len(s) - 1 |-> data[s[n + 1]]]
  <1>1. /\ s \in Seq(Nodes) /\ Len(s) \in Nat /\ Len(s) > 0
        /\ \A i \in 1 .. Len(s) : s[i] # NULL
    <2>1. s \in Seq(Nodes) /\ s # <<>>
      BY DEF ListOf
    <2>2. \A i \in 1 .. Len(s) : s[i] \in Nodes
      BY <2>1
    <2>3. Len(s) \in Nat /\ Len(s) # 0
      BY <2>1
    <2>4. \A x \in Nodes : x # NULL
      OBVIOUS
    <2>5. QED BY <2>1, <2>2, <2>3, <2>4
  <1>2. PICK k \in Nat : k = Cardinality(Nodes) /\ Len(s) <= k
    BY <1>1, DistinctBound DEF ListOf
  <1>3. Follow(h, link) = [n \in 0 .. k |-> IF n < Len(s) THEN s[n + 1] ELSE NULL]
    BY <1>2, FollowsList DEF ListOf, Follow
  <1>4. \A n \in 0 .. Len(s) - 1 : Follow(h, link)[n] = s[n + 1]
    BY <1>1, <1>2, <1>3
  <1>5. LengthOf(h, link) = Len(s) - 1
    <2>1. \A n \in 1 .. k : Follow(h, link)[n] # NULL <=> n < Len(s)
      BY <1>1, <1>2, <1>3
    <2>2. {n \in 1 .. k : Follow(h, link)[n] # NULL} = 1 .. Len(s) - 1
      BY <1>1, <1>2, <2>1
    <2>3. Cardinality(1 .. Len(s) - 1) = Len(s) - 1
      BY <1>1, FS_Interval
    <2>4. QED BY <1>2, <2>2, <2>3 DEF LengthOf
  <1>6. \A n \in 1 .. Len(s) - 1 : Follow(h, link)[n] = s[n + 1]
    BY <1>1, <1>4
  <1>7. QED BY <1>1, <1>4, <1>5, <1>6 DEF ContentsOf

LEMMA ListIs ==
  ASSUME NEW s, ListOf(head, next, s)
  PROVE  /\ Length = Len(s) - 1 /\ Len(s) \in Nat /\ Len(s) > 0
         /\ Contents = [n \in 1 .. Len(s) - 1 |-> file[s[n + 1]]]
         /\ Chain = NodesOf(s)
         /\ \A n \in 0 .. Len(s) - 1 : NodeAt[n] = s[n + 1]
  <1>1. NodeAt = Follow(head, next)
    BY DEF NodeAt, Follow, FollowOf
  <1>2. /\ \A n \in 0 .. Len(s) - 1 : Follow(head, next)[n] = s[n + 1]
        /\ LengthOf(head, next) = Len(s) - 1 /\ Len(s) \in Nat /\ Len(s) > 0
        /\ ContentsOf(head, next, file) = [n \in 1 .. Len(s) - 1 |-> file[s[n + 1]]]
    BY ListLength
  <1>3. Length = LengthOf(head, next)
    BY <1>1 DEF Length, LengthOf
  <1>4. Contents = ContentsOf(head, next, file)
    BY <1>1, <1>3 DEF Contents, ContentsOf
  <1>5. Chain = NodesOf(s)
    <2>1. Chain = {s[n + 1] : n \in 0 .. Len(s) - 1}
      <3>1. Chain = {Follow(head, next)[n] : n \in 0 .. Len(s) - 1}
        BY <1>1, <1>2, <1>3 DEF Chain
      <3>2. \A n \in 0 .. Len(s) - 1 : Follow(head, next)[n] = s[n + 1]
        BY <1>2
      <3>3. {Follow(head, next)[n] : n \in 0 .. Len(s) - 1} = {s[n + 1] : n \in 0 .. Len(s) - 1}
        BY <3>2, Zenon
      <3>4. QED BY <3>1, <3>3
    <2>2. \A n \in 0 .. Len(s) - 1 : n + 1 \in 1 .. Len(s)
      BY <1>2
    <2>3. \A i \in 1 .. Len(s) : i - 1 \in 0 .. Len(s) - 1 /\ (i - 1) + 1 = i
      BY <1>2
    <2>4. QED BY <2>1, <2>2, <2>3 DEF NodesOf
  <1>6. QED BY <1>1, <1>2, <1>3, <1>4, <1>5
-----------------------------------------------------------------------------
(* The invariant.  It says of some sequence s of nodes that it is the list. *)

(* The nodes of s are linked in its order and the last to none.            *)
Chained(s) ==
  /\ s \in Seq(Nodes)
  /\ \A i, j \in 1 .. Len(s) : s[i] = s[j] => i = j
  /\ \A i \in 1 .. Len(s) : next[s[i]] = IF i = Len(s) THEN NULL ELSE s[i + 1]

(* Its nodes hold the last of the events linked in, in that order, and the *)
(* dummy at its head the one before or, at first, none.                    *)
Holds(s) ==
  /\ Len(s) <= Len(linked) + 1
  /\ \A i \in 1 .. Len(s) : \A a \in 1 .. Len(linked) :
       a + Len(s) = Len(linked) + i => op[s[i]] = linked[a] /\ file[s[i]] = linked[a]

OpenInv(s) ==
  /\ s # <<>> /\ head = s[1]
  /\ live = NodesOf(s) \union (IF Filling THEN {new_node} ELSE {})
                       \union (IF Popped THEN {m_head} ELSE {})
  /\ tail = s[Len(s)] \/ (Len(s) > 1 /\ tail = s[Len(s) - 1])
  /\ Filling => new_node \in Nodes \ NodesOf(s)
  /\ Popped => m_head \in Nodes \ NodesOf(s) /\ next[m_head] = s[1]

(* What the main thread has loaded and stored.                             *)
StepInv(s) ==
  /\ main \in {"storeFile", "storeNext", "load", "casNext", "helpTail"} =>
       op[new_node] = events
  /\ main \in {"storeNext", "load", "casNext", "helpTail"} => file[new_node] = events
  /\ main \in {"load", "casNext", "helpTail"} => next[new_node] = NULL
  /\ main = "casNext" => m_tail = s[Len(s)] /\ m_next = NULL /\ tail = m_tail
  /\ main = "helpTail" => Len(s) > 1 /\ m_next = s[Len(s)]
  /\ main = "casTail" => Len(s) > 1 /\ new_node = s[Len(s)]
  /\ main = "popCas" => m_head = s[1] /\ m_next = s[2]
  /\ main # "popHelp"

(* How long the list is, and what size says of it.                         *)
SizeInv(s) ==
  LET n == Len(linked)
  IN  /\ (main = "idle" \/ Filling) =>
           /\ size + 1 = Len(s)
           /\ (Len(s) = n + 1 /\ n <= MAX_ENTRIES) \/ (Len(s) = MAX_ENTRIES + 1 /\ n >= MAX_ENTRIES)
      /\ main \in {"casTail", "fetchAdd"} =>
           /\ size + 2 = Len(s) /\ n >= 1
           /\ \/ Len(s) = n + 1 /\ n <= MAX_ENTRIES + 1
              \/ Len(s) = MAX_ENTRIES + 2 /\ n > MAX_ENTRIES
      /\ main \in {"popLoad", "popCas"} =>
           Len(s) = MAX_ENTRIES + 2 /\ size = MAX_ENTRIES + 1 /\ n > MAX_ENTRIES
      /\ main = "fetchSub" =>
           Len(s) = MAX_ENTRIES + 1 /\ size = MAX_ENTRIES + 1 /\ n > MAX_ENTRIES
      /\ main = "popFree" =>
           Len(s) = MAX_ENTRIES + 1 /\ size = MAX_ENTRIES /\ n > MAX_ENTRIES

(* What freeDequeue() has still to free.                                   *)
CloseInv(s) ==
  /\ main = "freeNext" =>
       /\ live = NodesOf(s)
       /\ m_head = IF s = <<>> THEN NULL ELSE s[1]
       /\ head \in live => s # <<>> /\ head = s[1]
  /\ main \in {"clear", "freed", "exited"} => live = {}

ListInv(s) ==
  /\ Chained(s) /\ Holds(s)
  /\ ~ Closing => OpenInv(s) /\ StepInv(s) /\ SizeInv(s)
  /\ Closing => CloseInv(s)

(* Events are linked in the order they occur.                              *)
SerialInv ==
  /\ linked # <<>> => linked[Len(linked)] <= events
  /\ Filling => events > 0 /\ (linked # <<>> => linked[Len(linked)] < events)

(* Where the walk is.                                                      *)
Walking == tui \in {"loadFirst", "test", "readFile", "advance"}

PlaceInv ==
  /\ tui \in {"loadFirst", "readFile", "advance"} => current \in Nodes
  /\ tui \in {"readFile", "advance"} => index < MAX_ENTRIES
  /\ Walking => Len(array) = index + (IF tui = "advance" THEN 1 ELSE 0)
  /\ tui = "loadFirst" => array = <<>>
  /\ main \notin {"freed", "exited"} => head # NULL

(* Node c holds, or as the dummy held, the a-th event linked in.           *)
At(s, c, a) ==
  \/ Popped /\ c = m_head /\ a + Len(s) = Len(linked)
  \/ \E i \in 1 .. Len(s) : c = s[i] /\ a + Len(s) = Len(linked) + i

(* The node popped is as it was when it was the dummy.                     *)
PoppedInv(s) ==
  Popped => \A a \in 1 .. Len(linked) :
              a + Len(s) = Len(linked) => op[m_head] = linked[a] /\ file[m_head] = linked[a]

WalkInv(s) ==
  Walking /\ ~ disturbed =>
    /\ start <= Len(linked)
    /\ \E i \in 0 .. Len(linked) :
         /\ Consecutive(i)
         /\ tui = "loadFirst" => At(s, current, i)
         /\ tui = "test" =>
              \/ current = NULL /\ i + Len(array) >= start
              \/ At(s, current, i + Len(array) + 1)
         /\ tui = "readFile" =>
              At(s, current, i + Len(array) + 1) /\ t_op = linked[i + Len(array) + 1]
         /\ tui = "advance" => At(s, current, i + Len(array))
-----------------------------------------------------------------------------
(* Types.                                                                  *)

LEMMA SeqFacts ==
  ASSUME NEW s \in Seq(Nodes)
  PROVE  /\ Len(s) \in Nat /\ (s # <<>> <=> Len(s) > 0)
         /\ \A i \in 1 .. Len(s) : s[i] \in Nodes /\ s[i] # NULL
  <1>1. \A i \in 1 .. Len(s) : s[i] \in Nodes
    OBVIOUS
  <1>2. \A x \in Nodes : x # NULL
    OBVIOUS
  <1>3. Len(s) \in Nat /\ (s # <<>> <=> Len(s) # 0)
    OBVIOUS
  <1>4. QED BY <1>1, <1>2, <1>3

LEMMA OpenFacts ==
  ASSUME NEW s, ListInv(s), ~ Closing
  PROVE  /\ s \in Seq(Nodes) /\ Len(s) \in Nat /\ Len(s) > 0
         /\ \A i \in 1 .. Len(s) : s[i] \in Nodes /\ s[i] # NULL
         /\ head \in Nodes /\ head = s[1] /\ tail \in Nodes
         /\ OpenInv(s) /\ StepInv(s) /\ SizeInv(s) /\ Chained(s) /\ Holds(s)
  <1>1. OpenInv(s) /\ StepInv(s) /\ SizeInv(s) /\ Chained(s) /\ Holds(s)
    BY DEF ListInv
  <1>2. s \in Seq(Nodes) /\ s # <<>> /\ head = s[1]
        /\ (tail = s[Len(s)] \/ (Len(s) > 1 /\ tail = s[Len(s) - 1]))
    BY <1>1 DEF Chained, OpenInv
  <1>3. Len(s) \in Nat /\ Len(s) > 0 /\ \A i \in 1 .. Len(s) : s[i] \in Nodes /\ s[i] # NULL
    BY <1>2, SeqFacts
  <1>4. tail \in Nodes
    <2>1. Len(s) \in 1 .. Len(s) /\ (Len(s) > 1 => Len(s) - 1 \in 1 .. Len(s))
      BY <1>3
    <2>2. QED BY <1>2, <1>3, <2>1
  <1>5. QED BY <1>1, <1>2, <1>3, <1>4

LEMMA AppendTyped ==
  ASSUME NEW S, NEW s \in Seq(S), NEW e \in S
  PROVE  Append(s, e) \in Seq(S) /\ Len(Append(s, e)) = Len(s) + 1 /\ Len(s) \in Nat
  OBVIOUS

LEMMA PushTyped ==
  ASSUME TypeOK, NEW s, ListInv(s), pushRear
  PROVE  TypeOK'
  <1> USE DEF NodeOrNull, MainStates, dqVars, heapVars, tuiVars, Goto
  <1>1. CASE malloc_new_node
    BY <1>1, SMTT(40) DEF malloc_new_node, TypeOK
  <1>2. CASE malloc_fails
    BY <1>2, SMTT(40) DEF malloc_fails, TypeOK
  <1>3. CASE store_op
    BY <1>3 DEF store_op, TypeOK
  <1>4. CASE store_file
    BY <1>4 DEF store_file, TypeOK
  <1>5. CASE store_next
    BY <1>5 DEF store_next, TypeOK
  <1>6. CASE push_load
    <2>1. tail \in Nodes
      BY <1>6, OpenFacts DEF push_load, Closing
    <2>2. QED BY <1>6, <2>1 DEF push_load, TypeOK
  <1>7. CASE cas_next
    <2>1. Append(linked, events) \in Seq(Nat)
      BY AppendTyped DEF TypeOK
    <2>2. linked' \in Seq(Nat) /\ next' \in [Nodes -> NodeOrNull]
      BY <1>7, <2>1, ZenonT(30) DEF cas_next, TypeOK
    <2>3. QED BY <1>7, <2>2 DEF cas_next, TypeOK
  <1>8. CASE cas_tail
    BY <1>8 DEF cas_tail, SwingTail, TypeOK
  <1>9. CASE help_tail
    BY <1>9 DEF help_tail, SwingTail, TypeOK
  <1>10. CASE fetch_add
    <2>1. size + 2 = Len(s) /\ Len(s) <= MAX_ENTRIES + 2 /\ size \in Nat /\ MAX_ENTRIES \in Nat
      <3>1. main = "fetchAdd"
        BY <1>10 DEF fetch_add
      <3>2. SizeInv(s)
        BY <3>1, OpenFacts DEF Closing
      <3>3. size \in Nat /\ MAX_ENTRIES \in Nat /\ Len(linked) \in Nat
        BY DEF TypeOK
      <3>4. QED BY <3>1, <3>2, <3>3 DEF SizeInv
    <2>2. size + 1 \in 0 .. MAX_ENTRIES + 1
      BY <2>1
    <2>3. QED BY <1>10, <2>2 DEF fetch_add, TypeOK
  <1>11. QED
    BY <1>1, <1>2, <1>3, <1>4, <1>5, <1>6, <1>7, <1>8, <1>9, <1>10 DEF pushRear

LEMMA PopAndFreeTyped ==
  ASSUME TypeOK, NEW s, ListInv(s), popFront \/ freeDequeue
  PROVE  TypeOK'
  <1> USE DEF NodeOrNull, MainStates, dqVars, heapVars, tuiVars, Goto
  <1>1. CASE pop_load
    <2>1. head \in Nodes
      BY <1>1, OpenFacts DEF pop_load, Closing
    <2>2. QED BY <1>1, <2>1 DEF pop_load, TypeOK
  <1>2. CASE pop_cas
    BY <1>2 DEF pop_cas, TypeOK
  <1>3. CASE fetch_sub
    <2>1. size - 1 \in 0 .. MAX_ENTRIES + 1
      <3>1. main = "fetchSub"
        BY <1>3 DEF fetch_sub
      <3>2. size = MAX_ENTRIES + 1
        BY <3>1, OpenFacts DEF Closing, SizeInv
      <3>3. QED BY <3>2
    <2>2. QED BY <1>3, <2>1 DEF fetch_sub, TypeOK
  <1>4. CASE pop_free
    BY <1>4 DEF pop_free, free, TypeOK, Garbage
  <1>5. CASE free_load
    BY <1>5 DEF free_load, TypeOK
  <1>6. CASE free_next
    <2>1. CASE m_head # NULL
      <3>1. m_head \in Nodes /\ next[m_head] \in NodeOrNull
        BY <2>1 DEF TypeOK
      <3>2. /\ live' \subseteq Nodes /\ op' \in [Nodes -> Nat] /\ disturbed' \in BOOLEAN
            /\ m_head' \in NodeOrNull
        BY <1>6, <2>1, <3>1, SMTT(30) DEF free_next, free, TypeOK, Garbage
      <3>3. UNCHANGED <<dqVars, file, next, main, new_node, m_tail, m_next, events, linked,
                        tui, current, index, t_op, array, start>>
        BY <1>6, <2>1 DEF free_next, free
      <3>4. QED BY <3>2, <3>3, ZenonT(30) DEF TypeOK
    <2>2. CASE m_head = NULL
      <3>1. main' \in MainStates
        BY <1>6, <2>2 DEF free_next
      <3>2. UNCHANGED <<dqVars, heapVars, tuiVars, m_head, new_node, m_tail, m_next, events,
                        linked>>
        BY <1>6, <2>2 DEF free_next
      <3>3. QED BY <3>1, <3>2 DEF TypeOK
    <2>3. QED BY <2>1, <2>2
  <1>7. CASE clear
    BY <1>7, SMTT(40) DEF clear, TypeOK
  <1>8. CASE exit
    BY <1>8 DEF exit, TypeOK
  <1>9. QED
    BY <1>1, <1>2, <1>3, <1>4, <1>5, <1>6, <1>7, <1>8 DEF popFront, freeDequeue

(* A step of the walk may change what the TUI thread alone keeps.          *)
LEMMA WalkFrame ==
  ASSUME TypeOK, UNCHANGED <<dqVars, heapVars, mainVars>>, UNCHANGED <<start, disturbed>>,
         tui' \in TuiStates, current' \in NodeOrNull, index' \in 0 .. MAX_ENTRIES,
         t_op' \in Nat, array' \in Seq(Nat \X Nat), Len(array') <= MAX_ENTRIES
  PROVE  TypeOK'
  <1>1. /\ head' = head /\ tail' = tail /\ size' = size
        /\ live' = live /\ op' = op /\ file' = file /\ next' = next
        /\ main' = main /\ new_node' = new_node /\ m_head' = m_head /\ m_tail' = m_tail
        /\ m_next' = m_next /\ events' = events /\ linked' = linked
        /\ start' = start /\ disturbed' = disturbed
    BY DEF dqVars, heapVars, mainVars
  <1> HIDE DEF NodeOrNull, TuiStates, MainStates
  <1>2. QED BY <1>1 DEF TypeOK

LEMMA WalkTyped ==
  ASSUME TypeOK, PlaceInv, displayEntries
  PROVE  TypeOK'
  <1> USE DEF NodeOrNull, MainStates, TuiStates, dqVars, heapVars, mainVars, Goto, TuiGoto
  <1>1. CASE load_head
    <2>1. Len(linked) \in Nat /\ <<>> \in Seq(Nat \X Nat) /\ Len(<<>>) = 0
      BY DEF TypeOK
    <2>2. /\ main' \in MainStates /\ tui' \in TuiStates /\ array' \in Seq(Nat \X Nat)
          /\ index' \in 0 .. MAX_ENTRIES /\ Len(array') <= MAX_ENTRIES
          /\ start' \in Nat /\ disturbed' \in BOOLEAN /\ current' \in NodeOrNull
      <3>1. /\ main' = main \/ main' = "exited"
            /\ tui' = "crashed" \/ tui' = "loadFirst"
            /\ array' = <<>> /\ index' = 0 /\ start' = Len(linked)
            /\ current' = head /\ disturbed' = (head \notin live)
        BY <1>1 DEF load_head
      <3>2. 0 \in 0 .. MAX_ENTRIES /\ 0 <= MAX_ENTRIES
        OBVIOUS
      <3>3. main' \in MainStates /\ tui' \in TuiStates
        BY <3>1 DEF TypeOK
      <3>4. array' \in Seq(Nat \X Nat) /\ Len(array') <= MAX_ENTRIES /\ index' \in 0 .. MAX_ENTRIES
        BY <2>1, <3>1, <3>2
      <3>5. start' \in Nat /\ disturbed' \in BOOLEAN /\ current' \in NodeOrNull
        BY <2>1, <3>1 DEF TypeOK
      <3>6. QED BY <3>3, <3>4, <3>5
    <2>3. UNCHANGED <<dqVars, heapVars, new_node, m_head, m_tail, m_next, events, linked, t_op>>
      BY <1>1 DEF load_head
    <2>4. QED BY <2>2, <2>3 DEF TypeOK
  <1>2. CASE load_first
    <2>1. current \in Nodes /\ next \in [Nodes -> NodeOrNull]
      BY <1>2 DEF load_first, PlaceInv, TypeOK
    <2>2. /\ current' = next[current] /\ tui' = "test"
          /\ UNCHANGED <<dqVars, heapVars, mainVars>> /\ UNCHANGED <<start, disturbed>>
          /\ UNCHANGED <<index, t_op, array>>
      BY <1>2 DEF load_first
    <2>3. current' \in NodeOrNull /\ tui' \in TuiStates
      BY <2>1, <2>2
    <2>4. index' \in 0 .. MAX_ENTRIES /\ t_op' \in Nat /\ array' \in Seq(Nat \X Nat)
          /\ Len(array') <= MAX_ENTRIES
      BY <2>2 DEF TypeOK
    <2>5. QED BY <2>2, <2>3, <2>4, WalkFrame
  <1>3. CASE test
    <2>1. /\ tui' \in {"readFile", "idle"}
          /\ t_op' = t_op \/ (current # NULL /\ t_op' = op[current])
          /\ UNCHANGED <<dqVars, heapVars, mainVars>> /\ UNCHANGED <<start, disturbed>>
          /\ UNCHANGED <<current, index, array>>
      BY <1>3 DEF test
    <2>2. op \in [Nodes -> Nat] /\ current \in NodeOrNull /\ t_op \in Nat
      BY DEF TypeOK
    <2>3. t_op' \in Nat /\ tui' \in TuiStates
      BY <2>1, <2>2
    <2>4. current' \in NodeOrNull /\ index' \in 0 .. MAX_ENTRIES
          /\ array' \in Seq(Nat \X Nat) /\ Len(array') <= MAX_ENTRIES
      BY <2>1 DEF TypeOK
    <2>5. QED BY <2>1, <2>3, <2>4, WalkFrame
  <1>4. CASE read_file
    <2>1. current \in Nodes /\ index < MAX_ENTRIES /\ Len(array) = index + 0
      BY <1>4 DEF read_file, PlaceInv, Walking
    <2>2. <<t_op, file[current]>> \in Nat \X Nat /\ array \in Seq(Nat \X Nat) /\ index \in Nat
      BY <2>1, SMTT(30) DEF TypeOK
    <2>3. array' \in Seq(Nat \X Nat) /\ Len(array') <= MAX_ENTRIES
      <3>1. array' = Append(array, <<t_op, file[current]>>)
        BY <1>4 DEF read_file
      <3>2. array' \in Seq(Nat \X Nat) /\ Len(array') = Len(array) + 1
        BY <2>2, <3>1, AppendTyped
      <3>3. QED BY <2>1, <2>2, <3>2
    <2>4. /\ tui' = "advance"
          /\ UNCHANGED <<dqVars, heapVars, mainVars>> /\ UNCHANGED <<start, disturbed>>
          /\ UNCHANGED <<current, index, t_op>>
      BY <1>4 DEF read_file
    <2>5. tui' \in TuiStates
      BY <2>4
    <2>6. current' \in NodeOrNull /\ index' \in 0 .. MAX_ENTRIES /\ t_op' \in Nat
      BY <2>4 DEF TypeOK
    <2>7. QED BY <2>3, <2>4, <2>5, <2>6, WalkFrame
  <1>5. CASE advance
    <2>1. current \in Nodes /\ index < MAX_ENTRIES /\ next \in [Nodes -> NodeOrNull]
          /\ index \in 0 .. MAX_ENTRIES
      BY <1>5 DEF advance, PlaceInv, TypeOK
    <2>2. /\ current' = next[current] /\ index' = index + 1 /\ tui' = "test"
          /\ UNCHANGED <<dqVars, heapVars, mainVars>> /\ UNCHANGED <<start, disturbed>>
          /\ UNCHANGED <<t_op, array>>
      BY <1>5 DEF advance
    <2>3. current' \in NodeOrNull /\ tui' \in TuiStates
      BY <2>1, <2>2
    <2>4. index' \in 0 .. MAX_ENTRIES
      BY <2>1, <2>2
    <2>5. t_op' \in Nat /\ array' \in Seq(Nat \X Nat) /\ Len(array') <= MAX_ENTRIES
      BY <2>2 DEF TypeOK
    <2>6. QED BY <2>2, <2>3, <2>4, <2>5, WalkFrame
  <1>6. QED BY <1>1, <1>2, <1>3, <1>4, <1>5 DEF displayEntries

LEMMA PlaceStep ==
  ASSUME TypeOK, PlaceInv, NEW s, ListInv(s), [Next]_vars
  PROVE  PlaceInv'
  <1> USE DEF Walking
  <1>1. CASE load_head
    <2>1. head # NULL => head \in Nodes
      BY DEF TypeOK, NodeOrNull
    <2>2. Len(<<>>) = 0
      OBVIOUS
    <2>3. QED
      BY <1>1, <2>1, <2>2 DEF load_head, PlaceInv, dqVars, Goto, TuiGoto
  <1>2. CASE load_first
    BY <1>2 DEF load_first, PlaceInv, mainVars, dqVars, TuiGoto
  <1>3. CASE test
    BY <1>3 DEF test, PlaceInv, mainVars, dqVars, TuiGoto, TypeOK, NodeOrNull
  <1>4. CASE read_file
    <2>1. Len(array') = Len(array) + 1
      <3>1. current \in Nodes
        BY <1>4 DEF read_file, PlaceInv
      <3>2. <<t_op, file[current]>> \in Nat \X Nat /\ array \in Seq(Nat \X Nat)
        BY <3>1 DEF TypeOK
      <3>3. QED BY <1>4, <3>2, AppendTyped DEF read_file
    <2>2. Len(array) = index /\ index \in Nat /\ index < MAX_ENTRIES
      BY <1>4 DEF read_file, PlaceInv, TypeOK
    <2>3. QED BY <1>4, <2>1, <2>2 DEF read_file, PlaceInv, mainVars, dqVars, TuiGoto
  <1>5. CASE advance
    <2>1. Len(array) = index + 1 /\ index \in Nat
      BY <1>5 DEF advance, PlaceInv, TypeOK
    <2>2. QED BY <1>5, <2>1 DEF advance, PlaceInv, mainVars, dqVars, TuiGoto
  <1>6. CASE UNCHANGED vars
    BY <1>6 DEF vars, dqVars, mainVars, tuiVars, PlaceInv
  <1>7. ASSUME UNCHANGED <<tui, current, index, array>>,
               main' \notin {"freed", "exited"} => head' # NULL
        PROVE  PlaceInv'
    BY <1>7 DEF PlaceInv
  <1>8. CASE pushRear
    <2>1. UNCHANGED <<tui, current, index, array, head>> /\ main \notin {"freed", "exited"}
      BY <1>8 DEF pushRear, malloc_new_node, malloc_fails, store_op, store_file, store_next,
           push_load, cas_next, cas_tail, help_tail, fetch_add, SwingTail, tuiVars, dqVars
    <2>2. QED BY <1>7, <2>1 DEF PlaceInv
  <1>9. CASE pop_load \/ fetch_sub \/ pop_free \/ free_load \/ free_next
    <2>1. UNCHANGED <<tui, current, index, array, head>> /\ main \notin {"freed", "exited"}
      BY <1>9 DEF pop_load, fetch_sub, pop_free, free_load, free_next, free, tuiVars, dqVars
    <2>2. QED BY <1>7, <2>1 DEF PlaceInv
  <1>10. CASE pop_cas
    <2>1. UNCHANGED <<tui, current, index, array>> /\ main = "popCas"
          /\ (head' = head \/ head' = m_next)
      BY <1>10 DEF pop_cas, tuiVars
    <2>2. m_next # NULL
      <3>1. /\ \A i \in 1 .. Len(s) : s[i] # NULL
            /\ m_next = s[2] /\ Len(s) = MAX_ENTRIES + 2
        BY <2>1, OpenFacts DEF Closing, StepInv, SizeInv
      <3>2. 2 \in 1 .. Len(s)
        BY <3>1
      <3>3. QED BY <3>1, <3>2
    <2>3. QED BY <1>7, <2>1, <2>2 DEF PlaceInv
  <1>11. CASE clear \/ exit
    <2>1. UNCHANGED <<tui, current, index, array>> /\ main' \in {"freed", "exited"}
      BY <1>11 DEF clear, exit, tuiVars, Goto
    <2>2. QED BY <1>7, <2>1
  <1>12. QED
    BY <1>1, <1>2, <1>3, <1>4, <1>5, <1>6, <1>8, <1>9, <1>10, <1>11
       DEF Next, popFront, freeDequeue, displayEntries
-----------------------------------------------------------------------------
(* The list from step to step.                                             *)

LEMMA ChainedKept ==
  ASSUME NEW s, Chained(s), \A i \in 1 .. Len(s) : next'[s[i]] = next[s[i]]
  PROVE  Chained(s)'
  BY DEF Chained

LEMMA HoldsKept ==
  ASSUME NEW s, Holds(s), linked' = linked,
         \A i \in 1 .. Len(s) : op'[s[i]] = op[s[i]] /\ file'[s[i]] = file[s[i]]
  PROVE  Holds(s)'
  BY DEF Holds

(* Steps that write no node and neither head nor what malloc() knows.      *)
LEMMA LocalStep ==
  ASSUME NEW s, ListInv(s), ~ Closing, ~ Closing',
         UNCHANGED <<head, live, op, file, next, linked, new_node>>,
         Filling' = Filling, Popped' = Popped, Popped => m_head' = m_head,
         tail' = tail \/ tail' = s[Len(s)],
         StepInv(s)', SizeInv(s)'
  PROVE  ListInv(s)'
  <1>1. Chained(s)' /\ Holds(s)'
    BY ChainedKept, HoldsKept DEF ListInv
  <1>2. OpenInv(s)'
    BY DEF ListInv, OpenInv
  <1>3. QED BY <1>1, <1>2 DEF ListInv

LEMMA PushLocal ==
  ASSUME TypeOK, NEW s, ListInv(s),
         malloc_fails \/ push_load \/ cas_tail \/ help_tail \/ fetch_add
  PROVE  ListInv(s)'
  <1> USE DEF Closing, Filling, Popped, Goto
  <1>1. main \in {"idle", "load", "casTail", "helpTail", "popHelp", "fetchAdd"} /\ ~ Closing
    BY DEF malloc_fails, push_load, cas_tail, help_tail, fetch_add
  <1>2. /\ s \in Seq(Nodes) /\ Len(s) \in Nat /\ Len(s) > 0 /\ Len(linked) \in Nat
        /\ \A i \in 1 .. Len(s) : s[i] \in Nodes /\ s[i] # NULL
        /\ OpenInv(s) /\ StepInv(s) /\ SizeInv(s) /\ Chained(s)
    BY <1>1, OpenFacts DEF TypeOK
  <1>3. UNCHANGED <<head, live, op, file, next, linked, new_node, m_head>>
    BY DEF malloc_fails, push_load, cas_tail, help_tail, fetch_add, SwingTail, dqVars, heapVars
  <1>4. CASE malloc_fails
    <2>1. main = "idle" /\ main' = main /\ tail' = tail /\ size' = size
      BY <1>4 DEF malloc_fails, dqVars
    <2>2. StepInv(s)' /\ SizeInv(s)'
      BY <1>2, <1>3, <2>1 DEF StepInv, SizeInv
    <2>3. QED BY <1>3, <2>1, <2>2, LocalStep
  <1>5. CASE push_load
    <2>1. /\ main = "load" /\ m_tail' = tail /\ m_next' = next[tail] /\ tail' = tail /\ size' = size
          /\ main' = IF next[tail] = NULL THEN "casNext" ELSE "helpTail"
      BY <1>5 DEF push_load, dqVars
    <2>2. SizeInv(s)'
      BY <1>2, <1>3, <2>1 DEF SizeInv
    <2>3. \/ tail = s[Len(s)] /\ next[tail] = NULL
          \/ Len(s) > 1 /\ next[tail] = s[Len(s)] /\ s[Len(s)] # NULL
      <3>1. Len(s) \in 1 .. Len(s) /\ (Len(s) > 1 => Len(s) - 1 \in 1 .. Len(s) /\ Len(s) - 1 # Len(s)
                                                       /\ Len(s) - 1 + 1 = Len(s))
        BY <1>2
      <3>2. QED BY <1>2, <3>1 DEF OpenInv, Chained
    <2>4. StepInv(s)'
      <3>1. /\ op[new_node] = events /\ file[new_node] = events /\ next[new_node] = NULL
        BY <1>2, <2>1 DEF StepInv
      <3>2. events' = events
        BY <1>5 DEF push_load
      <3>3. QED BY <1>3, <2>1, <2>3, <3>1, <3>2 DEF StepInv
    <2>5. QED BY <1>1, <1>3, <2>1, <2>2, <2>4, LocalStep
  <1>6. CASE cas_tail
    <2>1. /\ main = "casTail" /\ main' = "fetchAdd" /\ size' = size
          /\ tail' = tail \/ tail' = new_node
      BY <1>6 DEF cas_tail, SwingTail
    <2>2. new_node = s[Len(s)]
      BY <1>2, <2>1 DEF StepInv
    <2>3. StepInv(s)' /\ SizeInv(s)'
      BY <1>2, <1>3, <2>1 DEF StepInv, SizeInv
    <2>4. QED BY <1>3, <2>1, <2>2, <2>3, LocalStep
  <1>7. CASE help_tail
    <2>1. /\ main = "helpTail" /\ main' = "load" /\ size' = size
          /\ tail' = tail \/ tail' = m_next
      BY <1>2, <1>7 DEF help_tail, SwingTail, StepInv
    <2>2. m_next = s[Len(s)]
      BY <1>2, <2>1 DEF StepInv
    <2>3. events' = events
      BY <1>7 DEF help_tail, SwingTail
    <2>4. StepInv(s)' /\ SizeInv(s)'
      BY <1>2, <1>3, <2>1, <2>3 DEF StepInv, SizeInv
    <2>5. QED BY <1>3, <2>1, <2>2, <2>4, LocalStep
  <1>8. CASE fetch_add
    <2>1. /\ main = "fetchAdd" /\ size' = size + 1 /\ tail' = tail
          /\ main' = IF size >= MAX_ENTRIES THEN "popLoad" ELSE "idle"
      BY <1>8 DEF fetch_add
    <2>2. StepInv(s)'
      BY <2>1 DEF StepInv
    <2>3. SizeInv(s)'
      <3>1. size \in Nat /\ MAX_ENTRIES \in Nat
        BY DEF TypeOK
      <3>2. /\ size + 2 = Len(s)
            /\ \/ Len(s) = Len(linked) + 1 /\ Len(linked) <= MAX_ENTRIES + 1
               \/ Len(s) = MAX_ENTRIES + 2 /\ Len(linked) > MAX_ENTRIES
        BY <1>2, <2>1 DEF SizeInv
      <3>3. CASE size >= MAX_ENTRIES
        BY <1>2, <1>3, <2>1, <3>1, <3>2, <3>3 DEF SizeInv
      <3>4. CASE ~ (size >= MAX_ENTRIES)
        BY <1>2, <1>3, <2>1, <3>1, <3>2, <3>4 DEF SizeInv
      <3>5. QED BY <3>3, <3>4
    <2>4. QED BY <1>3, <2>1, <2>2, <2>3, LocalStep
  <1>9. QED BY <1>4, <1>5, <1>6, <1>7, <1>8

(* The node being pushed is not in the list while it is filled.            *)
LEMMA FillNode ==
  ASSUME TypeOK, NEW s, ListInv(s),
         malloc_new_node \/ store_op \/ store_file \/ store_next
  PROVE  ListInv(s)'
  <1> USE DEF Closing, Filling, Popped, Goto
  <1>1. main \in {"idle", "storeOp", "storeFile", "storeNext"} /\ ~ Closing
    BY DEF malloc_new_node, store_op, store_file, store_next
  <1>2. /\ s \in Seq(Nodes) /\ Len(s) \in Nat /\ Len(s) > 0 /\ Len(linked) \in Nat
        /\ \A i \in 1 .. Len(s) : s[i] \in Nodes /\ s[i] # NULL
        /\ OpenInv(s) /\ StepInv(s) /\ SizeInv(s) /\ Chained(s) /\ Holds(s)
    BY <1>1, OpenFacts DEF TypeOK
  <1>3. UNCHANGED <<head, tail, size, linked>> /\ main' \in {"storeOp", "storeFile", "storeNext", "load"}
    BY DEF malloc_new_node, store_op, store_file, store_next, dqVars
  <1>4. SizeInv(s)'
    BY <1>1, <1>2, <1>3 DEF SizeInv
  <1>5. CASE malloc_new_node
    <2>1. PICK a \in Nodes \ live : new_node' = a /\ live' = live \union {a}
      BY <1>5 DEF malloc_new_node
    <2>2. /\ main = "idle" /\ main' = "storeOp" /\ UNCHANGED <<op, file, next>>
      BY <1>5 DEF malloc_new_node
    <2>3. Chained(s)' /\ Holds(s)'
      BY <1>2, <1>3, <2>2, ChainedKept, HoldsKept
    <2>4. OpenInv(s)'
      <3>1. live = NodesOf(s)
        BY <1>2, <2>2 DEF OpenInv
      <3>2. QED BY <1>2, <1>3, <2>1, <2>2, <3>1 DEF OpenInv
    <2>5. StepInv(s)'
      BY <2>2 DEF StepInv
    <2>6. QED BY <1>4, <2>2, <2>3, <2>4, <2>5 DEF ListInv
  <1>6. CASE store_op \/ store_file \/ store_next
    <2>1. /\ new_node' = new_node /\ live' = live /\ events' = events
          /\ main \in {"storeOp", "storeFile", "storeNext"}
      BY <1>6 DEF store_op, store_file, store_next
    <2>2. new_node \in Nodes /\ \A i \in 1 .. Len(s) : s[i] # new_node
      BY <1>2, <2>1 DEF OpenInv, NodesOf
    <2>3. /\ op' = op \/ op' = [op EXCEPT ![new_node] = events]
          /\ file' = file \/ file' = [file EXCEPT ![new_node] = events]
          /\ next' = next \/ next' = [next EXCEPT ![new_node] = NULL]
      BY <1>6 DEF store_op, store_file, store_next
    <2>4. \A i \in 1 .. Len(s) : /\ op'[s[i]] = op[s[i]] /\ file'[s[i]] = file[s[i]]
                                 /\ next'[s[i]] = next[s[i]]
      <3> SUFFICES ASSUME NEW i \in 1 .. Len(s)
                   PROVE  /\ op'[s[i]] = op[s[i]] /\ file'[s[i]] = file[s[i]]
                          /\ next'[s[i]] = next[s[i]]
        OBVIOUS
      <3>1. s[i] \in Nodes /\ s[i] # new_node
        BY <1>2, <2>2
      <3>2. op'[s[i]] = op[s[i]]
        BY <2>3, <3>1 DEF TypeOK
      <3>3. file'[s[i]] = file[s[i]]
        BY <2>3, <3>1 DEF TypeOK
      <3>4. next'[s[i]] = next[s[i]]
        BY <2>3, <3>1 DEF TypeOK
      <3>5. QED BY <3>2, <3>3, <3>4
    <2>5. Chained(s)' /\ Holds(s)'
      BY <1>2, <1>3, <2>4, ChainedKept, HoldsKept
    <2>6. OpenInv(s)'
      BY <1>2, <1>3, <2>1 DEF OpenInv
    <2>7. StepInv(s)'
      <3>1. CASE store_op
        BY <2>1, <2>2, <3>1 DEF store_op, StepInv, TypeOK
      <3>2. CASE store_file
        BY <1>2, <2>1, <2>2, <3>2 DEF store_file, StepInv, TypeOK
      <3>3. CASE store_next
        BY <1>2, <2>1, <2>2, <3>3 DEF store_next, StepInv, TypeOK
      <3>4. QED BY <1>6, <3>1, <3>2, <3>3
    <2>8. QED BY <1>3, <1>4, <2>5, <2>6, <2>7 DEF ListInv
  <1>7. QED BY <1>5, <1>6

LEMMA AppendNode ==
  ASSUME NEW s \in Seq(Nodes), NEW a \in Nodes, NEW t, t = Append(s, a)
  PROVE  /\ t \in Seq(Nodes) /\ Len(t) = Len(s) + 1 /\ Len(s) \in Nat
         /\ t[Len(s) + 1] = a /\ \A i \in 1 .. Len(s) : t[i] = s[i]
  <1>1. Append(s, a) \in Seq(Nodes) /\ Len(Append(s, a)) = Len(s) + 1 /\ Len(s) \in Nat
    OBVIOUS
  <1>2. Append(s, a)[Len(s) + 1] = a /\ \A i \in 1 .. Len(s) : Append(s, a)[i] = s[i]
    OBVIOUS
  <1>3. QED BY <1>1, <1>2

(* The compare-exchange that links the node in, at the end of the list.    *)
LEMMA LinkNode ==
  ASSUME TypeOK, NEW s, ListInv(s), cas_next, main' = "casTail"
  PROVE  \E t \in Seq(Nodes) : t = Append(s, new_node) /\ ListInv(t)'
  <1> USE DEF Closing, Filling, Popped, Goto
  <1>1. main = "casNext" /\ ~ Closing
    BY DEF cas_next
  <1>2. /\ s \in Seq(Nodes) /\ Len(s) \in Nat /\ Len(s) > 0 /\ Len(linked) \in Nat
        /\ \A i \in 1 .. Len(s) : s[i] \in Nodes /\ s[i] # NULL
        /\ OpenInv(s) /\ StepInv(s) /\ SizeInv(s) /\ Chained(s) /\ Holds(s)
    BY <1>1, OpenFacts DEF TypeOK
  <1>3. /\ m_tail = s[Len(s)] /\ tail = s[Len(s)] /\ new_node \in Nodes \ NodesOf(s)
        /\ op[new_node] = events /\ file[new_node] = events /\ next[new_node] = NULL
    BY <1>1, <1>2 DEF StepInv, OpenInv
  <1>4. /\ next' = [next EXCEPT ![m_tail] = new_node]
        /\ linked' = Append(linked, events)
        /\ UNCHANGED <<head, tail, size, live, op, file, new_node, events>>
    BY DEF cas_next, dqVars
  <1>5. PICK a \in Nodes : a = new_node
    BY <1>3
  <1>6. PICK t \in Seq(Nodes) : t = Append(s, a)
    BY <1>2, AppendNode
  <1>7. /\ Len(t) = Len(s) + 1 /\ t[Len(s) + 1] = a
        /\ \A i \in 1 .. Len(s) : t[i] = s[i]
    BY <1>2, <1>6, AppendNode
  <1>8. \A i \in 1 .. Len(s) : s[i] # a
    BY <1>3, <1>5 DEF NodesOf
  <1>9. Chained(t)'
    <2>1. \A i, j \in 1 .. Len(t) : t[i] = t[j] => i = j
      <3>1. \A i \in 1 .. Len(t) : i \in 1 .. Len(s) \/ i = Len(s) + 1
        BY <1>2, <1>7
      <3>2. QED BY <1>2, <1>7, <1>8, <3>1 DEF Chained
    <2>2. \A i \in 1 .. Len(t) : next'[t[i]] = IF i = Len(t) THEN NULL ELSE t[i + 1]
      <3> SUFFICES ASSUME NEW i \in 1 .. Len(t)
                   PROVE  next'[t[i]] = IF i = Len(t) THEN NULL ELSE t[i + 1]
        OBVIOUS
      <3>0. Len(s) \in 1 .. Len(s)
        BY <1>2
      <3>1. next \in [Nodes -> NodeOrNull] /\ s[Len(s)] \in Nodes
        BY <1>2, <3>0 DEF TypeOK
      <3>2. CASE i = Len(s) + 1
        <4>1. next'[a] = NULL
          <5>1. a # s[Len(s)]
            BY <1>2, <1>8
          <5>2. QED BY <1>3, <1>4, <1>5, <3>1, <5>1
        <4>2. QED BY <1>7, <3>2, <4>1
      <3>3. CASE i = Len(s)
        <4>1. next'[s[Len(s)]] = a
          BY <1>3, <1>4, <1>5, <3>1
        <4>2. t[i] = s[Len(s)] /\ t[i + 1] = a /\ i # Len(t)
          BY <1>2, <1>7, <3>3
        <4>3. QED BY <4>1, <4>2
      <3>4. CASE i < Len(s)
        <4>1. i \in 1 .. Len(s) /\ i # Len(s) /\ i # Len(t) /\ i + 1 \in 1 .. Len(s)
          BY <1>2, <1>7, <3>4
        <4>2. next[s[i]] = s[i + 1] /\ s[i] # s[Len(s)] /\ s[i] \in Nodes
          BY <1>2, <4>1 DEF Chained
        <4>3. next'[s[i]] = s[i + 1]
          BY <1>3, <1>4, <3>1, <4>2
        <4>4. QED BY <1>7, <4>1, <4>3
      <3>5. QED BY <1>2, <1>7, <3>2, <3>3, <3>4
    <2>3. QED BY <2>1, <2>2 DEF Chained
  <1>10. /\ Len(linked') = Len(linked) + 1 /\ linked'[Len(linked) + 1] = events
         /\ \A b \in 1 .. Len(linked) : linked'[b] = linked[b]
    <2>1. linked \in Seq(Nat) /\ events \in Nat
      BY DEF TypeOK
    <2>2. QED BY <1>4, <2>1
  <1>11. Holds(t)'
    <2>1. Len(t) <= Len(linked') + 1
      BY <1>2, <1>7, <1>10 DEF Holds
    <2>2. ASSUME NEW i \in 1 .. Len(t), NEW b \in 1 .. Len(linked'),
                 b + Len(t) = Len(linked') + i
          PROVE  op'[t[i]] = linked'[b] /\ file'[t[i]] = linked'[b]
      <3>1. CASE i = Len(t)
        <4>1. b = Len(linked) + 1
          BY <1>2, <1>7, <1>10, <2>2, <3>1
        <4>2. QED BY <1>3, <1>4, <1>5, <1>7, <1>10, <3>1, <4>1
      <3>2. CASE i # Len(t)
        <4>1. i \in 1 .. Len(s) /\ b \in 1 .. Len(linked) /\ b + Len(s) = Len(linked) + i
          <5>1. PICK m \in Nat, n \in Nat : m = Len(s) /\ n = Len(linked)
            BY <1>2
          <5>2. i \in 1 .. m + 1 /\ b \in 1 .. n + 1 /\ b + (m + 1) = n + 1 + i /\ i # m + 1
            BY <1>7, <1>10, <2>2, <3>2, <5>1
          <5>3. i \in 1 .. m /\ b \in 1 .. n /\ b + m = n + i
            BY <5>2
          <5>4. QED BY <5>1, <5>3
        <4>2. op[s[i]] = linked[b] /\ file[s[i]] = linked[b]
          BY <1>2, <4>1 DEF Holds
        <4>3. QED BY <1>4, <1>7, <1>10, <4>1, <4>2
      <3>3. QED BY <3>1, <3>2
    <2>3. QED BY <2>1, <2>2 DEF Holds
  <1>12. OpenInv(t)'
    <2>1. NodesOf(t) = NodesOf(s) \union {a}
      <3>1. \A i \in 1 .. Len(t) : i \in 1 .. Len(s) \/ i = Len(s) + 1
        BY <1>2, <1>7
      <3>2. (\A i \in 1 .. Len(s) : i \in 1 .. Len(t)) /\ Len(s) + 1 \in 1 .. Len(t)
        BY <1>2, <1>7
      <3>3. QED BY <1>7, <3>1, <3>2 DEF NodesOf
    <2>2. live' = NodesOf(t)
      BY <1>1, <1>2, <1>4, <1>5, <2>1 DEF OpenInv
    <2>3. head' = t[1] /\ t # <<>>
      <3>1. 1 \in 1 .. Len(s) /\ Len(t) > 0
        BY <1>2, <1>7
      <3>2. QED BY <1>2, <1>4, <1>7, <3>1, SeqFacts DEF OpenInv
    <2>4. Len(t) > 1 /\ tail = t[Len(t) - 1]
      <3>1. Len(t) - 1 = Len(s) /\ Len(s) \in 1 .. Len(s) /\ Len(t) > 1
        BY <1>2, <1>7
      <3>2. QED BY <1>3, <1>7, <3>1
    <2>5. QED BY <1>4, <2>2, <2>3, <2>4 DEF OpenInv
  <1>13. StepInv(t)'
    BY <1>2, <1>4, <1>5, <1>7 DEF StepInv
  <1>14. SizeInv(t)'
    <2>1. size \in Nat /\ MAX_ENTRIES \in Nat
      BY DEF TypeOK
    <2>2. QED BY <1>1, <1>2, <1>4, <1>7, <1>10, <2>1 DEF SizeInv
  <1>15. ListInv(t)'
    BY <1>9, <1>11, <1>12, <1>13, <1>14 DEF ListInv
  <1>16. QED BY <1>5, <1>6, <1>15

(* The list without its first node.                                        *)
Rest(s, t) ==
  /\ t \in Seq(Nodes) /\ Len(t) \in Nat /\ Len(s) = Len(t) + 1
  /\ \A i \in 1 .. Len(t) : t[i] = s[i + 1]

LEMMA HasRest ==
  ASSUME NEW s \in Seq(Nodes), s # <<>>
  PROVE  \E t : Rest(s, t)
  <1>1. Len(s) \in Nat /\ Len(s) > 0
    BY SeqFacts
  <1>2. Tail(s) \in Seq(Nodes) /\ Len(Tail(s)) = Len(s) - 1
    BY <1>1
  <1>3. \A i \in 1 .. Len(Tail(s)) : Tail(s)[i] = s[i + 1]
    BY <1>1, <1>2
  <1>4. Rest(s, Tail(s))
    BY <1>1, <1>2, <1>3 DEF Rest
  <1>5. QED BY <1>4

LEMMA TailKept ==
  ASSUME NEW s, NEW t, Rest(s, t), s \in Seq(Nodes), Chained(s), Holds(s), linked \in Seq(Nat),
         next' = next, file' = file, linked' = linked,
         \A i \in 1 .. Len(s) : i # 1 => op'[s[i]] = op[s[i]]
  PROVE  /\ Chained(t)' /\ Holds(t)'
         /\ NodesOf(s) = NodesOf(t) \union {s[1]} /\ s[1] \in Nodes \ NodesOf(t)
  <1>1. /\ t \in Seq(Nodes) /\ Len(t) \in Nat /\ Len(s) = Len(t) + 1
        /\ \A i \in 1 .. Len(t) : t[i] = s[i + 1]
    BY DEF Rest
  <1>2. \A i \in 1 .. Len(t) : /\ i + 1 \in 1 .. Len(s) /\ i + 1 # 1
                               /\ (i = Len(t) <=> i + 1 = Len(s))
                               /\ i # Len(t) => i + 1 \in 1 .. Len(t)
    <2>1. PICK n \in Nat : n = Len(t) /\ Len(s) = n + 1
      BY <1>1
    <2>2. \A i \in 1 .. n : /\ i + 1 \in 1 .. n + 1 /\ i + 1 # 1
                            /\ (i = n <=> i + 1 = n + 1)
                            /\ i # n => i + 1 \in 1 .. n
      OBVIOUS
    <2>3. QED BY <2>1, <2>2
  <1>3. Chained(t)'
    <2>1. \A i, j \in 1 .. Len(t) : t[i] = t[j] => i = j
      <3> SUFFICES ASSUME NEW i \in 1 .. Len(t), NEW j \in 1 .. Len(t), t[i] = t[j]
                   PROVE  i = j
        OBVIOUS
      <3>1. i + 1 \in 1 .. Len(s) /\ j + 1 \in 1 .. Len(s)
        BY <1>2
      <3>2. s[i + 1] = s[j + 1]
        BY <1>1
      <3>3. i + 1 = j + 1
        BY <3>1, <3>2 DEF Chained
      <3>4. QED BY <3>3
    <2>2. \A i \in 1 .. Len(t) : next[t[i]] = IF i = Len(t) THEN NULL ELSE t[i + 1]
      <3> SUFFICES ASSUME NEW i \in 1 .. Len(t)
                   PROVE  next[t[i]] = IF i = Len(t) THEN NULL ELSE t[i + 1]
        OBVIOUS
      <3>1. i + 1 \in 1 .. Len(s) /\ t[i] = s[i + 1] /\ (i = Len(t) <=> i + 1 = Len(s))
        BY <1>1, <1>2
      <3>2. next[s[i + 1]] = IF i + 1 = Len(s) THEN NULL ELSE s[(i + 1) + 1]
        BY <3>1 DEF Chained
      <3>3. i # Len(t) => t[i + 1] = s[(i + 1) + 1]
        BY <1>1, <1>2
      <3>4. QED BY <3>1, <3>2, <3>3
    <2>3. QED BY <1>1, <2>1, <2>2 DEF Chained
  <1>4. Holds(t)'
    <2>1. Len(t) <= Len(linked) + 1
      <3>1. PICK n \in Nat : n = Len(linked)
        OBVIOUS
      <3>2. Len(t) + 1 <= n + 1
        BY <1>1, <3>1 DEF Holds
      <3>3. QED BY <1>1, <3>1, <3>2
    <2>2. ASSUME NEW i \in 1 .. Len(t), NEW a \in 1 .. Len(linked), a + Len(t) = Len(linked) + i
          PROVE  op'[t[i]] = linked[a] /\ file[t[i]] = linked[a]
      <3>1. a + Len(s) = Len(linked) + (i + 1)
        <4>1. PICK n \in Nat, m \in Nat : n = Len(linked) /\ m = Len(t)
          BY <1>1
        <4>2. a \in 1 .. n /\ i \in 1 .. m /\ a + m = n + i
          BY <2>2, <4>1
        <4>3. a + (m + 1) = n + (i + 1)
          BY <4>2
        <4>4. QED BY <1>1, <4>1, <4>3
      <3>2. op[s[i + 1]] = linked[a] /\ file[s[i + 1]] = linked[a]
        BY <1>2, <3>1 DEF Holds
      <3>3. op'[s[i + 1]] = op[s[i + 1]]
        BY <1>2
      <3>4. QED BY <1>1, <3>2, <3>3
    <2>3. QED BY <2>1, <2>2 DEF Holds
  <1>5. 1 \in 1 .. Len(s) /\ \A i \in 1 .. Len(s) : i # 1 => i - 1 \in 1 .. Len(t) /\ (i - 1) + 1 = i
    <2>1. PICK n \in Nat : n = Len(t) /\ Len(s) = n + 1
      BY <1>1
    <2>2. 1 \in 1 .. n + 1 /\ \A i \in 1 .. n + 1 : i # 1 => i - 1 \in 1 .. n /\ (i - 1) + 1 = i
      OBVIOUS
    <2>3. QED BY <2>1, <2>2
  <1>6. s[1] \in Nodes \ NodesOf(t)
    <2>1. \A i \in 1 .. Len(t) : t[i] # s[1]
      <3> SUFFICES ASSUME NEW i \in 1 .. Len(t), t[i] = s[1] PROVE FALSE
        OBVIOUS
      <3>1. i + 1 \in 1 .. Len(s) /\ i + 1 # 1 /\ s[i + 1] = s[1]
        BY <1>1, <1>2
      <3>2. QED BY <1>5, <3>1 DEF Chained
    <2>2. QED BY <1>5, <2>1, SeqFacts DEF NodesOf
  <1>7. NodesOf(s) = NodesOf(t) \union {s[1]}
    <2>1. \A i \in 1 .. Len(s) : s[i] \in NodesOf(t) \union {s[1]}
      <3> SUFFICES ASSUME NEW i \in 1 .. Len(s), i # 1 PROVE s[i] \in NodesOf(t)
        OBVIOUS
      <3>1. i - 1 \in 1 .. Len(t) /\ (i - 1) + 1 = i
        BY <1>5
      <3>2. t[i - 1] = s[(i - 1) + 1]
        BY <1>1, <3>1
      <3>3. QED BY <3>1, <3>2 DEF NodesOf
    <2>2. \A i \in 1 .. Len(t) : t[i] \in NodesOf(s)
      BY <1>1, <1>2 DEF NodesOf
    <2>3. s[1] \in NodesOf(s)
      BY <1>5 DEF NodesOf
    <2>4. NodesOf(s) \subseteq NodesOf(t) \union {s[1]}
      BY <2>1 DEF NodesOf
    <2>5. NodesOf(t) \subseteq NodesOf(s)
      BY <2>2 DEF NodesOf
    <2>6. QED BY <2>3, <2>4, <2>5
  <1>8. QED BY <1>3, <1>4, <1>6, <1>7

LEMMA PopLocal ==
  ASSUME TypeOK, NEW s, ListInv(s),
         pop_load \/ fetch_sub \/ (pop_cas /\ main' = "popLoad") \/ (cas_next /\ main' = "load")
  PROVE  ListInv(s)'
  <1> USE DEF Closing, Filling, Popped, Goto
  <1>1. main \in {"popLoad", "fetchSub", "popCas", "casNext"} /\ ~ Closing
    BY DEF pop_load, fetch_sub, pop_cas, cas_next
  <1>2. /\ s \in Seq(Nodes) /\ Len(s) \in Nat /\ Len(s) > 0 /\ Len(linked) \in Nat
        /\ \A i \in 1 .. Len(s) : s[i] \in Nodes /\ s[i] # NULL
        /\ OpenInv(s) /\ StepInv(s) /\ SizeInv(s) /\ Chained(s)
    BY <1>1, OpenFacts DEF TypeOK
  <1>3. CASE pop_load
    <2>1. /\ main = "popLoad" /\ m_head' = head /\ m_next' = next[head]
          /\ main' = IF head # tail THEN "popCas"
                     ELSE IF next[head] = NULL THEN "idle" ELSE "popHelp"
          /\ UNCHANGED <<head, tail, size, live, op, file, next, linked, new_node>>
      BY <1>3 DEF pop_load, dqVars, heapVars
    <2>2. Len(s) = MAX_ENTRIES + 2 /\ size = MAX_ENTRIES + 1 /\ Len(linked) > MAX_ENTRIES
      BY <1>2, <2>1 DEF SizeInv
    <2>3. head = s[1] /\ tail # s[1] /\ next[s[1]] = s[2]
      <3>1. PICK n \in Nat : n = Len(s) /\ n > 2
        BY <1>2, <2>2
      <3>2. 1 \in 1 .. n /\ n \in 1 .. n /\ n - 1 \in 1 .. n /\ n # 1 /\ n - 1 # 1
        BY <3>1
      <3>3. next[s[1]] = s[2]
        <4>1. next[s[1]] = IF 1 = Len(s) THEN NULL ELSE s[1 + 1]
          BY <1>2, <3>1, <3>2 DEF Chained
        <4>2. QED BY <3>1, <3>2, <4>1
      <3>4. s[n] # s[1] /\ s[n - 1] # s[1]
        BY <1>2, <3>1, <3>2 DEF Chained
      <3>5. QED BY <1>2, <3>1, <3>3, <3>4 DEF OpenInv
    <2>4. main' = "popCas"
      BY <2>1, <2>3
    <2>5. StepInv(s)' /\ SizeInv(s)'
      BY <2>1, <2>2, <2>3, <2>4 DEF StepInv, SizeInv
    <2>6. QED BY <2>1, <2>4, <2>5, LocalStep
  <1>4. CASE fetch_sub
    <2>1. /\ main = "fetchSub" /\ main' = "popFree" /\ size' = size - 1
          /\ UNCHANGED <<head, tail, live, op, file, next, linked, new_node, m_head>>
      BY <1>4 DEF fetch_sub, heapVars
    <2>2. /\ Len(s) = MAX_ENTRIES + 1 /\ size = MAX_ENTRIES + 1 /\ Len(linked) > MAX_ENTRIES
      BY <1>2, <2>1 DEF SizeInv
    <2>3. size' = MAX_ENTRIES
      BY <2>1, <2>2
    <2>4. StepInv(s)' /\ SizeInv(s)'
      BY <2>1, <2>2, <2>3 DEF StepInv, SizeInv
    <2>5. QED BY <2>1, <2>4, LocalStep
  <1>5. CASE pop_cas /\ main' = "popLoad"
    <2>1. /\ main = "popCas" /\ head' = head
          /\ UNCHANGED <<tail, size, live, op, file, next, linked, new_node, m_head>>
      BY <1>5 DEF pop_cas, heapVars
    <2>2. StepInv(s)' /\ SizeInv(s)'
      BY <1>2, <1>5, <2>1 DEF StepInv, SizeInv
    <2>3. QED BY <1>5, <2>1, <2>2, LocalStep
  <1>6. CASE cas_next /\ main' = "load"
    <2>1. /\ main = "casNext" /\ UNCHANGED <<next, linked, events>>
          /\ UNCHANGED <<head, tail, size, live, op, file, new_node, m_head>>
      BY <1>6 DEF cas_next, dqVars
    <2>2. StepInv(s)' /\ SizeInv(s)'
      BY <1>2, <1>6, <2>1 DEF StepInv, SizeInv
    <2>3. QED BY <1>6, <2>1, <2>2, LocalStep
  <1>7. QED BY <1>3, <1>4, <1>5, <1>6

(* The compare-exchange that makes the oldest entry the dummy.             *)
LEMMA DropHead ==
  ASSUME TypeOK, NEW s, ListInv(s), pop_cas, main' = "fetchSub"
  PROVE  \E t \in Seq(Nodes) : Rest(s, t) /\ ListInv(t)'
  <1> USE DEF Closing, Filling, Popped, Goto
  <1>1. /\ main = "popCas" /\ ~ Closing /\ head' = m_next
        /\ UNCHANGED <<tail, size, live, op, file, next, linked, m_head, new_node>>
    BY DEF pop_cas, heapVars
  <1>2. /\ s \in Seq(Nodes) /\ Len(s) \in Nat /\ Len(s) > 0 /\ Len(linked) \in Nat
        /\ s # <<>> /\ linked \in Seq(Nat)
        /\ OpenInv(s) /\ StepInv(s) /\ SizeInv(s) /\ Chained(s) /\ Holds(s)
    BY <1>1, OpenFacts, SMTT(30) DEF TypeOK, OpenInv
  <1>3. /\ m_head = s[1] /\ m_next = s[2] /\ Len(s) = MAX_ENTRIES + 2
        /\ size = MAX_ENTRIES + 1 /\ Len(linked) > MAX_ENTRIES /\ next[s[1]] = s[2]
    <2>1. m_head = s[1] /\ m_next = s[2] /\ Len(s) = MAX_ENTRIES + 2
          /\ size = MAX_ENTRIES + 1 /\ Len(linked) > MAX_ENTRIES
      BY <1>1, <1>2 DEF StepInv, SizeInv
    <2>2. 1 \in 1 .. Len(s) /\ 1 # Len(s)
      BY <2>1
    <2>3. QED BY <1>2, <2>1, <2>2 DEF Chained
  <1>4. PICK t : Rest(s, t)
    BY <1>2, HasRest
  <1>5. /\ Chained(t)' /\ Holds(t)'
        /\ t \in Seq(Nodes) /\ Len(t) \in Nat /\ Len(s) = Len(t) + 1
        /\ \A i \in 1 .. Len(t) : t[i] = s[i + 1]
        /\ NodesOf(s) = NodesOf(t) \union {s[1]} /\ s[1] \in Nodes \ NodesOf(t)
    <2>1. next' = next /\ file' = file /\ linked' = linked
      BY <1>1
    <2>2. \A i \in 1 .. Len(s) : i # 1 => op'[s[i]] = op[s[i]]
      BY <1>1
    <2>3. s \in Seq(Nodes) /\ Chained(s) /\ Holds(s) /\ linked \in Seq(Nat)
      BY <1>2
    <2>4. /\ Chained(t)' /\ Holds(t)'
          /\ NodesOf(s) = NodesOf(t) \union {s[1]} /\ s[1] \in Nodes \ NodesOf(t)
      BY <1>4, <2>1, <2>2, <2>3, TailKept
    <2>5. QED BY <1>4, <2>4 DEF Rest
  <1>6. Len(t) = MAX_ENTRIES + 1 /\ Len(t) > 1
    BY <1>3, <1>5
  <1>7. OpenInv(t)'
    <2>1. head' = t[1] /\ t # <<>>
      <3>1. 1 \in 1 .. Len(t) /\ 1 + 1 = 2
        BY <1>6
      <3>2. QED BY <1>1, <1>3, <1>5, <3>1, SeqFacts
    <2>2. tail = t[Len(t)] \/ (Len(t) > 1 /\ tail = t[Len(t) - 1])
      <3>1. /\ Len(t) \in 1 .. Len(t) /\ Len(t) - 1 \in 1 .. Len(t)
            /\ Len(s) - 1 = Len(t) - 1 + 1
        BY <1>5, <1>6
      <3>2. QED BY <1>2, <1>5, <1>6, <3>1 DEF OpenInv
    <2>3. live = NodesOf(t) \union {m_head}
      BY <1>1, <1>2, <1>3, <1>5 DEF OpenInv
    <2>4. next[m_head] = t[1]
      BY <1>1, <1>3, <2>1
    <2>5. QED BY <1>1, <1>3, <1>5, <2>1, <2>2, <2>3, <2>4 DEF OpenInv
  <1>8. StepInv(t)' /\ SizeInv(t)'
    BY <1>1, <1>3, <1>6 DEF StepInv, SizeInv
  <1>9. ListInv(t)'
    BY <1>5, <1>7, <1>8 DEF ListInv
  <1>10. QED BY <1>4, <1>5, <1>9

(* free() of the node popped writes no node of the list.                   *)
LEMMA FreePopped ==
  ASSUME TypeOK, NEW s, ListInv(s), pop_free
  PROVE  ListInv(s)'
  <1> USE DEF Closing, Filling, Popped, Goto
  <1>1. /\ main = "popFree" /\ ~ Closing /\ main' = "idle" /\ live' = live \ {m_head}
        /\ op' = [op EXCEPT ![m_head] = Garbage]
        /\ UNCHANGED <<head, tail, size, file, next, linked>>
    BY DEF pop_free, free, dqVars
  <1>2. /\ s \in Seq(Nodes) /\ \A i \in 1 .. Len(s) : s[i] \in Nodes
        /\ OpenInv(s) /\ SizeInv(s) /\ Chained(s) /\ Holds(s)
    BY <1>1, OpenFacts
  <1>3. live = NodesOf(s) \union {m_head} /\ m_head \in Nodes \ NodesOf(s)
    BY <1>1, <1>2 DEF OpenInv
  <1>4. \A i \in 1 .. Len(s) : op'[s[i]] = op[s[i]]
    <2>1. \A i \in 1 .. Len(s) : s[i] # m_head
      BY <1>3 DEF NodesOf
    <2>2. QED BY <1>1, <1>2, <2>1 DEF TypeOK
  <1>5. Chained(s)' /\ Holds(s)'
    BY <1>1, <1>2, <1>4, ChainedKept, HoldsKept
  <1>6. OpenInv(s)'
    BY <1>1, <1>2, <1>3 DEF OpenInv
  <1>7. StepInv(s)' /\ SizeInv(s)'
    <2>1. Len(s) = MAX_ENTRIES + 1 /\ size = MAX_ENTRIES /\ Len(linked) > MAX_ENTRIES
      BY <1>1, <1>2 DEF SizeInv
    <2>2. Len(linked) \in Nat
      BY DEF TypeOK
    <2>3. QED BY <1>1, <2>1, <2>2 DEF StepInv, SizeInv
  <1>8. QED BY <1>1, <1>5, <1>6, <1>7 DEF ListInv

(* freeDequeue() takes the list apart from its head.                       *)
LEMMA FreeStep ==
  ASSUME TypeOK, NEW s, ListInv(s), freeDequeue
  PROVE  \E t \in Seq(Nodes) : ListInv(t)' /\ Closing' /\ (t = s \/ disturbed' = TRUE)
  <1> USE DEF Closing, Filling, Popped, Goto
  <1>0. s \in Seq(Nodes) /\ Chained(s) /\ Holds(s)
    BY DEF ListInv, Chained
  <1>1. CASE free_load
    <2>1. /\ main = "idle" /\ m_head' = head /\ main' = "freeNext"
          /\ UNCHANGED <<head, live, op, file, next, linked>>
      BY <1>1 DEF free_load, dqVars, heapVars
    <2>2. live = NodesOf(s) /\ head = s[1] /\ s # <<>>
      BY <2>1, OpenFacts DEF OpenInv
    <2>3. Chained(s)' /\ Holds(s)'
      BY <1>0, <2>1, ChainedKept, HoldsKept
    <2>4. QED BY <1>0, <2>1, <2>2, <2>3 DEF ListInv, CloseInv
  <1>2. CASE free_next /\ m_head # NULL
    <2>1. /\ main = "freeNext" /\ main' = main /\ live' = live \ {m_head}
          /\ op' = [op EXCEPT ![m_head] = Garbage] /\ m_head' = next[m_head]
          /\ UNCHANGED <<head, file, next, linked>> /\ disturbed' = TRUE
      BY <1>2 DEF free_next, free, dqVars
    <2>2. /\ live = NodesOf(s) /\ s # <<>> /\ m_head = s[1]
          /\ head \in live => head = s[1]
      BY <1>2, <2>1 DEF ListInv, CloseInv
    <2>3. Len(s) \in Nat /\ Len(s) > 0 /\ \A i \in 1 .. Len(s) : s[i] \in Nodes
      BY <1>0, <2>2, SeqFacts
    <2>4. \A i \in 1 .. Len(s) : i # 1 => op'[s[i]] = op[s[i]]
      <3>1. \A i \in 1 .. Len(s) : i # 1 => s[i] # s[1]
        BY <1>0, <2>3 DEF Chained
      <3>2. QED BY <2>1, <2>2, <2>3, <3>1 DEF TypeOK
    <2>5. PICK t : Rest(s, t)
      BY <1>0, <2>2, HasRest
    <2>6. /\ Chained(t)' /\ Holds(t)'
          /\ t \in Seq(Nodes) /\ Len(t) \in Nat /\ Len(s) = Len(t) + 1
          /\ \A i \in 1 .. Len(t) : t[i] = s[i + 1]
          /\ NodesOf(s) = NodesOf(t) \union {s[1]} /\ s[1] \in Nodes \ NodesOf(t)
      <3>1. linked \in Seq(Nat)
        BY DEF TypeOK
      <3>2. next' = next /\ file' = file /\ linked' = linked
        BY <2>1
      <3>3. /\ Chained(t)' /\ Holds(t)'
            /\ NodesOf(s) = NodesOf(t) \union {s[1]} /\ s[1] \in Nodes \ NodesOf(t)
        BY <1>0, <2>4, <2>5, <3>1, <3>2, TailKept
      <3>4. QED BY <2>5, <3>3 DEF Rest
    <2>7. m_head' = IF t = <<>> THEN NULL ELSE t[1]
      <3>1. next[s[1]] = IF 1 = Len(s) THEN NULL ELSE s[2]
        <4>1. 1 \in 1 .. Len(s)
          BY <2>3
        <4>2. next[s[1]] = IF 1 = Len(s) THEN NULL ELSE s[1 + 1]
          BY <1>0, <4>1 DEF Chained
        <4>3. QED BY <4>2
      <3>2. t = <<>> <=> Len(t) = 0
        BY <2>6, SeqFacts
      <3>3. CASE t = <<>>
        BY <2>1, <2>2, <2>6, <3>1, <3>2, <3>3
      <3>4. CASE t # <<>>
        <4>1. 1 \in 1 .. Len(t) /\ 1 + 1 = 2 /\ 1 # Len(s)
          BY <2>6, <3>2, <3>4
        <4>2. QED BY <2>1, <2>2, <2>6, <3>1, <3>4, <4>1
      <3>5. QED BY <3>3, <3>4
    <2>8. live' = NodesOf(t) /\ head \notin live'
      BY <2>1, <2>2, <2>6
    <2>9. QED BY <2>1, <2>6, <2>7, <2>8 DEF ListInv, CloseInv
  <1>3. CASE free_next /\ m_head = NULL
    <2>1. /\ main = "freeNext" /\ main' = "clear"
          /\ UNCHANGED <<live, op, file, next, linked>>
      BY <1>3 DEF free_next, heapVars
    <2>2. live = NodesOf(s) /\ (s = <<>> \/ m_head = s[1])
      BY <2>1 DEF ListInv, CloseInv
    <2>3. s = <<>>
      <3>1. s # <<>> => 1 \in 1 .. Len(s)
        BY <1>0, SeqFacts
      <3>2. QED BY <1>0, <1>3, <2>2, <3>1, SeqFacts
    <2>4. live = {}
      BY <2>2, <2>3 DEF NodesOf
    <2>5. Chained(s)' /\ Holds(s)'
      BY <1>0, <2>1, ChainedKept, HoldsKept
    <2>6. QED BY <1>0, <2>1, <2>4, <2>5 DEF ListInv, CloseInv
  <1>4. CASE clear \/ exit
    <2>1. /\ main \in {"clear", "freed"} /\ main' \in {"freed", "exited"}
          /\ UNCHANGED <<live, op, file, next, linked>>
      BY <1>4 DEF clear, exit, heapVars
    <2>2. live = {}
      BY <2>1 DEF ListInv, CloseInv
    <2>3. Chained(s)' /\ Holds(s)'
      BY <1>0, <2>1, ChainedKept, HoldsKept
    <2>4. QED BY <1>0, <2>1, <2>2, <2>3 DEF ListInv, CloseInv
  <1>5. QED BY <1>1, <1>2, <1>3, <1>4 DEF freeDequeue

(* The TUI thread only reads; following a NULL head it ends the process,   *)
(* which it can do only when the queue is freed.                           *)
LEMMA ReadStep ==
  ASSUME TypeOK, PlaceInv, NEW s, ListInv(s), displayEntries \/ UNCHANGED vars
  PROVE  ListInv(s)' /\ Closing' = Closing
  <1> USE DEF Closing, Filling, Popped, Goto
  <1>1. UNCHANGED <<dqVars, heapVars, new_node, m_head, m_tail, m_next, events, linked>>
    BY DEF displayEntries, load_head, load_first, test, read_file, advance, mainVars, vars
  <1>2. Chained(s)' /\ Holds(s)'
    BY <1>1, ChainedKept, HoldsKept DEF heapVars, ListInv
  <1>3. CASE main' = main
    <2>1. ~ Closing => OpenInv(s)' /\ StepInv(s)' /\ SizeInv(s)'
      <3>1. ~ Closing => OpenInv(s) /\ StepInv(s) /\ SizeInv(s)
        BY DEF ListInv
      <3>2. OpenInv(s) => OpenInv(s)'
        BY <1>1, <1>3 DEF OpenInv, dqVars, heapVars
      <3>3. StepInv(s) => StepInv(s)'
        BY <1>1, <1>3 DEF StepInv, dqVars, heapVars
      <3>4. SizeInv(s) => SizeInv(s)'
        BY <1>1, <1>3 DEF SizeInv, dqVars
      <3>5. QED BY <3>1, <3>2, <3>3, <3>4
    <2>2. CloseInv(s) => CloseInv(s)'
      BY <1>1, <1>3 DEF CloseInv, dqVars, heapVars
    <2>3. QED BY <1>2, <1>3, <2>1, <2>2 DEF ListInv
  <1>4. CASE main' # main
    <2>1. main' = "exited" /\ head = NULL /\ main # "exited"
      BY <1>4 DEF displayEntries, load_head, load_first, test, read_file, advance, mainVars,
                  vars, Running
    <2>2. main = "freed"
      BY <2>1 DEF PlaceInv
    <2>3. live = {} /\ live' = live
      BY <1>1, <2>2 DEF ListInv, CloseInv, heapVars
    <2>4. QED BY <1>2, <2>1, <2>2, <2>3 DEF ListInv, CloseInv
  <1>5. QED BY <1>3, <1>4

LEMMA ListStep ==
  ASSUME TypeOK, PlaceInv, NEW s \in Seq(Nodes), ListInv(s), [Next]_vars
  PROVE  \E t \in Seq(Nodes) : ListInv(t)'
  <1>1. CASE cas_next
    <2>1. main' = "casTail" \/ main' = "load"
      BY <1>1 DEF cas_next, Goto
    <2>2. QED BY <1>1, <2>1, LinkNode, PopLocal
  <1>2. CASE pop_cas
    <2>1. main' = "fetchSub" \/ main' = "popLoad"
      BY <1>2 DEF pop_cas, Goto
    <2>2. QED BY <1>2, <2>1, DropHead, PopLocal
  <1>3. QED
    BY <1>1, <1>2, PushLocal, FillNode, PopLocal, FreePopped, FreeStep, ReadStep
       DEF Next, pushRear, popFront
LEMMA SerialStep ==
  ASSUME TypeOK, SerialInv, [Next]_vars
  PROVE  SerialInv'
  <1> USE DEF Filling, Goto
  <1>1. events \in Nat /\ linked \in Seq(Nat) /\ Len(linked) \in Nat
        /\ (linked # <<>> => linked[Len(linked)] \in Nat)
    <2>1. events \in Nat /\ linked \in Seq(Nat) /\ Len(linked) \in Nat
      BY DEF TypeOK
    <2>2. linked # <<>> => Len(linked) \in 1 .. Len(linked)
      BY <2>1
    <2>3. QED BY <2>1, <2>2
  <1>2. CASE malloc_new_node \/ malloc_fails
    <2>1. events' = events + 1 /\ linked' = linked
      BY <1>2 DEF malloc_new_node, malloc_fails
    <2>2. QED BY <1>1, <2>1 DEF SerialInv
  <1>3. CASE cas_next
    <2>1. main = "casNext" /\ events' = events
      BY <1>3 DEF cas_next
    <2>2. CASE main' = "casTail" /\ linked' = Append(linked, events)
      <3>1. Len(linked') = Len(linked) + 1 /\ linked'[Len(linked) + 1] = events
        BY <1>1, <2>2
      <3>2. linked'[Len(linked')] = events
        BY <3>1
      <3>3. QED BY <1>1, <2>1, <2>2, <3>2 DEF SerialInv
    <2>3. CASE main' = "load" /\ linked' = linked
      BY <2>1, <2>3 DEF SerialInv
    <2>4. QED BY <1>3, <2>2, <2>3 DEF cas_next
  <1>4. ASSUME events' = events, linked' = linked, Filling' => Filling
        PROVE  SerialInv'
    BY <1>4 DEF SerialInv
  <1>5. CASE store_op \/ store_file \/ store_next \/ push_load \/ cas_tail \/ help_tail \/ fetch_add
    <2>1. events' = events /\ linked' = linked /\ (Filling' => Filling)
      BY <1>5 DEF store_op, store_file, store_next, push_load, cas_tail, help_tail, fetch_add,
                  SwingTail
    <2>2. QED BY <1>4, <2>1
  <1>6. CASE popFront \/ freeDequeue
    <2>1. events' = events /\ linked' = linked /\ (Filling' => Filling)
      BY <1>6 DEF popFront, freeDequeue, pop_load, pop_cas, fetch_sub, pop_free, free_load,
                  free_next, clear, exit
    <2>2. QED BY <1>4, <2>1
  <1>7. CASE displayEntries \/ UNCHANGED vars
    <2>1. events' = events /\ linked' = linked /\ (Filling' => Filling)
      BY <1>7 DEF displayEntries, load_head, load_first, test, read_file, advance, mainVars, vars
    <2>2. QED BY <1>4, <2>1
  <1>8. QED BY <1>2, <1>3, <1>5, <1>6, <1>7 DEF Next, pushRear

LEMMA TypeStep ==
  ASSUME TypeOK, PlaceInv, NEW s, ListInv(s), [Next]_vars
  PROVE  TypeOK'
  <1>1. CASE UNCHANGED vars
    BY <1>1, SMTT(40) DEF vars, dqVars, heapVars, mainVars, tuiVars, TypeOK
  <1>2. QED BY <1>1, PushTyped, PopAndFreeTyped, WalkTyped DEF Next

-----------------------------------------------------------------------------
(* The invariant holds.                                                    *)

QInv == TypeOK /\ PlaceInv /\ SerialInv /\ \E s \in Seq(Nodes) : ListInv(s)

LEMMA InitInv == Init => QInv
  <1> SUFFICES ASSUME Init PROVE QInv
    OBVIOUS
  <1>1. PICK d \in Nodes : head = d /\ tail = d /\ live = {d}
    BY DEF Init
  <1>2. /\ size = 0 /\ main = "idle" /\ new_node = NULL /\ m_head = NULL /\ m_tail = NULL
        /\ m_next = NULL /\ events = 0 /\ linked = <<>> /\ tui = "idle" /\ current = NULL
        /\ index = 0 /\ t_op = 0 /\ array = <<>> /\ start = 0 /\ disturbed = FALSE
        /\ op = [a \in Nodes |-> 0] /\ file = [a \in Nodes |-> 0]
        /\ next = [a \in Nodes |-> NULL]
    BY DEF Init, Garbage
  <1>3. <<>> \in Seq(Nat) /\ <<>> \in Seq(Nat \X Nat) /\ Len(<<>>) = 0
    OBVIOUS
  <1>4. MAX_ENTRIES \in Nat /\ MAX_ENTRIES > 0
    OBVIOUS
  <1>5. TypeOK
    <2>1. op \in [Nodes -> Nat] /\ file \in [Nodes -> Nat] /\ next \in [Nodes -> NodeOrNull]
      BY <1>2 DEF NodeOrNull
    <2>2. head \in NodeOrNull /\ tail \in NodeOrNull /\ live \subseteq Nodes
      BY <1>1 DEF NodeOrNull
    <2>3. size \in 0 .. MAX_ENTRIES + 1 /\ index \in 0 .. MAX_ENTRIES
      BY <1>2, <1>4
    <2>4. /\ array \in Seq(Nat \X Nat) /\ Len(array) <= MAX_ENTRIES /\ linked \in Seq(Nat)
      BY <1>2, <1>3, <1>4
    <2>5. /\ main \in MainStates /\ tui \in TuiStates /\ events \in Nat /\ t_op \in Nat
          /\ start \in Nat /\ disturbed \in BOOLEAN
      BY <1>2 DEF MainStates, TuiStates
    <2>6. /\ new_node \in NodeOrNull /\ m_head \in NodeOrNull /\ m_tail \in NodeOrNull
          /\ m_next \in NodeOrNull /\ current \in NodeOrNull
      BY <1>2 DEF NodeOrNull
    <2>7. QED BY <2>1, <2>2, <2>3, <2>4, <2>5, <2>6 DEF TypeOK
  <1>6. PlaceInv
    BY <1>1, <1>2 DEF PlaceInv, Walking
  <1>7. SerialInv
    BY <1>2 DEF SerialInv, Filling
  <1>8. PICK s \in Seq(Nodes) : Len(s) = 1 /\ s[1] = d
    <2>1. <<d>> \in Seq(Nodes) /\ Len(<<d>>) = 1 /\ <<d>>[1] = d
      OBVIOUS
    <2>2. QED BY <2>1
  <1>9. \A i \in 1 .. Len(s) : i = 1 /\ i = Len(s)
    BY <1>8
  <1>10. ListInv(s)
    <2>1. Chained(s)
      BY <1>2, <1>8, <1>9 DEF Chained
    <2>2. Holds(s)
      BY <1>2, <1>3, <1>8, <1>9 DEF Holds
    <2>3. NodesOf(s) = {d} /\ s # <<>>
      <3>1. \A x \in NodesOf(s) : x = d
        BY <1>8, <1>9 DEF NodesOf
      <3>2. d \in NodesOf(s)
        <4>1. 1 \in 1 .. Len(s)
          BY <1>8
        <4>2. QED BY <1>8, <4>1 DEF NodesOf
      <3>3. QED BY <1>3, <1>8, <3>1, <3>2
    <2>4. OpenInv(s)
      BY <1>1, <1>2, <1>8, <2>3 DEF OpenInv, Filling, Popped
    <2>5. StepInv(s)
      BY <1>2 DEF StepInv
    <2>6. SizeInv(s)
      BY <1>2, <1>3, <1>4, <1>8 DEF SizeInv, Filling
    <2>7. QED BY <1>2, <2>1, <2>2, <2>4, <2>5, <2>6 DEF ListInv, Closing
  <1>11. QED BY <1>5, <1>6, <1>7, <1>10 DEF QInv

LEMMA QInvStep == QInv /\ [Next]_vars => QInv'
  <1> SUFFICES ASSUME QInv, [Next]_vars PROVE QInv'
    OBVIOUS
  <1>1. TypeOK /\ PlaceInv /\ SerialInv
    BY DEF QInv
  <1>2. PICK s \in Seq(Nodes) : ListInv(s)
    BY DEF QInv
  <1>3. TypeOK' /\ PlaceInv' /\ SerialInv'
    BY <1>1, <1>2, TypeStep, PlaceStep, SerialStep
  <1>4. \E t \in Seq(Nodes) : ListInv(t)'
    BY <1>1, <1>2, ListStep
  <1>5. QED BY <1>3, <1>4 DEF QInv

LEMMA Invariant == Spec => []QInv
  <1>1. QED BY InitInv, QInvStep, PTL DEF Spec

(* Types, with a bound on size and on what displayEntries() writes to its  *)
(* array: whatever the two threads do, size is never above MAX_ENTRIES + 1 *)
(* nor below zero, and no walk copies more than MAX_ENTRIES entries, or    *)
(* follows NULL but from a freed queue.                                    *)
THEOREM QueueTypeCorrect == Spec => []TypeOK
  <1>1. QInv => TypeOK
    BY DEF QInv
  <1>2. QED BY <1>1, Invariant, PTL

LEMMA LastOnes ==
  ASSUME NEW S, NEW q \in Seq(S), NEW k \in Nat, k <= Len(q)
  PROVE  SubSeq(q, Len(q) - k + 1, Len(q)) = [n \in 1 .. k |-> q[Len(q) - k + n]]
  <1>1. PICK m \in Nat : m = Len(q) - k
    OBVIOUS
  <1> DEFINE p == SubSeq(q, m + 1, Len(q))
             r == [n \in 1 .. k |-> q[m + n]]
  <1>2. p \in Seq(S) /\ Len(p) = k /\ \A n \in 1 .. k : p[n] = q[m + n]
    <2>1. m <= Len(q) /\ Len(q) - m = k /\ Len(q) \in Nat
      BY <1>1
    <2>2. \A i \in Nat : i <= Len(q) =>
             LET t == SubSeq(q, i + 1, Len(q))
             IN  t \in Seq(S) /\ Len(t) = Len(q) - i
                 /\ \A j \in 1 .. Len(q) - i : t[j] = q[i + j]
      OBVIOUS
    <2> HIDE DEF p
    <2>3. p \in Seq(S) /\ Len(p) = Len(q) - m /\ \A j \in 1 .. Len(q) - m : p[j] = q[m + j]
      BY <2>1, <2>2 DEF p
    <2>4. QED BY <2>1, <2>3
  <1>3. \A n \in 1 .. k : r[n] = q[m + n]
    OBVIOUS
  <1>4. r = [n \in 1 .. k |-> r[n]]
    OBVIOUS
  <1> HIDE DEF p, r
  <1>5. p = [n \in 1 .. k |-> p[n]]
    <2>1. DOMAIN p = 1 .. Len(p)
      BY <1>2
    <2>2. p = [n \in DOMAIN p |-> p[n]]
      BY <1>2
    <2>3. QED BY <1>2, <2>1, <2>2
  <1>6. p = r
    BY <1>2, <1>3, <1>4, <1>5
  <1>7. QED BY <1>1, <1>6 DEF p, r

LEMMA Newest == QInv => KeepsNewest
  <1> SUFFICES ASSUME QInv, main = "idle"
               PROVE  /\ size = Length
                      /\ Length = IF Len(linked) < MAX_ENTRIES THEN Len(linked) ELSE MAX_ENTRIES
                      /\ Contents = SubSeq(linked, Len(linked) - Length + 1, Len(linked))
                      /\ \A n \in 1 .. Length : op[NodeAt[n]] = file[NodeAt[n]]
    BY DEF KeepsNewest
  <1>1. PICK s \in Seq(Nodes) : ListInv(s)
    BY DEF QInv
  <1>2. /\ Len(s) \in Nat /\ Len(s) > 0 /\ head = s[1] /\ OpenInv(s)
        /\ SizeInv(s) /\ Chained(s) /\ Holds(s)
    BY <1>1, OpenFacts DEF Closing
  <1>3. ListOf(head, next, s)
    BY <1>2 DEF ListOf, Chained, OpenInv
  <1>4. /\ Length = Len(s) - 1
        /\ Contents = [n \in 1 .. Len(s) - 1 |-> file[s[n + 1]]]
        /\ \A n \in 0 .. Len(s) - 1 : NodeAt[n] = s[n + 1]
    BY <1>3, ListIs
  <1>5. /\ size \in Nat /\ size + 1 = Len(s) /\ Len(linked) \in Nat /\ MAX_ENTRIES \in Nat
        /\ \/ Len(s) = Len(linked) + 1 /\ Len(linked) <= MAX_ENTRIES
           \/ Len(s) = MAX_ENTRIES + 1 /\ Len(linked) >= MAX_ENTRIES
    BY <1>2 DEF SizeInv, QInv, TypeOK
  <1>6. PICK l \in Nat, k \in Nat : l = Len(linked) /\ k = Length /\ Len(s) = k + 1 /\ k <= l
    <2>1. Length \in Nat /\ Len(s) = Length + 1
      BY <1>2, <1>4
    <2>2. Length <= Len(linked)
      BY <1>5, <2>1
    <2>3. QED BY <1>5, <2>1, <2>2
  <1>7. size = k /\ k = IF l < MAX_ENTRIES THEN l ELSE MAX_ENTRIES
    BY <1>5, <1>6
  <1>8. \A n \in 1 .. k : op[s[n + 1]] = linked[l - k + n] /\ file[s[n + 1]] = linked[l - k + n]
    <2> SUFFICES ASSUME NEW n \in 1 .. k
                 PROVE  op[s[n + 1]] = linked[l - k + n] /\ file[s[n + 1]] = linked[l - k + n]
      OBVIOUS
    <2>1. n + 1 \in 1 .. k + 1 /\ l - k + n \in 1 .. l /\ (l - k + n) + (k + 1) = l + (n + 1)
      BY <1>6
    <2>2. QED BY <1>2, <1>6, <2>1, ZenonT(30) DEF Holds
  <1>9. \A n \in 1 .. k : NodeAt[n] = s[n + 1]
    <2>1. \A n \in 1 .. k : n \in 0 .. Len(s) - 1
      BY <1>6
    <2>2. QED BY <1>4, <2>1
  <1>10. Contents = SubSeq(linked, l - k + 1, l)
    <2>1. 1 .. Len(s) - 1 = 1 .. k
      BY <1>6
    <2>2. Contents = [n \in 1 .. k |-> file[s[n + 1]]]
      BY <1>4, <2>1
    <2>3. SubSeq(linked, l - k + 1, l) = [n \in 1 .. k |-> linked[l - k + n]]
      <3>1. linked \in Seq(Nat)
        BY DEF QInv, TypeOK
      <3>2. QED BY <1>6, <3>1, LastOnes
    <2>4. QED BY <1>8, <2>2, <2>3
  <1>11. \A n \in 1 .. k : op[NodeAt[n]] = file[NodeAt[n]]
    BY <1>8, <1>9
  <1>12. size = Length
         /\ Length = IF Len(linked) < MAX_ENTRIES THEN Len(linked) ELSE MAX_ENTRIES
    BY <1>6, <1>7
  <1>13. Contents = SubSeq(linked, Len(linked) - Length + 1, Len(linked))
    BY <1>6, <1>10
  <1>14. \A n \in 1 .. Length : op[NodeAt[n]] = file[NodeAt[n]]
    BY <1>6, <1>11
  <1>15. QED BY <1>12, <1>13, <1>14

(* Between calls the list that links from head is exactly the newest       *)
(* MAX_ENTRIES events pushRear() linked in, or all of them while there are *)
(* fewer, oldest first, each whole, and size counts them: for any          *)
(* MAX_ENTRIES, and whichever freed nodes malloc() gives out again.        *)
THEOREM QueueKeepsNewest == Spec => []KeepsNewest
  <1>1. QED BY Newest, Invariant, PTL

LEMMA NoLeak == QInv => NoLeakNoDangling
  <1> SUFFICES ASSUME QInv PROVE NoLeakNoDangling
    OBVIOUS
  <1>1. PICK s \in Seq(Nodes) : ListInv(s)
    BY DEF QInv
  <1>2. main \in {"clear", "freed", "exited"} => live = {}
    BY <1>1 DEF ListInv, CloseInv, Closing
  <1>3. ASSUME ~ Closing
        PROVE  /\ live = Chain \union (IF Filling THEN {new_node} ELSE {})
                               \union (IF Popped THEN {m_head} ELSE {})
               /\ tail = NodeAt[Length] \/ (Length > 0 /\ tail = NodeAt[Length - 1])
    <2>1. /\ Len(s) \in Nat /\ Len(s) > 0 /\ head = s[1] /\ OpenInv(s) /\ Chained(s)
      BY <1>1, <1>3, OpenFacts
    <2>2. ListOf(head, next, s)
      BY <2>1 DEF ListOf, Chained, OpenInv
    <2>3. /\ Length = Len(s) - 1 /\ Chain = NodesOf(s)
          /\ \A n \in 0 .. Len(s) - 1 : NodeAt[n] = s[n + 1]
      BY <2>2, ListIs
    <2>4. PICK k \in Nat : k = Length /\ Len(s) = k + 1
      BY <2>1, <2>3
    <2>5. NodeAt[k] = s[k + 1] /\ (k > 0 => NodeAt[k - 1] = s[k])
      <3>1. k \in 0 .. Len(s) - 1 /\ (k > 0 => k - 1 \in 0 .. Len(s) - 1 /\ (k - 1) + 1 = k)
        BY <2>4
      <3>2. QED BY <2>3, <3>1
    <2>6. tail = s[k + 1] \/ (k > 0 /\ tail = s[k])
      <3>1. k + 1 - 1 = k /\ (k + 1 > 1 => k > 0)
        BY <2>4
      <3>2. QED BY <2>1, <2>4, <3>1 DEF OpenInv
    <2>7. QED BY <2>1, <2>3, <2>4, <2>5, <2>6 DEF OpenInv
  <1>4. QED BY <1>2, <1>3 DEF NoLeakNoDangling

(* The nodes malloc() gave out are those of the list, the one being pushed *)
(* and the one popped and not yet freed, tail is one of the last two, and  *)
(* freeDequeue() leaves none.                                              *)
THEOREM QueueLeaksNothing == Spec => []NoLeakNoDangling
  <1>1. QED BY NoLeak, Invariant, PTL

-----------------------------------------------------------------------------
(* The list implements RecentEvents: what it holds is the end of linked,   *)
(* whose length changes only by the two compare-exchanges.                 *)

LastOf(q, k) == [n \in 1 .. k |-> q[Len(q) - k + n]]

LEMMA HeldIs ==
  ASSUME NEW s, NEW h, NEW link, NEW data, NEW q \in Seq(Nat), ListOf(h, link, s),
         Len(s) <= Len(q) + 1,
         \A i \in 1 .. Len(s) : \A a \in 1 .. Len(q) :
           a + Len(s) = Len(q) + i => data[s[i]] = q[a]
  PROVE  \E k \in Nat : /\ Len(s) = k + 1 /\ k <= Len(q)
                        /\ ContentsOf(h, link, data) = LastOf(q, k)
  <1>1. /\ Len(s) \in Nat /\ Len(s) > 0
        /\ ContentsOf(h, link, data) = [n \in 1 .. Len(s) - 1 |-> data[s[n + 1]]]
    BY ListLength
  <1>2. PICK k \in Nat, l \in Nat : Len(s) = k + 1 /\ l = Len(q) /\ k <= l
    <2>1. Len(s) - 1 \in Nat /\ Len(q) \in Nat /\ Len(s) = (Len(s) - 1) + 1 /\ Len(s) - 1 <= Len(q)
      BY <1>1
    <2>2. QED BY <2>1
  <1>3. 1 .. Len(s) - 1 = 1 .. k
    BY <1>2
  <1>4. ASSUME NEW n \in 1 .. k
        PROVE  data[s[n + 1]] = q[l - k + n]
    <2>1. n + 1 \in 1 .. k + 1 /\ l - k + n \in 1 .. l /\ (l - k + n) + (k + 1) = l + (n + 1)
      BY <1>2
    <2>2. QED BY <1>2, <2>1
  <1>5. ContentsOf(h, link, data) = LastOf(q, k)
    BY <1>1, <1>2, <1>3, <1>4 DEF LastOf
  <1>6. QED BY <1>2, <1>5

LEMMA HeldNow ==
  ASSUME NEW s, ListInv(s), ~ Closing, linked \in Seq(Nat)
  PROVE  \E k \in Nat : Len(s) = k + 1 /\ k <= Len(linked) /\ Contents = LastOf(linked, k)
  <1>1. ListOf(head, next, s) /\ Holds(s)
    BY DEF ListInv, OpenInv, Chained, ListOf
  <1>2. Contents = ContentsOf(head, next, file)
    BY DEF Contents, Length, NodeAt, Follow, FollowOf, ContentsOf, LengthOf
  <1>3. PICK k \in Nat : /\ Len(s) = k + 1 /\ k <= Len(linked)
                         /\ ContentsOf(head, next, file) = LastOf(linked, k)
    BY <1>1, HeldIs DEF Holds
  <1>4. QED BY <1>2, <1>3

LEMMA HeldNext ==
  ASSUME NEW s, ListInv(s)', ~ Closing', linked' \in Seq(Nat)
  PROVE  \E k \in Nat : Len(s) = k + 1 /\ k <= Len(linked') /\ Contents' = LastOf(linked', k)
  <1>1. ListOf(head', next', s) /\ Holds(s)'
    BY DEF ListInv, OpenInv, Chained, ListOf
  <1>2. Contents' = ContentsOf(head', next', file')
    BY DEF Contents, Length, NodeAt, Follow, FollowOf, ContentsOf, LengthOf
  <1>3. PICK k \in Nat : /\ Len(s) = k + 1 /\ k <= Len(linked')
                         /\ ContentsOf(head', next', file') = LastOf(linked', k)
    BY <1>1, HeldIs DEF Holds
  <1>4. QED BY <1>2, <1>3

LEMMA SeqIs ==
  ASSUME NEW S, NEW w \in Seq(S), NEW k \in Nat, Len(w) = k \/ DOMAIN w = 1 .. k
  PROVE  Len(w) = k /\ w = [n \in 1 .. k |-> w[n]]
  <1>1. w \in [1 .. Len(w) -> S] /\ Len(w) \in Nat
    OBVIOUS
  <1>2. Len(w) = k
    OBVIOUS
  <1>3. w = [n \in 1 .. Len(w) |-> w[n]]
    BY <1>1
  <1>4. QED BY <1>2, <1>3

LEMMA LastAppended ==
  ASSUME NEW q \in Seq(Nat), NEW e \in Nat, NEW k \in Nat, k <= Len(q)
  PROVE  LastOf(Append(q, e), k + 1) = Append(LastOf(q, k), e)
  <1>1. PICK p \in Seq(Nat) : p = Append(q, e)
    <2>1. Append(q, e) \in Seq(Nat)
      OBVIOUS
    <2>2. QED BY <2>1
  <1>2. PICK l \in Nat : l = Len(q) /\ Len(p) = l + 1 /\ p[l + 1] = e /\ k <= l
        /\ \A i \in 1 .. l : p[i] = q[i]
    <2>1. /\ Len(q) \in Nat /\ Len(Append(q, e)) = Len(q) + 1 /\ Append(q, e)[Len(q) + 1] = e
          /\ \A i \in 1 .. Len(q) : Append(q, e)[i] = q[i]
      OBVIOUS
    <2>2. QED BY <1>1, <2>1
  <1>3. PICK u \in Seq(Nat) : u = LastOf(q, k)
    <2>1. l = Len(q) /\ k <= l /\ \A i \in 1 .. l : q[i] \in Nat
      BY <1>2
    <2>2. \A n \in 1 .. k : q[l - k + n] \in Nat
      <3>1. \A n \in 1 .. k : l - k + n \in 1 .. l
        BY <2>1
      <3>2. QED BY <2>1, <3>1
    <2>3. LastOf(q, k) \in [1 .. k -> Nat]
      BY <1>2, <2>2 DEF LastOf
    <2>4. LastOf(q, k) \in Seq(Nat)
      BY <2>3
    <2>5. QED BY <2>4
  <1>4. Len(u) = k /\ \A n \in 1 .. k : u[n] = q[l - k + n]
    <2>1. DOMAIN u = 1 .. k
      BY <1>3 DEF LastOf
    <2>2. Len(u) = k
      BY <2>1, SeqIs
    <2>3. QED BY <1>2, <1>3, <2>2 DEF LastOf
  <1>5. PICK w \in Seq(Nat) :
          w = Append(u, e) /\ Len(w) = k + 1 /\ w[k + 1] = e /\ \A n \in 1 .. k : w[n] = u[n]
    <2>1. /\ Append(u, e) \in Seq(Nat) /\ Len(Append(u, e)) = Len(u) + 1
          /\ Append(u, e)[Len(u) + 1] = e /\ \A i \in 1 .. Len(u) : Append(u, e)[i] = u[i]
      OBVIOUS
    <2>2. QED BY <1>4, <2>1
  <1>6. Len(w) = k + 1 /\ w[k + 1] = e /\ \A n \in 1 .. k : w[n] = u[n]
    BY <1>5
  <1>7. ASSUME NEW n \in 1 .. k + 1
        PROVE  p[Len(p) - (k + 1) + n] = w[n]
    <2>1. Len(p) - (k + 1) + n = l - k + n
      BY <1>2
    <2>2. CASE n = k + 1
      <3>1. l - k + n = l + 1
        BY <1>2, <2>2
      <3>2. QED BY <1>2, <1>6, <2>1, <2>2, <3>1
    <2>3. CASE n # k + 1
      <3>1. n \in 1 .. k /\ l - k + n \in 1 .. l
        BY <1>2, <2>3
      <3>2. QED BY <1>2, <1>4, <1>6, <2>1, <3>1, ZenonT(30)
    <2>4. QED BY <2>2, <2>3
  <1>8. w = [n \in 1 .. k + 1 |-> w[n]]
    <2>1. w \in Seq(Nat) /\ k + 1 \in Nat
      OBVIOUS
    <2>2. QED BY <1>6, <2>1, SeqIs
  <1>9. LastOf(p, k + 1) = w
    BY <1>7, <1>8 DEF LastOf
  <1>10. QED BY <1>1, <1>3, <1>5, <1>9

LEMMA LastShortened ==
  ASSUME NEW q \in Seq(Nat), NEW k \in Nat, k + 1 <= Len(q)
  PROVE  LastOf(q, k) = Tail(LastOf(q, k + 1)) /\ Len(LastOf(q, k + 1)) = k + 1
  <1>1. PICK l \in Nat : l = Len(q) /\ k + 1 <= l
    OBVIOUS
  <1>2. PICK u \in Seq(Nat) : u = LastOf(q, k + 1)
    <2>1. \A n \in 1 .. k + 1 : l - (k + 1) + n \in 1 .. l
      BY <1>1
    <2>2. \A n \in 1 .. k + 1 : q[l - (k + 1) + n] \in Nat
      BY <1>1, <2>1
    <2>3. LastOf(q, k + 1) \in [1 .. k + 1 -> Nat]
      BY <1>1, <2>2 DEF LastOf
    <2>4. LastOf(q, k + 1) \in Seq(Nat)
      BY <2>3
    <2>5. QED BY <2>4
  <1>3. Len(u) = k + 1 /\ \A n \in 1 .. k + 1 : u[n] = q[l - (k + 1) + n]
    <2>1. DOMAIN u = 1 .. k + 1
      BY <1>2 DEF LastOf
    <2>2. Len(u) = k + 1
      <3>1. k + 1 \in Nat
        OBVIOUS
      <3>2. QED BY <2>1, <3>1, SeqIs
    <2>3. QED BY <1>1, <1>2, <2>2 DEF LastOf
  <1>4. PICK w \in Seq(Nat) : w = Tail(u) /\ Len(w) = k /\ \A n \in 1 .. k : w[n] = u[n + 1]
    <2>1. Len(u) > 0
      BY <1>3
    <2>2. Tail(u) \in Seq(Nat) /\ Len(Tail(u)) = Len(u) - 1
      BY <2>1
    <2>3. \A n \in 1 .. Len(Tail(u)) : Tail(u)[n] = u[n + 1]
      BY <2>1, <2>2
    <2>4. Len(u) - 1 = k
      BY <1>3
    <2>5. QED BY <2>2, <2>3, <2>4
  <1>5. Len(w) = k /\ \A n \in 1 .. k : w[n] = u[n + 1]
    BY <1>4
  <1>6. ASSUME NEW n \in 1 .. k
        PROVE  q[Len(q) - k + n] = w[n]
    <2>1. n + 1 \in 1 .. k + 1 /\ l - (k + 1) + (n + 1) = l - k + n
      BY <1>1
    <2>2. QED BY <1>1, <1>3, <1>5, <2>1
  <1>7. w = [n \in 1 .. k |-> w[n]]
    <2>1. w \in Seq(Nat)
      OBVIOUS
    <2>2. QED BY <1>5, <2>1, SeqIs
  <1>8. LastOf(q, k) = w
    BY <1>6, <1>7 DEF LastOf
  <1>9. QED BY <1>2, <1>3, <1>4, <1>8

NewestOf(q) == IF q = <<>> THEN 0 ELSE q[Len(q)]
Entries == IF Closing THEN <<>> ELSE Contents

LEMMA StutterRecords ==
  ASSUME TypeOK, TypeOK', linked' = linked, Closing' <=> Closing,
         NEW s, ~ Closing => ListInv(s) /\ ListInv(s)'
  PROVE  UNCHANGED R!vars
  <1>1. Entries' = Entries
    <2>1. CASE Closing
      BY <2>1 DEF Entries
    <2>2. CASE ~ Closing
      <3>1. ListInv(s) /\ ListInv(s)' /\ ~ Closing'
        BY <2>2
      <3>2. linked \in Seq(Nat) /\ linked' \in Seq(Nat)
        BY DEF TypeOK
      <3>3. PICK k \in Nat : Len(s) = k + 1 /\ k <= Len(linked) /\ Contents = LastOf(linked, k)
        BY <2>2, <3>1, <3>2, HeldNow
      <3>4. PICK m \in Nat : Len(s) = m + 1 /\ m <= Len(linked') /\ Contents' = LastOf(linked', m)
        BY <2>2, <3>1, <3>2, HeldNext
      <3>5. k = m
        BY <3>3, <3>4
      <3>6. QED BY <2>2, <3>3, <3>4, <3>5 DEF Entries
    <2>3. QED BY <2>1, <2>2
  <1>2. (Closing)' = Closing
    BY DEF Closing
  <1>3. QED BY <1>1, <1>2 DEF R!vars, Entries

LEMMA LinkRecords ==
  ASSUME TypeOK, TypeOK', SerialInv, NEW s, ListInv(s), cas_next, main' = "casTail"
  PROVE  R!Record
  <1> USE DEF Closing, Filling, Goto
  <1>1. PICK t \in Seq(Nodes) : t = Append(s, new_node) /\ ListInv(t)'
    BY LinkNode
  <1>2. main = "casNext" /\ ~ Closing /\ ~ Closing' /\ linked' = Append(linked, events)
    BY DEF cas_next
  <1>3. linked \in Seq(Nat) /\ linked' \in Seq(Nat) /\ events \in Nat /\ MAX_ENTRIES \in Nat
    BY DEF TypeOK
  <1>4. s \in Seq(Nodes) /\ SizeInv(s) /\ new_node \in Nodes
    BY <1>2, OpenFacts DEF OpenInv
  <1>5. PICK k \in Nat : Len(s) = k + 1 /\ k <= Len(linked) /\ Contents = LastOf(linked, k)
    BY <1>2, <1>3, HeldNow
  <1>6. PICK m \in Nat : Len(t) = m + 1 /\ m <= Len(linked') /\ Contents' = LastOf(linked', m)
    BY <1>1, <1>2, <1>3, HeldNext
  <1>7. m = k + 1 /\ Len(s) \in Nat
    <2>1. Len(t) = Len(s) + 1 /\ Len(s) \in Nat
      BY <1>1, <1>4, AppendNode
    <2>2. QED BY <1>5, <1>6, <2>1
  <1>8. Contents' = Append(Contents, events)
    BY <1>2, <1>3, <1>5, <1>6, <1>7, LastAppended
  <1>9. Len(Contents) <= MAX_ENTRIES
    <2>1. k <= MAX_ENTRIES
      <3>1. /\ Len(linked) \in Nat
            /\ \/ Len(s) = Len(linked) + 1 /\ Len(linked) <= MAX_ENTRIES
               \/ Len(s) = MAX_ENTRIES + 1
        BY <1>2, <1>3, <1>4 DEF SizeInv
      <3>2. QED BY <1>3, <1>5, <3>1
    <2>2. Len(Contents) = k
      <3>1. DOMAIN LastOf(linked, k) = 1 .. k
        BY DEF LastOf
      <3>2. QED BY <1>5, <3>1
    <2>3. QED BY <2>1, <2>2
  <1>10. linked' # <<>> /\ linked'[Len(linked')] = events
    <2>1. Len(linked') = Len(linked) + 1 /\ linked'[Len(linked) + 1] = events /\ Len(linked) \in Nat
      BY <1>2, <1>3
    <2>2. linked' # <<>>
      <3>1. Len(linked') # 0 /\ Len(<<>>) = 0
        BY <2>1
      <3>2. QED BY <3>1
    <2>3. QED BY <2>1, <2>2
  <1>11. events > NewestOf(linked)
    <2>1. events > 0 /\ (linked # <<>> => linked[Len(linked)] < events)
      BY <1>2 DEF SerialInv
    <2>2. linked # <<>> => linked[Len(linked)] \in Nat
      <3>1. linked # <<>> => Len(linked) \in 1 .. Len(linked)
        BY <1>3
      <3>2. QED BY <1>3, <3>1
    <2>3. QED BY <1>3, <2>1, <2>2 DEF NewestOf
  <1>12. QED BY <1>2, <1>3, <1>8, <1>9, <1>10, <1>11, SMTT(30) DEF R!Record, NewestOf

LEMMA DropEvicts ==
  ASSUME TypeOK, TypeOK', NEW s, ListInv(s), pop_cas, main' = "fetchSub"
  PROVE  R!Evict
  <1> USE DEF Closing, Goto
  <1>1. PICK t \in Seq(Nodes) : Rest(s, t) /\ ListInv(t)'
    BY DropHead
  <1>2. main = "popCas" /\ ~ Closing /\ ~ Closing' /\ linked' = linked
    BY DEF pop_cas
  <1>3. linked \in Seq(Nat) /\ linked' \in Seq(Nat) /\ MAX_ENTRIES \in Nat
    BY DEF TypeOK
  <1>4. Len(s) = MAX_ENTRIES + 2
    BY <1>2, OpenFacts DEF SizeInv
  <1>5. PICK k \in Nat : Len(s) = k + 1 /\ k <= Len(linked) /\ Contents = LastOf(linked, k)
    BY <1>2, <1>3, HeldNow
  <1>6. PICK m \in Nat : Len(t) = m + 1 /\ m <= Len(linked') /\ Contents' = LastOf(linked', m)
    BY <1>1, <1>2, <1>3, HeldNext
  <1>7. k = m + 1 /\ k = MAX_ENTRIES + 1
    BY <1>1, <1>3, <1>4, <1>5, <1>6 DEF Rest
  <1>8. Contents' = Tail(Contents) /\ Len(Contents) = MAX_ENTRIES + 1
    BY <1>2, <1>3, <1>5, <1>6, <1>7, LastShortened
  <1>9. Len(Contents) > MAX_ENTRIES
    BY <1>3, <1>8
  <1>10. QED BY <1>2, <1>8, <1>9 DEF R!Evict

LEMMA FreeCloses ==
  ASSUME TypeOK, NEW s, ListInv(s), free_load
  PROVE  R!Close
  <1> USE DEF Closing, Goto
  <1>1. main = "idle" /\ ~ Closing /\ Closing' /\ linked' = linked
    BY DEF free_load
  <1>2. linked \in Seq(Nat) /\ MAX_ENTRIES \in Nat /\ Len(linked) \in Nat
    BY DEF TypeOK
  <1>3. PICK k \in Nat : Len(s) = k + 1 /\ k <= Len(linked) /\ Contents = LastOf(linked, k)
    BY <1>1, <1>2, HeldNow
  <1>4. k <= MAX_ENTRIES
    <2>1. \/ Len(s) = Len(linked) + 1 /\ Len(linked) <= MAX_ENTRIES
          \/ Len(s) = MAX_ENTRIES + 1
      BY <1>1, OpenFacts DEF SizeInv
    <2>2. QED BY <1>2, <1>3, <2>1
  <1>5. Len(Contents) = k
    <2>1. DOMAIN LastOf(linked, k) = 1 .. k
      BY DEF LastOf
    <2>2. QED BY <1>3, <2>1
  <1>6. Len(Contents) <= MAX_ENTRIES
    BY <1>4, <1>5
  <1>7. QED BY <1>1, <1>6 DEF R!Close

LEMMA StepRecords ==
  ASSUME QInv, QInv', [Next]_vars
  PROVE  [R!Next]_(R!vars)
  <1>1. TypeOK /\ TypeOK' /\ PlaceInv /\ SerialInv
    BY DEF QInv
  <1>2. PICK s \in Seq(Nodes) : ListInv(s)
    BY DEF QInv
  <1>3. CASE cas_next /\ main' = "casTail"
    BY <1>1, <1>2, <1>3, LinkRecords DEF R!Next
  <1>4. CASE pop_cas /\ main' = "fetchSub"
    BY <1>1, <1>2, <1>4, DropEvicts DEF R!Next
  <1>5. CASE free_load
    BY <1>1, <1>2, <1>5, FreeCloses DEF R!Next
  <1>6. CASE (cas_next /\ main' = "load") \/ (pop_cas /\ main' = "popLoad")
             \/ pop_load \/ fetch_sub
    <2>1. ListInv(s)' /\ linked' = linked /\ ~ Closing /\ ~ Closing'
      <3>1. ListInv(s)'
        BY <1>1, <1>2, <1>6, PopLocal
      <3>2. linked' = linked /\ ~ Closing /\ ~ Closing'
        BY <1>6 DEF cas_next, pop_cas, pop_load, fetch_sub, Closing, Goto
      <3>3. QED BY <3>1, <3>2
    <2>2. QED BY <1>1, <1>2, <2>1, StutterRecords
  <1>7. CASE malloc_fails \/ push_load \/ cas_tail \/ help_tail \/ fetch_add
    <2>1. ListInv(s)'
      BY <1>1, <1>2, <1>7, PushLocal
    <2>2. linked' = linked /\ ~ Closing /\ ~ Closing'
      BY <1>7 DEF malloc_fails, push_load, cas_tail, help_tail, fetch_add, SwingTail, Closing, Goto
    <2>3. QED BY <1>1, <1>2, <2>1, <2>2, StutterRecords
  <1>8. CASE malloc_new_node \/ store_op \/ store_file \/ store_next
    <2>1. ListInv(s)'
      BY <1>1, <1>2, <1>8, FillNode
    <2>2. linked' = linked /\ ~ Closing /\ ~ Closing'
      BY <1>8 DEF malloc_new_node, store_op, store_file, store_next, Closing, Goto
    <2>3. QED BY <1>1, <1>2, <2>1, <2>2, StutterRecords
  <1>9. CASE pop_free
    <2>1. ListInv(s)'
      BY <1>1, <1>2, <1>9, FreePopped
    <2>2. linked' = linked /\ ~ Closing /\ ~ Closing'
      BY <1>9 DEF pop_free, Closing, Goto
    <2>3. QED BY <1>1, <1>2, <2>1, <2>2, StutterRecords
  <1>10. CASE free_next \/ clear \/ exit
    <2>1. linked' = linked /\ Closing /\ Closing'
      BY <1>10 DEF free_next, clear, exit, Closing, Goto
    <2>2. QED BY <1>1, <2>1, StutterRecords
  <1>11. CASE displayEntries \/ UNCHANGED vars
    <2>1. ListInv(s)' /\ Closing' = Closing
      BY <1>1, <1>2, <1>11, ReadStep
    <2>2. linked' = linked
      BY <1>11 DEF displayEntries, load_head, load_first, test, read_file, advance, mainVars, vars
    <2>3. QED BY <1>1, <1>2, <2>1, <2>2, StutterRecords
  <1>12. (cas_next => main' = "casTail" \/ main' = "load")
         /\ (pop_cas => main' = "fetchSub" \/ main' = "popLoad")
    BY DEF cas_next, pop_cas, Goto
  <1>13. QED
    BY <1>3, <1>4, <1>5, <1>6, <1>7, <1>8, <1>9, <1>10, <1>11, <1>12
       DEF Next, pushRear, popFront, freeDequeue

(* To its one writer the linked list is the queue RecentEvents promises:   *)
(* an event is recorded by the compare-exchange that links its node in,    *)
(* the oldest evicted by the compare-exchange of head and only when there  *)
(* is one too many, and no other access changes what the queue holds.      *)
THEOREM ListRecordsRecent == Spec => RecordsRecentEvents
  <1>1. Init => R!Init
    <2> SUFFICES ASSUME Init PROVE R!Init
      OBVIOUS
    <2>1. linked = <<>> /\ ~ Closing
      BY DEF Init, Closing
    <2>2. PICK s \in Seq(Nodes) : ListInv(s)
      BY InitInv DEF QInv
    <2>3. <<>> \in Seq(Nat) /\ Len(<<>>) = 0
      OBVIOUS
    <2>4. PICK k \in Nat : k <= Len(linked) /\ Contents = LastOf(linked, k)
      BY <2>1, <2>2, <2>3, HeldNow
    <2>5. Contents = <<>>
      <3>1. k = 0
        BY <2>1, <2>3, <2>4
      <3>2. Contents = [n \in 1 .. 0 |-> linked[Len(linked) - 0 + n]]
        BY <2>4, <3>1 DEF LastOf
      <3>3. QED BY <3>2
    <2>6. QED BY <2>1, <2>5 DEF R!Init
  <1>2. QInv /\ QInv' /\ [Next]_vars => [R!Next]_(R!vars)
    BY StepRecords
  <1>3. QED BY <1>1, <1>2, Invariant, PTL DEF Spec, RecordsRecentEvents, R!Spec

-----------------------------------------------------------------------------
(* A walk in which nothing is freed.                                       *)

LEMMA AtFacts ==
  ASSUME NEW s, ListInv(s), linked \in Seq(Nat), NEW c, NEW a \in Nat, At(s, c, a)
  PROVE  c \in Nodes /\ c # NULL /\ a <= Len(linked)
  <1>1. s \in Seq(Nodes) /\ Len(s) \in Nat /\ Len(linked) \in Nat
        /\ \A i \in 1 .. Len(s) : s[i] \in Nodes
    BY SeqFacts DEF ListInv, Chained
  <1>2. CASE Popped /\ c = m_head /\ a + Len(s) = Len(linked)
    <2>1. m_head \in Nodes
      <3>1. ~ Closing
        BY <1>2 DEF Popped, Closing
      <3>2. QED BY <1>2, <3>1 DEF ListInv, OpenInv
    <2>2. a <= Len(linked)
      BY <1>1, <1>2
    <2>3. QED BY <1>2, <2>1, <2>2
  <1>3. CASE \E i \in 1 .. Len(s) : c = s[i] /\ a + Len(s) = Len(linked) + i
    <2>1. PICK i \in 1 .. Len(s) : c = s[i] /\ a + Len(s) = Len(linked) + i
      BY <1>3
    <2>2. a <= Len(linked)
      BY <1>1, <2>1
    <2>3. QED BY <1>1, <2>1, <2>2
  <1>4. QED BY <1>2, <1>3 DEF At

LEMMA NextAt ==
  ASSUME NEW s, ListInv(s), linked \in Seq(Nat), NEW c, NEW a \in Nat, At(s, c, a)
  PROVE  (next[c] = NULL /\ a = Len(linked)) \/ At(s, next[c], a + 1)
  <1>1. s \in Seq(Nodes) /\ Len(s) \in Nat /\ Len(linked) \in Nat
    BY SeqFacts DEF ListInv, Chained
  <1>2. CASE Popped /\ c = m_head /\ a + Len(s) = Len(linked)
    <2>1. s # <<>> /\ next[m_head] = s[1]
      <3>1. ~ Closing
        BY <1>2 DEF Popped, Closing
      <3>2. QED BY <1>2, <3>1 DEF ListInv, OpenInv
    <2>2. 1 \in 1 .. Len(s) /\ (a + 1) + Len(s) = Len(linked) + 1
      <3>1. PICK m \in Nat, n \in Nat : m = Len(s) /\ n = Len(linked)
        BY <1>1
      <3>2. m > 0
        BY <1>1, <2>1, <3>1, SeqFacts
      <3>3. a + m = n
        BY <1>2, <3>1
      <3>4. 1 \in 1 .. m /\ (a + 1) + m = n + 1
        BY <3>2, <3>3
      <3>5. QED BY <3>1, <3>4
    <2>3. QED BY <1>2, <2>1, <2>2 DEF At
  <1>3. CASE \E i \in 1 .. Len(s) : c = s[i] /\ a + Len(s) = Len(linked) + i
    <2>1. PICK i \in 1 .. Len(s) : c = s[i] /\ a + Len(s) = Len(linked) + i
      BY <1>3
    <2>2. next[s[i]] = IF i = Len(s) THEN NULL ELSE s[i + 1]
      BY DEF ListInv, Chained
    <2>3. CASE i = Len(s)
      BY <1>1, <2>1, <2>2, <2>3
    <2>4. CASE i # Len(s)
      <3>1. i + 1 \in 1 .. Len(s) /\ (a + 1) + Len(s) = Len(linked) + (i + 1)
        BY <1>1, <2>1, <2>4
      <3>2. QED BY <2>1, <2>2, <2>4, <3>1 DEF At
    <2>5. QED BY <2>3, <2>4
  <1>4. QED BY <1>2, <1>3 DEF At

LEMMA DataAt ==
  ASSUME NEW s, ListInv(s), PoppedInv(s), linked \in Seq(Nat), NEW c, NEW a \in Nat \ {0},
         At(s, c, a)
  PROVE  op[c] = linked[a] /\ file[c] = linked[a]
  <1>1. a \in 1 .. Len(linked)
    BY AtFacts
  <1>2. QED BY <1>1 DEF At, PoppedInv, ListInv, Holds

(* What the main thread does but free() leaves a walk where it is.         *)
LEMMA WalkKept ==
  ASSUME TypeOK, linked' \in Seq(Nat), NEW s, NEW t, ListInv(s), WalkInv(s), UNCHANGED tuiVars,
         \A c \in Nodes : \A a \in Nat : At(s, c, a) => At(t, c, a)',
         Len(linked) <= Len(linked'), \A b \in 1 .. Len(linked) : linked'[b] = linked[b]
  PROVE  WalkInv(t)'
  <1> SUFFICES ASSUME Walking, ~ disturbed
               PROVE  WalkInv(t)'
    BY DEF WalkInv, Walking, tuiVars
  <1>1. UNCHANGED <<tui, current, index, t_op, array, start, disturbed>>
    BY DEF tuiVars
  <1>2. /\ linked \in Seq(Nat) /\ Len(linked) \in Nat /\ Len(linked') \in Nat
        /\ Len(array) \in Nat /\ start \in Nat
    BY DEF TypeOK
  <1>3. PICK i \in 0 .. Len(linked) :
         /\ Consecutive(i)
         /\ tui = "loadFirst" => At(s, current, i)
         /\ tui = "test" =>
              \/ current = NULL /\ i + Len(array) >= start
              \/ At(s, current, i + Len(array) + 1)
         /\ tui = "readFile" =>
              At(s, current, i + Len(array) + 1) /\ t_op = linked[i + Len(array) + 1]
         /\ tui = "advance" => At(s, current, i + Len(array))
    BY DEF WalkInv
  <1>4. PICK c, d : c = current /\ d = array
    OBVIOUS
  <1>5. i \in Nat /\ i \in 0 .. Len(linked') /\ i + Len(d) \in Nat /\ i + Len(d) + 1 \in Nat
    BY <1>2, <1>4
  <1>6. ASSUME NEW a \in Nat, At(s, c, a)
        PROVE  At(t, c, a)'
    BY <1>2, <1>6, AtFacts
  <1>7. Consecutive(i)'
    <2> SUFFICES ASSUME NEW k \in 1 .. Len(d)
                 PROVE  i + k <= Len(linked') /\ d[k] = <<linked'[i + k], linked'[i + k]>>
      BY <1>1, <1>4 DEF Consecutive
    <2>1. i + k <= Len(linked) /\ d[k] = <<linked[i + k], linked[i + k]>>
      BY <1>3, <1>4 DEF Consecutive
    <2>2. i + k \in 1 .. Len(linked) /\ i + k <= Len(linked')
      <3>1. PICK m \in Nat, n \in Nat, l \in Nat : m = Len(d) /\ n = Len(linked) /\ l = Len(linked')
        BY <1>2, <1>4
      <3>2. n <= l /\ i + k <= n /\ k \in 1 .. m
        BY <2>1, <3>1
      <3>3. i + k \in 1 .. n /\ i + k <= l
        BY <3>2
      <3>4. QED BY <3>1, <3>3
    <2>3. QED BY <2>1, <2>2
  <1>8. tui = "readFile" => t_op = linked'[i + Len(d) + 1]
    <2>1. tui = "readFile" => i + Len(d) + 1 \in 1 .. Len(linked)
      <3>1. tui = "readFile" => i + Len(d) + 1 <= Len(linked)
        BY <1>2, <1>3, <1>4, <1>5, AtFacts
      <3>2. QED BY <1>2, <1>4, <1>5, <3>1
    <2>2. QED BY <1>3, <1>4, <2>1
  <1>9. start <= Len(linked')
    <2>1. start <= Len(linked)
      BY DEF WalkInv
    <2>2. QED BY <1>2, <2>1
  <1>10. /\ tui = "loadFirst" => At(t, c, i)'
         /\ tui = "test" => (c = NULL /\ i + Len(d) >= start) \/ At(t, c, i + Len(d) + 1)'
         /\ tui = "readFile" => At(t, c, i + Len(d) + 1)'
         /\ tui = "advance" => At(t, c, i + Len(d))'
    BY <1>3, <1>4, <1>5, <1>6
  <1>11. QED BY <1>1, <1>4, <1>5, <1>7, <1>8, <1>9, <1>10 DEF WalkInv

LEMMA AtSame ==
  ASSUME NEW s, linked' = linked, Popped' <=> Popped, Popped => m_head' = m_head
  PROVE  \A c \in Nodes : \A a \in Nat : At(s, c, a) => At(s, c, a)'
  BY DEF At

LEMMA PoppedKept ==
  ASSUME NEW s, PoppedInv(s), linked' = linked, Popped' => Popped, Popped' => m_head' = m_head,
         op' = op, file' = file
  PROVE  PoppedInv(s)'
  BY DEF PoppedInv

LEMMA WalkLink ==
  ASSUME TypeOK, TypeOK', NEW s, ListInv(s), WalkInv(s), cas_next, main' = "casTail"
  PROVE  \E t \in Seq(Nodes) : ListInv(t)' /\ WalkInv(t)' /\ PoppedInv(t)'
  <1>1. PICK t \in Seq(Nodes) : t = Append(s, new_node) /\ ListInv(t)'
    BY LinkNode
  <1>2. main = "casNext" /\ ~ Closing /\ linked' = Append(linked, events) /\ UNCHANGED tuiVars
    BY DEF cas_next, Closing, Goto
  <1>3. linked \in Seq(Nat) /\ linked' \in Seq(Nat) /\ events \in Nat
    BY DEF TypeOK
  <1>4. s \in Seq(Nodes) /\ new_node \in Nodes
    BY <1>2, OpenFacts DEF OpenInv, Filling
  <1>5. /\ Len(t) = Len(s) + 1 /\ Len(s) \in Nat
        /\ \A i \in 1 .. Len(s) : t[i] = s[i]
    BY <1>1, <1>4, AppendNode
  <1>6. /\ Len(linked') = Len(linked) + 1 /\ Len(linked) \in Nat
        /\ \A b \in 1 .. Len(linked) : linked'[b] = linked[b]
    BY <1>2, <1>3
  <1>7. ASSUME NEW c \in Nodes, NEW a \in Nat, At(s, c, a)
        PROVE  At(t, c, a)'
    <2>1. ~ Popped
      BY <1>2 DEF Popped
    <2>2. PICK i \in 1 .. Len(s) : c = s[i] /\ a + Len(s) = Len(linked) + i
      BY <1>7, <2>1 DEF At
    <2>3. i \in 1 .. Len(t) /\ a + Len(t) = Len(linked') + i
      <3>1. PICK m \in Nat, n \in Nat : m = Len(s) /\ n = Len(linked)
        BY <1>5, <1>6
      <3>2. i \in 1 .. m /\ a + m = n + i
        BY <2>2, <3>1
      <3>3. i \in 1 .. m + 1 /\ a + (m + 1) = (n + 1) + i
        BY <3>2
      <3>4. QED BY <1>5, <1>6, <3>1, <3>3
    <2>4. QED BY <1>5, <2>2, <2>3 DEF At
  <1>8. WalkInv(t)'
    <2>1. Len(linked) <= Len(linked')
      BY <1>6
    <2>2. QED BY <1>2, <1>3, <1>6, <1>7, <2>1, WalkKept
  <1>9. PoppedInv(t)'
    BY DEF PoppedInv, Popped
  <1>10. QED BY <1>1, <1>8, <1>9

LEMMA WalkDrop ==
  ASSUME TypeOK, TypeOK', NEW s, ListInv(s), WalkInv(s), pop_cas, main' = "fetchSub"
  PROVE  \E t \in Seq(Nodes) : ListInv(t)' /\ WalkInv(t)' /\ PoppedInv(t)'
  <1>1. PICK t \in Seq(Nodes) : Rest(s, t) /\ ListInv(t)'
    BY DropHead
  <1>2. /\ main = "popCas" /\ ~ Closing /\ ~ Popped /\ Popped'
        /\ UNCHANGED <<linked, op, file, m_head>> /\ UNCHANGED tuiVars
    BY DEF pop_cas, Closing, Popped, Goto, heapVars
  <1>3. linked \in Seq(Nat) /\ linked' \in Seq(Nat) /\ Len(linked) \in Nat
    BY DEF TypeOK
  <1>4. m_head = s[1] /\ Holds(s)
    BY <1>2, OpenFacts DEF StepInv
  <1>5. /\ Len(t) \in Nat /\ Len(s) = Len(t) + 1
        /\ \A i \in 1 .. Len(t) : t[i] = s[i + 1]
    BY <1>1 DEF Rest
  <1>6. PICK m \in Nat, n \in Nat : m = Len(t) /\ n = Len(linked) /\ Len(s) = m + 1
    BY <1>3, <1>5
  <1>7. ASSUME NEW c \in Nodes, NEW a \in Nat, At(s, c, a)
        PROVE  At(t, c, a)'
    <2>1. PICK i \in 1 .. m + 1 : c = s[i] /\ a + (m + 1) = n + i
      BY <1>2, <1>6, <1>7 DEF At
    <2>2. CASE i = 1
      <3>1. a + m = n
        BY <2>1, <2>2
      <3>2. a + Len(t) = Len(linked') /\ c = m_head'
        BY <1>2, <1>4, <1>6, <2>1, <2>2, <3>1
      <3>3. QED BY <1>2, <3>2 DEF At
    <2>3. CASE i # 1
      <3>1. PICK j \in 1 .. m : i = j + 1
        <4>1. i - 1 \in 1 .. m /\ i = (i - 1) + 1
          BY <2>3
        <4>2. QED BY <4>1
      <3>2. a + m = n + j /\ c = t[j]
        <4>1. a + m = n + j
          BY <2>1, <3>1
        <4>2. t[j] = s[j + 1]
          BY <1>5, <1>6, <3>1
        <4>3. QED BY <2>1, <3>1, <4>1, <4>2
      <3>3. QED BY <1>2, <1>6, <3>2 DEF At
    <2>4. QED BY <2>2, <2>3
  <1>8. WalkInv(t)'
    <2>1. Len(linked) <= Len(linked') /\ \A b \in 1 .. Len(linked) : linked'[b] = linked[b]
      BY <1>2, <1>3
    <2>2. QED BY <1>2, <1>3, <1>7, <2>1, WalkKept
  <1>9. PoppedInv(t)'
    <2>1. ASSUME NEW a \in 1 .. Len(linked), a + Len(t) = Len(linked)
          PROVE  op[s[1]] = linked[a] /\ file[s[1]] = linked[a]
      <3>1. a \in 1 .. n /\ a + m = n
        BY <1>6, <2>1
      <3>2. 1 \in 1 .. m + 1 /\ a + (m + 1) = n + 1
        BY <3>1
      <3>3. QED BY <1>4, <1>6, <3>1, <3>2 DEF Holds
    <2>2. QED BY <1>2, <1>4, <2>1 DEF PoppedInv
  <1>10. QED BY <1>1, <1>8, <1>9

(* The other steps of the main thread leave the list what it was, or free  *)
(* a node.                                                                 *)
LEMMA WalkSame ==
  ASSUME TypeOK, TypeOK', NEW s, ListInv(s), WalkInv(s), PoppedInv(s), UNCHANGED tuiVars,
         linked' = linked, Popped' <=> Popped, Popped => m_head' = m_head,
         ~ Popped \/ (op' = op /\ file' = file)
  PROVE  WalkInv(s)' /\ PoppedInv(s)'
  <1>1. linked' \in Seq(Nat) /\ Len(linked) \in Nat
    BY DEF TypeOK
  <1>2. Len(linked) <= Len(linked') /\ \A b \in 1 .. Len(linked) : linked'[b] = linked[b]
    BY <1>1
  <1>3. WalkInv(s)'
    BY <1>1, <1>2, AtSame, WalkKept
  <1>4. PoppedInv(s)'
    BY DEF PoppedInv
  <1>5. QED BY <1>3, <1>4

LEMMA WalkEnded ==
  ASSUME NEW s, disturbed' = TRUE, ~ Popped'
  PROVE  WalkInv(s)' /\ PoppedInv(s)'
  BY DEF WalkInv, PoppedInv

LEMMA BeginWalk ==
  ASSUME TypeOK, PlaceInv, NEW s, ListInv(s), PoppedInv(s), load_head
  PROVE  WalkInv(s)' /\ PoppedInv(s)'
  <1>1. /\ UNCHANGED <<head, live, op, file, next, linked, m_head>>
        /\ current' = head /\ array' = <<>> /\ start' = Len(linked)
        /\ disturbed' = (head \notin live)
        /\ IF head = NULL THEN tui' = "crashed" /\ main' = "exited"
                          ELSE tui' = "loadFirst" /\ main' = main
    BY DEF load_head, dqVars, heapVars, Goto, TuiGoto
  <1>2. PoppedInv(s)'
    BY <1>1 DEF PoppedInv, Popped
  <1>3. ASSUME tui' = "loadFirst", head \in live
        PROVE  WalkInv(s)'
    <2>1. main' = main
      BY <1>1, <1>3
    <2>2. s # <<>> /\ head = s[1] /\ Holds(s) /\ s \in Seq(Nodes)
      <3>1. CASE ~ Closing
        BY <3>1 DEF ListInv, OpenInv, Chained
      <3>2. CASE Closing
        BY <1>3, <3>2 DEF ListInv, CloseInv, Closing, Chained
      <3>3. QED BY <3>1, <3>2
    <2>3. PICK m \in Nat, n \in Nat : m = Len(s) /\ n = Len(linked) /\ m > 0 /\ m <= n + 1
      <3>1. Len(linked) \in Nat
        BY DEF TypeOK
      <3>2. QED BY <2>2, <3>1, SeqFacts DEF Holds
    <2>4. PICK i \in 0 .. n : i + m = n + 1
      <3>1. n + 1 - m \in 0 .. n /\ (n + 1 - m) + m = n + 1
        BY <2>3
      <3>2. QED BY <3>1
    <2>5. At(s, s[1], i)'
      <3>1. 1 \in 1 .. m
        BY <2>3
      <3>2. QED BY <1>1, <2>3, <2>4, <3>1 DEF At
    <2>6. Consecutive(i)'
      <3>1. Len(<<>>) = 0
        OBVIOUS
      <3>2. QED BY <1>1, <3>1 DEF Consecutive
    <2>7. start' <= Len(linked') /\ i \in 0 .. Len(linked')
      BY <1>1, <2>3
    <2>8. At(s, current, i)'
      BY <1>1, <2>2, <2>5 DEF At
    <2>9. QED BY <1>3, <2>6, <2>7, <2>8 DEF WalkInv
  <1>4. CASE tui' = "loadFirst" /\ head \in live
    BY <1>2, <1>3, <1>4
  <1>5. CASE ~ (tui' = "loadFirst" /\ head \in live)
    BY <1>1, <1>2, <1>5 DEF WalkInv, Walking
  <1>6. QED BY <1>4, <1>5

LEMMA ReadWalk ==
  ASSUME TypeOK, PlaceInv, NEW s, ListInv(s), WalkInv(s), PoppedInv(s),
         load_first \/ test \/ read_file \/ advance
  PROVE  WalkInv(s)' /\ PoppedInv(s)'
  <1>1. UNCHANGED <<heapVars, mainVars, start, disturbed>> /\ Walking
    BY DEF load_first, test, read_file, advance, Walking
  <1>2. UNCHANGED <<op, file, next, linked, m_head, main>>
    BY <1>1 DEF heapVars, mainVars
  <1>3. PoppedInv(s)'
    BY <1>2 DEF PoppedInv, Popped
  <1>4. CASE disturbed
    BY <1>1, <1>3, <1>4 DEF WalkInv
  <1>5. CASE ~ disturbed
    <2>1. /\ linked \in Seq(Nat) /\ Len(linked) \in Nat /\ Len(array) \in Nat /\ start \in Nat
          /\ start <= Len(linked)
      BY <1>1, <1>5 DEF TypeOK, WalkInv
    <2>2. PICK i \in 0 .. Len(linked) :
           /\ Consecutive(i)
           /\ tui = "loadFirst" => At(s, current, i)
           /\ tui = "test" =>
                \/ current = NULL /\ i + Len(array) >= start
                \/ At(s, current, i + Len(array) + 1)
           /\ tui = "readFile" =>
                At(s, current, i + Len(array) + 1) /\ t_op = linked[i + Len(array) + 1]
           /\ tui = "advance" => At(s, current, i + Len(array))
      BY <1>1, <1>5 DEF WalkInv
    <2>3. PICK k \in Nat : k = i + Len(array)
      BY <2>1
    <2>4. \A c, a : At(s, c, a)' <=> At(s, c, a)
      BY <1>2 DEF At, Popped
    <2>5. \A c : \A a \in Nat : At(s, c, a) =>
            (next[c] = NULL /\ a = Len(linked)) \/ At(s, next[c], a + 1)
      BY <2>1, NextAt
    <2>6. start' <= Len(linked') /\ i \in 0 .. Len(linked')
      BY <1>1, <1>2, <2>1
    <2>7. UNCHANGED array => Consecutive(i)'
      BY <1>2, <2>2 DEF Consecutive
    <2>8. CASE load_first
      <3>1. /\ tui = "loadFirst" /\ current' = next[current] /\ array' = array /\ tui' = "test"
        BY <2>8 DEF load_first, TuiGoto
      <3>2. array = <<>>
        BY <3>1 DEF PlaceInv
      <3>3. k = i /\ Len(array) = 0
        <4>1. Len(<<>>) = 0
          OBVIOUS
        <4>2. QED BY <2>3, <3>2, <4>1
      <3>4. (next[current] = NULL /\ i = Len(linked)) \/ At(s, next[current], i + 1)
        BY <2>2, <2>5, <3>1
      <3>5. (current' = NULL /\ i + Len(array') >= start') \/ At(s, current, i + Len(array) + 1)'
        <4>1. i + Len(array') = i /\ start' = start
          BY <1>1, <3>1, <3>3
        <4>2. CASE next[current] = NULL /\ i = Len(linked)
          BY <2>1, <3>1, <4>1, <4>2
        <4>3. CASE At(s, next[current], i + 1)
          <5>1. PICK c : c = next[current]
            OBVIOUS
          <5>2. At(s, c, i + 1)'
            BY <2>4, <4>3, <5>1
          <5>3. QED BY <3>1, <4>1, <5>1, <5>2 DEF At
        <4>4. QED BY <3>4, <4>2, <4>3
      <3>6. WalkInv(s)'
        BY <2>6, <2>7, <3>1, <3>5 DEF WalkInv
      <3>7. QED BY <1>3, <3>6
    <2>9. CASE test
      <3>1. /\ tui = "test" /\ UNCHANGED <<current, array>>
            /\ \/ tui' = "idle"
               \/ tui' = "readFile" /\ current # NULL /\ t_op' = op[current]
        BY <2>9 DEF test, TuiGoto
      <3>2. CASE tui' = "idle"
        BY <1>3, <3>2 DEF WalkInv, Walking
      <3>3. CASE tui' = "readFile" /\ current # NULL /\ t_op' = op[current]
        <4>1. At(s, current, k + 1)
          BY <2>2, <2>3, <3>1, <3>3
        <4>2. op[current] = linked[k + 1]
          <5>1. k + 1 \in Nat \ {0}
            OBVIOUS
          <5>2. QED BY <2>1, <4>1, <5>1, DataAt
        <4>3. PICK c : c = current
          OBVIOUS
        <4>4. At(s, c, k + 1)'
          BY <2>4, <4>1, <4>3
        <4>5. At(s, current, k + 1)'
          BY <3>1, <4>3, <4>4 DEF At
        <4>6. k + 1 = i + Len(array') + 1 /\ t_op' = linked'[i + Len(array') + 1]
          BY <1>2, <2>3, <3>1, <3>3, <4>2
        <4>7. At(s, current, i + Len(array) + 1)'
          BY <4>5, <4>6 DEF At
        <4>8. WalkInv(s)'
          BY <2>6, <2>7, <3>1, <3>3, <4>6, <4>7 DEF WalkInv
        <4>9. QED BY <1>3, <4>8
      <3>4. QED BY <3>1, <3>2, <3>3
    <2>10. CASE read_file
      <3>1. /\ tui = "readFile" /\ current' = current /\ tui' = "advance"
            /\ array' = Append(array, <<t_op, file[current]>>)
        BY <2>10 DEF read_file, TuiGoto
      <3>2. At(s, current, k + 1) /\ t_op = linked[k + 1] /\ k + 1 \in Nat \ {0}
        BY <2>2, <2>3, <3>1
      <3>3. file[current] = linked[k + 1] /\ k + 1 <= Len(linked)
        BY <2>1, <3>2, DataAt, AtFacts
      <3>4. /\ Len(array') = Len(array) + 1
            /\ array'[Len(array) + 1] = <<linked[k + 1], linked[k + 1]>>
            /\ \A j \in 1 .. Len(array) : array'[j] = array[j]
        <4>1. <<t_op, file[current]>> \in Nat \X Nat /\ array \in Seq(Nat \X Nat)
          <5>1. current \in Nodes
            BY <3>1 DEF PlaceInv
          <5>2. QED BY <5>1 DEF TypeOK
        <4>2. PICK e \in Nat \X Nat, d \in Seq(Nat \X Nat) : e = <<t_op, file[current]>> /\ d = array
          BY <4>1
        <4>3. /\ Len(Append(d, e)) = Len(d) + 1 /\ Append(d, e)[Len(d) + 1] = e
              /\ \A j \in 1 .. Len(d) : Append(d, e)[j] = d[j]
          OBVIOUS
        <4>4. QED BY <3>1, <3>2, <3>3, <4>2, <4>3
      <3>5. Consecutive(i)'
        <4> SUFFICES ASSUME NEW j \in 1 .. Len(array')
                     PROVE  i + j <= Len(linked) /\ array'[j] = <<linked[i + j], linked[i + j]>>
          BY <1>2 DEF Consecutive
        <4>1. CASE j = Len(array) + 1
          <5>1. i + j = k + 1
            BY <2>1, <2>3, <4>1
          <5>2. QED BY <3>3, <3>4, <4>1, <5>1
        <4>2. CASE j # Len(array) + 1
          <5>1. j \in 1 .. Len(array)
            BY <2>1, <3>4, <4>2
          <5>2. QED BY <2>2, <3>4, <5>1 DEF Consecutive
        <4>3. QED BY <4>1, <4>2
      <3>6. At(s, current, i + Len(array))'
        <4>1. i + Len(array') = k + 1
          BY <2>1, <2>3, <3>4
        <4>2. PICK c : c = current
          OBVIOUS
        <4>3. At(s, c, k + 1)'
          BY <2>4, <3>2, <4>2
        <4>4. QED BY <3>1, <4>1, <4>2, <4>3 DEF At
      <3>7. WalkInv(s)'
        BY <2>6, <3>1, <3>5, <3>6 DEF WalkInv
      <3>8. QED BY <1>3, <3>7
    <2>11. CASE advance
      <3>1. /\ tui = "advance" /\ current' = next[current] /\ array' = array /\ tui' = "test"
        BY <2>11 DEF advance, TuiGoto
      <3>2. (next[current] = NULL /\ k = Len(linked)) \/ At(s, next[current], k + 1)
        BY <2>2, <2>3, <2>5, <3>1
      <3>3. (current' = NULL /\ i + Len(array') >= start') \/ At(s, current, i + Len(array) + 1)'
        <4>1. i + Len(array') = k /\ start' = start
          BY <1>1, <2>3, <3>1
        <4>2. CASE next[current] = NULL /\ k = Len(linked)
          BY <2>1, <3>1, <4>1, <4>2
        <4>3. CASE At(s, next[current], k + 1)
          <5>1. PICK c : c = next[current]
            OBVIOUS
          <5>2. At(s, c, k + 1)'
            BY <2>4, <4>3, <5>1
          <5>3. QED BY <3>1, <4>1, <5>1, <5>2 DEF At
        <4>4. QED BY <3>2, <4>2, <4>3
      <3>4. WalkInv(s)'
        BY <2>6, <2>7, <3>1, <3>3 DEF WalkInv
      <3>5. QED BY <1>3, <3>4
    <2>12. QED BY <2>8, <2>9, <2>10, <2>11
  <1>6. QED BY <1>4, <1>5

WInv == QInv /\ \E s \in Seq(Nodes) : ListInv(s) /\ WalkInv(s) /\ PoppedInv(s)

LEMMA WalkStep ==
  ASSUME QInv, QInv', [Next]_vars,
         NEW s \in Seq(Nodes), ListInv(s), WalkInv(s), PoppedInv(s)
  PROVE  \E t \in Seq(Nodes) : ListInv(t)' /\ WalkInv(t)' /\ PoppedInv(t)'
  <1>1. TypeOK /\ TypeOK' /\ PlaceInv
    BY DEF QInv
  <1> USE DEF Goto
  <1>2. CASE cas_next /\ main' = "casTail"
    BY <1>1, <1>2, WalkLink
  <1>3. CASE pop_cas /\ main' = "fetchSub"
    BY <1>1, <1>3, WalkDrop
  <1>4. ASSUME ListInv(s)', linked' = linked, UNCHANGED tuiVars, Popped' <=> Popped,
               Popped => m_head' = m_head, ~ Popped \/ (op' = op /\ file' = file)
        PROVE  ListInv(s)' /\ WalkInv(s)' /\ PoppedInv(s)'
    BY <1>1, <1>4, WalkSame
  <1>5. CASE malloc_fails \/ push_load \/ cas_tail \/ help_tail \/ fetch_add
    <2>1. ListInv(s)'
      BY <1>1, <1>5, PushLocal
    <2>2. linked' = linked /\ UNCHANGED tuiVars /\ ~ Popped /\ ~ Popped'
      BY <1>5 DEF malloc_fails, push_load, cas_tail, help_tail, fetch_add, SwingTail, Popped
    <2>3. QED BY <1>4, <2>1, <2>2
  <1>6. CASE malloc_new_node \/ store_op \/ store_file \/ store_next
    <2>1. ListInv(s)'
      BY <1>1, <1>6, FillNode
    <2>2. linked' = linked /\ UNCHANGED tuiVars /\ ~ Popped /\ ~ Popped'
      BY <1>6 DEF malloc_new_node, store_op, store_file, store_next, Popped
    <2>3. QED BY <1>4, <2>1, <2>2
  <1>7. CASE pop_load \/ fetch_sub \/ (pop_cas /\ main' = "popLoad")
             \/ (cas_next /\ main' = "load")
    <2>1. ListInv(s)'
      BY <1>1, <1>7, PopLocal
    <2>2. linked' = linked /\ UNCHANGED tuiVars /\ (Popped' <=> Popped) /\ op' = op /\ file' = file
      BY <1>7 DEF pop_load, fetch_sub, pop_cas, cas_next, Popped, heapVars
    <2>3. Popped => m_head' = m_head
      BY <1>7 DEF pop_load, fetch_sub, pop_cas, cas_next, Popped
    <2>4. QED BY <1>4, <2>1, <2>2, <2>3
  <1>8. CASE pop_free
    <2>1. ListInv(s)'
      BY <1>1, <1>8, FreePopped
    <2>2. disturbed' = TRUE /\ ~ Popped'
      BY <1>8 DEF pop_free, free, Popped
    <2>3. QED BY <2>1, <2>2, WalkEnded
  <1>9. CASE freeDequeue
    <2>1. PICK t \in Seq(Nodes) : ListInv(t)' /\ Closing' /\ (t = s \/ disturbed' = TRUE)
      BY <1>1, <1>9, FreeStep
    <2>2. ~ Popped /\ ~ Popped' /\ linked' = linked
      BY <1>9 DEF freeDequeue, free_load, free_next, clear, exit, Popped
    <2>3. CASE disturbed' = TRUE
      BY <2>1, <2>2, <2>3, WalkEnded
    <2>4. CASE t = s /\ disturbed' # TRUE
      <3>1. UNCHANGED tuiVars
        BY <1>9, <2>4 DEF freeDequeue, free_load, free_next, free, clear, exit
      <3>2. QED BY <1>4, <2>1, <2>2, <2>4, <3>1
    <2>5. QED BY <2>1, <2>3, <2>4
  <1>10. CASE displayEntries \/ UNCHANGED vars
    <2>1. ListInv(s)'
      BY <1>1, <1>10, ReadStep
    <2>2. CASE load_head
      BY <1>1, <2>1, <2>2, BeginWalk
    <2>3. CASE load_first \/ test \/ read_file \/ advance
      BY <1>1, <2>1, <2>3, ReadWalk
    <2>4. CASE UNCHANGED vars
      <3>1. UNCHANGED <<linked, tuiVars, op, file, m_head, main>>
        BY <2>4 DEF vars, mainVars, heapVars
      <3>2. Popped' <=> Popped
        BY <3>1 DEF Popped
      <3>3. QED BY <1>4, <2>1, <3>1, <3>2
    <2>5. QED BY <1>10, <2>2, <2>3, <2>4 DEF displayEntries
  <1>11. (cas_next => main' = "casTail" \/ main' = "load")
         /\ (pop_cas => main' = "fetchSub" \/ main' = "popLoad")
    BY DEF cas_next, pop_cas
  <1>12. QED
    BY <1>2, <1>3, <1>5, <1>6, <1>7, <1>8, <1>9, <1>10, <1>11
       DEF Next, pushRear, popFront

LEMMA WalkHolds == Spec => []WInv
  <1>1. QInv /\ Init => WInv
    <2> SUFFICES ASSUME QInv, Init PROVE WInv
      OBVIOUS
    <2>1. tui = "idle" /\ main = "idle"
      BY DEF Init
    <2>2. \A s : WalkInv(s) /\ PoppedInv(s)
      BY <2>1 DEF WalkInv, PoppedInv, Walking, Popped
    <2>3. QED BY <2>2 DEF WInv, QInv
  <1>2. WInv /\ QInv' /\ [Next]_vars => WInv'
    <2> SUFFICES ASSUME WInv, QInv', [Next]_vars PROVE WInv'
      OBVIOUS
    <2>1. PICK s \in Seq(Nodes) : ListInv(s) /\ WalkInv(s) /\ PoppedInv(s)
      BY DEF WInv
    <2>2. QInv
      BY DEF WInv
    <2>3. \E t \in Seq(Nodes) : ListInv(t)' /\ WalkInv(t)' /\ PoppedInv(t)'
      BY <2>1, <2>2, WalkStep
    <2>4. QED BY <2>3 DEF WInv
  <1>3. QED BY <1>1, <1>2, Invariant, PTL DEF Spec

LEMMA QuietWalk == WInv => QuietWalkIsExact
  <1> SUFFICES ASSUME WInv, tui = "test", ~ disturbed
               PROVE  \E i \in 0 .. Len(linked) :
                        /\ Consecutive(i)
                        /\ (current = NULL \/ index = MAX_ENTRIES)
                             => i + Len(array) >= start \/ index = MAX_ENTRIES
    BY DEF QuietWalkIsExact
  <1>1. PICK s \in Seq(Nodes) : ListInv(s) /\ WalkInv(s)
    BY DEF WInv
  <1>2. linked \in Seq(Nat) /\ Len(array) \in Nat
    BY DEF WInv, QInv, TypeOK
  <1>3. PICK i \in 0 .. Len(linked) :
         /\ Consecutive(i)
         /\ \/ current = NULL /\ i + Len(array) >= start
            \/ At(s, current, i + Len(array) + 1)
    BY <1>1 DEF WalkInv, Walking
  <1>4. current = NULL => i + Len(array) >= start
    <2>1. i + Len(array) + 1 \in Nat
      BY <1>2
    <2>2. At(s, current, i + Len(array) + 1) => current # NULL
      BY <1>1, <1>2, <2>1, AtFacts
    <2>3. QED BY <1>3, <2>2
  <1>5. QED BY <1>3, <1>4

(* displayEntries() holds no lock: if free() is not called while it walks  *)
(* the list, what it shows is a run of consecutive events, each whole,     *)
(* however many pushes and compare-exchanges the main thread makes         *)
(* meanwhile, and it leaves out none of the newest the queue held when the *)
(* walk began but for want of room.                                        *)
THEOREM WalkIsExact == Spec => []QuietWalkIsExact
  <1>1. QED BY QuietWalk, WalkHolds, PTL
=============================================================================
