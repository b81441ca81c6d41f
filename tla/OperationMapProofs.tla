------------------------- MODULE OperationMapProofs -------------------------
(***************************************************************************)
(* Proofs about the map of operations, for a table of any size and any     *)
(* names: what is found is what was last inserted, and a name is lost only *)
(* to an earlier one in its slot.  Nothing is assumed of hash() but that   *)
(* it is a slot, which is proved first.                                    *)
(***************************************************************************)
EXTENDS OperationMap, WellFoundedInduction, TLAPS

USE OperationMapAssumption

LEMMA Least ==
  ASSUME NEW T \in SUBSET Nat, T # {}
  PROVE  \E m \in T : \A n \in T : m <= n
  <1>1. \E m \in T : \A n \in T : ~ (<<n, m>> \in OpToRel(<, Nat))
    BY WFMin, NatLessThanWellFounded
  <1>2. \A m, n \in Nat : <<n, m>> \in OpToRel(<, Nat) <=> n < m
    BY DEF OpToRel
  <1>3. PICK m \in T : \A n \in T : ~ (<<n, m>> \in OpToRel(<, Nat))
    BY <1>1
  <1>4. \A n \in T : ~ (n < m) /\ n \in Nat /\ m \in Nat
    BY <1>2, <1>3
  <1>5. QED BY <1>4

(* f is base, then what each G[n] makes of the value before.               *)
Iterates(f, base, G, k) ==
  f[0] = base /\ \A n \in 1 .. k : f[n] = G[n][f[n - 1]]

LEMMA Iteration ==
  ASSUME NEW S, NEW base \in S, NEW k \in Nat, NEW G \in [1 .. k -> [S -> S]]
  PROVE  \E f \in [0 .. k -> S] : Iterates(f, base, G, k)
  <1> DEFINE Reaches(n) == \E f \in [0 .. n -> S] : Iterates(f, base, G, n)
             T == {n \in 0 .. k : ~ Reaches(n)}
  <1>1. T = {}
    <2> SUFFICES ASSUME T # {} PROVE FALSE
      OBVIOUS
    <2>1. PICK m \in T : \A n \in T : m <= n
      <3>1. T \in SUBSET Nat
        OBVIOUS
      <3> HIDE DEF T
      <3>2. QED BY <3>1, Least
    <2>2. m \in 0 .. k /\ ~ Reaches(m)
      BY <2>1
    <2>3. CASE m = 0
      <3>1. [n \in 0 .. 0 |-> base] \in [0 .. 0 -> S]
        OBVIOUS
      <3>2. Iterates([n \in 0 .. 0 |-> base], base, G, 0)
        BY DEF Iterates
      <3>3. QED BY <2>2, <2>3, <3>1, <3>2
    <2>4. CASE m # 0
      <3>1. m - 1 \in 0 .. k /\ ~ (m <= m - 1) /\ m \in 1 .. k
        BY <2>2, <2>4
      <3>2. Reaches(m - 1)
        BY <2>1, <3>1
      <3>3. PICK f \in [0 .. m - 1 -> S] : Iterates(f, base, G, m - 1)
        BY <3>2
      <3>4. PICK g : g = [n \in 0 .. m |-> IF n = m THEN G[m][f[m - 1]] ELSE f[n]]
        OBVIOUS
      <3>5. f[m - 1] \in S /\ G[m][f[m - 1]] \in S
        BY <3>1, <3>3
      <3>6. g \in [0 .. m -> S]
        <4>1. \A n \in 0 .. m : n # m => n \in 0 .. m - 1
          BY <3>1
        <4>2. QED BY <3>3, <3>4, <3>5, <4>1
      <3>7. Iterates(g, base, G, m)
        <4>1. g[0] = base
          BY <2>4, <3>1, <3>3, <3>4 DEF Iterates
        <4>2. ASSUME NEW n \in 1 .. m PROVE g[n] = G[n][g[n - 1]]
          <5>1. n \in 0 .. m /\ n - 1 \in 0 .. m /\ n - 1 # m
            BY <3>1
          <5>2. g[n - 1] = f[n - 1]
            BY <3>4, <5>1
          <5>3. CASE n = m
            BY <3>4, <5>1, <5>2, <5>3
          <5>4. CASE n # m
            <6>1. n \in 1 .. m - 1
              BY <3>1, <5>4
            <6>2. f[n] = G[n][f[n - 1]]
              BY <3>3, <6>1 DEF Iterates
            <6>3. QED BY <3>4, <5>1, <5>2, <5>4, <6>2
          <5>5. QED BY <5>3, <5>4
        <4>3. QED BY <4>1, <4>2 DEF Iterates
      <3>8. QED BY <2>2, <3>6, <3>7
    <2>5. QED BY <2>3, <2>4
  <1>2. k \in 0 .. k
    OBVIOUS
  <1>3. Reaches(k)
    BY <1>1, <1>2
  <1>4. QED BY <1>3

(* What holds of the base and is kept by every step holds to the end.      *)
LEMMA KeptToTheEnd ==
  ASSUME NEW k \in Nat, NEW P \in SUBSET (0 .. k), 0 \in P,
         \A n \in 1 .. k : n - 1 \in P => n \in P
  PROVE  k \in P
  <1> DEFINE T == (0 .. k) \ P
  <1>1. T = {}
    <2> SUFFICES ASSUME T # {} PROVE FALSE
      OBVIOUS
    <2>1. PICK m \in T : \A n \in T : m <= n
      <3>1. T \in SUBSET Nat
        OBVIOUS
      <3> HIDE DEF T
      <3>2. QED BY <3>1, Least
    <2>2. m \in 1 .. k /\ m - 1 \in 0 .. k /\ ~ (m <= m - 1) /\ m \notin P
      BY <2>1
    <2>3. QED BY <2>1, <2>2
  <1>2. k \in 0 .. k
    OBVIOUS
  <1>3. QED BY <1>1, <1>2

(* hash() is a slot of the table, whatever the name.                       *)
LEMMA HashIsSlot ==
  ASSUME NEW key \in Seq(0 .. 127)
  PROVE  hash(key) \in Slots
  <1>1. PICK k \in Nat : k = Len(key) /\ \A n \in 1 .. k : key[n] \in 0 .. 127
    <2>1. PICK C : C = 0 .. 127
      OBVIOUS
    <2>2. \A q \in Seq(C) : Len(q) \in Nat /\ \A n \in 1 .. Len(q) : q[n] \in C
      OBVIOUS
    <2>3. QED BY <2>1, <2>2
  <1> DEFINE G == [n \in 1 .. k |-> [v \in Slots |-> (v * 37 + key[n]) % TABLE_SIZE]]
             Step(f) == [n \in 0 .. Len(key) |->
                           IF n = 0 THEN 0 ELSE (f[n - 1] * 37 + key[n]) % TABLE_SIZE]
             value == CHOOSE f : f = Step(f)
  <1>2. \A n \in 1 .. k : \A v \in Slots : (v * 37 + key[n]) % TABLE_SIZE \in Slots
    <2>1. \A x \in Nat : x % TABLE_SIZE \in Slots
      BY DEF Slots
    <2>2. \A v \in Slots : \A c \in 0 .. 127 : v * 37 + c \in Nat
      BY DEF Slots
    <2>3. QED BY <1>1, <2>1, <2>2
  <1>3. 0 \in Slots /\ G \in [1 .. k -> [Slots -> Slots]]
    BY <1>2 DEF Slots
  <1>4. PICK f \in [0 .. k -> Slots] : Iterates(f, 0, G, k)
    <2> HIDE DEF G
    <2>1. QED BY <1>1, <1>3, Iteration
  <1>5. f = Step(f)
    <2>1. \A n \in 0 .. k : f[n] = Step(f)[n]
      <3> SUFFICES ASSUME NEW n \in 0 .. k PROVE f[n] = Step(f)[n]
        OBVIOUS
      <3>1. CASE n = 0
        BY <1>1, <1>4, <3>1 DEF Iterates
      <3>2. CASE n # 0
        <4>1. n \in 1 .. k /\ n - 1 \in 0 .. k
          BY <3>2
        <4>2. f[n] = G[n][f[n - 1]] /\ f[n - 1] \in Slots
          BY <1>4, <4>1 DEF Iterates
        <4>3. f[n] = (f[n - 1] * 37 + key[n]) % TABLE_SIZE
          BY <4>1, <4>2
        <4>4. QED BY <1>1, <3>2, <4>3
      <3>3. QED BY <3>1, <3>2
    <2>2. f = [n \in 0 .. k |-> f[n]] /\ Step(f) = [n \in 0 .. k |-> Step(f)[n]]
      BY <1>1
    <2> HIDE DEF Step
    <2>3. QED BY <2>1, <2>2
  <1>6. value = Step(value)
    <2> HIDE DEF Step
    <2>1. QED BY <1>5
  <1>7. /\ value[0] = 0
        /\ \A n \in 1 .. k : value[n] = (value[n - 1] * 37 + key[n]) % TABLE_SIZE
    <2>1. 0 \in 0 .. k /\ \A n \in 1 .. k : n \in 0 .. k /\ n # 0
      OBVIOUS
    <2> HIDE DEF value
    <2>2. QED BY <1>1, <1>6, <2>1
  <1>8. value[k] \in Slots
    <2> HIDE DEF value
    <2> DEFINE P == {n \in 0 .. k : value[n] \in Slots}
    <2>1. P \in SUBSET (0 .. k) /\ 0 \in P
      BY <1>3, <1>7
    <2>2. \A n \in 1 .. k : n - 1 \in P => n \in P
      BY <1>2, <1>7
    <2>3. k \in P
      <3> HIDE DEF P
      <3>1. QED BY <2>1, <2>2, KeptToTheEnd
    <2>4. QED BY <2>3
  <1>9. hash(key) = value[Len(key)]
    BY DEF hash
  <1>10. QED BY <1>1, <1>8, <1>9

-----------------------------------------------------------------------------
(* What the table holds after the first n inserts of q.                    *)

AnyName == Seq(0 .. 127)
Item    == {item \in [key : AnyName, value : Values, is_valid : BOOLEAN] :
              item.is_valid \/ item = Empty}
Tables  == [Slots -> Item]
Pairs   == AnyName \X Values

SameName(q, n, m) == {j \in 1 .. n : q[j][1] = q[m][1]}

(* A slot in use holds the last value inserted for its name,               *)
Latest(table, q, n) ==
  \A x \in Slots : table[x].is_valid =>
    \E m \in 1 .. n : /\ q[m][1] = table[x].key /\ q[m][2] = table[x].value
                      /\ hash(q[m][1]) = x
                      /\ \A j \in SameName(q, n, m) : j <= m

(* and the slot of a name inserted is in use, by it or by an earlier one.  *)
Taken(table, q, n) ==
  \A j \in 1 .. n :
    LET item == table[hash(q[j][1])]
    IN  /\ item.is_valid
        /\ item.key # q[j][1] =>
             \E m \in 1 .. n : q[m][1] = item.key /\ \A i \in SameName(q, n, j) : m < i

Reflects(table, q, n) == table \in Tables /\ Latest(table, q, n) /\ Taken(table, q, n)

LEMMA EmptyReflects ==
  ASSUME NEW q
  PROVE  Reflects([s \in Slots |-> Empty], q, 0)
  <1>1. Empty \in Item /\ ~ Empty.is_valid
    <2>1. <<>> \in AnyName /\ 0 \in Values
      BY DEF AnyName, Values
    <2>2. QED BY <2>1 DEF Empty, Item
  <1>2. [s \in Slots |-> Empty] \in Tables
    BY <1>1 DEF Tables
  <1>3. Latest([s \in Slots |-> Empty], q, 0)
    BY <1>1 DEF Latest
  <1>4. Taken([s \in Slots |-> Empty], q, 0)
    BY DEF Taken
  <1>5. QED BY <1>2, <1>3, <1>4 DEF Reflects

(* insert() either fills or overwrites the slot of the name, or leaves the *)
(* table as it is because another name is there.                           *)
LEMMA InsertIs ==
  ASSUME NEW table \in Tables, NEW k \in AnyName, NEW v \in Values
  PROVE  /\ hash(k) \in Slots /\ Insert(table, k, v) \in Tables
         /\ \/ /\ ~ table[hash(k)].is_valid \/ table[hash(k)].key = k
               /\ \A x \in Slots : Insert(table, k, v)[x] =
                    IF x = hash(k) THEN [key |-> k, value |-> v, is_valid |-> TRUE] ELSE table[x]
            \/ /\ table[hash(k)].is_valid /\ table[hash(k)].key # k
               /\ Insert(table, k, v) = table
  <1>1. PICK x \in Slots : x = hash(k)
    BY HashIsSlot DEF AnyName
  <1>2. PICK new \in Item : new = [key |-> k, value |-> v, is_valid |-> TRUE]
    BY DEF Item
  <1>3. CASE table[x] = Empty \/ table[x].key = k
    <2>1. Insert(table, k, v) = [table EXCEPT ![x] = new]
      BY <1>1, <1>2, <1>3 DEF Insert
    <2>2. table[x] = Empty => ~ table[x].is_valid
      BY DEF Empty
    <2>3. [table EXCEPT ![x] = new] \in Tables
      BY DEF Tables
    <2>4. \A y \in Slots : [table EXCEPT ![x] = new][y] = IF y = x THEN new ELSE table[y]
      BY DEF Tables
    <2>5. QED BY <1>1, <1>2, <1>3, <2>1, <2>2, <2>3, <2>4
  <1>4. CASE ~ (table[x] = Empty \/ table[x].key = k)
    <2>1. table[x].is_valid
      BY <1>4 DEF Tables, Item
    <2>2. QED BY <1>1, <1>4, <2>1 DEF Insert
  <1>5. QED BY <1>3, <1>4

LEMMA InsertReflects ==
  ASSUME NEW table, NEW q, NEW n \in Nat, Reflects(table, q, n),
         \A j \in 1 .. n + 1 : q[j][1] \in AnyName /\ q[j][2] \in Values
  PROVE  Reflects(Insert(table, q[n + 1][1], q[n + 1][2]), q, n + 1)
  <1>1. n + 1 \in 1 .. n + 1 /\ \A j \in 1 .. n : j \in 1 .. n + 1 /\ j # n + 1 /\ j < n + 1
    OBVIOUS
  <1>2. \A j \in 1 .. n + 1 : j \in 1 .. n \/ j = n + 1
    OBVIOUS
  <1>3. PICK k \in AnyName, v \in Values : k = q[n + 1][1] /\ v = q[n + 1][2]
    BY <1>1
  <1>4. table \in Tables /\ Latest(table, q, n) /\ Taken(table, q, n)
    BY DEF Reflects
  <1>5. PICK x \in Slots, T \in Tables :
          /\ x = hash(k) /\ T = Insert(table, k, v)
          /\ \/ /\ ~ table[x].is_valid \/ table[x].key = k
                /\ \A y \in Slots : T[y] =
                     IF y = x THEN [key |-> k, value |-> v, is_valid |-> TRUE] ELSE table[y]
             \/ /\ table[x].is_valid /\ table[x].key # k
                /\ T = table
    BY <1>4, InsertIs
  <1>6. \A j \in 1 .. n + 1 : hash(q[j][1]) \in Slots
    BY HashIsSlot DEF AnyName
  <1>7. ASSUME NEW m \in 1 .. n, q[m][1] # k
        PROVE  SameName(q, n + 1, m) = SameName(q, n, m)
    <2>1. \A j \in 1 .. n + 1 : q[j][1] = q[m][1] => j \in 1 .. n
      BY <1>2, <1>3, <1>7
    <2>2. SameName(q, n, m) \subseteq SameName(q, n + 1, m)
      BY <1>1 DEF SameName
    <2>3. SameName(q, n + 1, m) \subseteq SameName(q, n, m)
      BY <2>1 DEF SameName
    <2>4. QED BY <2>2, <2>3
  <1>8. Latest(T, q, n + 1)
    <2> SUFFICES ASSUME NEW y \in Slots, T[y].is_valid
                 PROVE  \E m \in 1 .. n + 1 :
                          /\ q[m][1] = T[y].key /\ q[m][2] = T[y].value
                          /\ hash(q[m][1]) = y
                          /\ \A j \in SameName(q, n + 1, m) : j <= m
      BY DEF Latest
    <2>1. CASE T[y] = table[y] /\ table[y].key # k
      <3>1. PICK m \in 1 .. n : /\ q[m][1] = table[y].key /\ q[m][2] = table[y].value
                                /\ hash(q[m][1]) = y
                                /\ \A j \in SameName(q, n, m) : j <= m
        BY <1>4, <2>1 DEF Latest
      <3>2. SameName(q, n + 1, m) = SameName(q, n, m)
        BY <1>7, <2>1, <3>1
      <3>3. QED BY <1>1, <2>1, <3>1, <3>2
    <2>2. CASE y = x /\ T[y] = [key |-> k, value |-> v, is_valid |-> TRUE]
      <3>1. T[y].key = k /\ T[y].value = v
        BY <2>2
      <3>2. \A j \in SameName(q, n + 1, n + 1) : j <= n + 1
        BY DEF SameName
      <3>3. QED BY <1>1, <1>3, <1>5, <2>2, <3>1, <3>2
    <2>3. CASE T[y] = table[y] /\ table[y].key = k
      <3>1. hash(k) = y
        BY <1>4, <2>3 DEF Latest
      <3>2. table[x].key = k /\ y = x
        BY <1>5, <2>3, <3>1
      <3>3. T[y] = [key |-> k, value |-> v, is_valid |-> TRUE]
        BY <1>5, <3>2
      <3>4. QED BY <2>2, <3>2, <3>3
    <2>4. QED BY <1>5, <2>1, <2>2, <2>3
  <1>9. Taken(T, q, n + 1)
    <2> SUFFICES ASSUME NEW j \in 1 .. n + 1
                 PROVE  /\ T[hash(q[j][1])].is_valid
                        /\ T[hash(q[j][1])].key # q[j][1] =>
                             \E m \in 1 .. n + 1 : /\ q[m][1] = T[hash(q[j][1])].key
                                                   /\ \A i \in SameName(q, n + 1, j) : m < i
      BY DEF Taken
    <2>1. PICK y \in Slots, name \in AnyName : name = q[j][1] /\ y = hash(name)
      BY <1>6
    <2>2. CASE y = x /\ T[y] = [key |-> k, value |-> v, is_valid |-> TRUE] /\ name = k
      BY <2>1, <2>2
    <2>3. ASSUME j \in 1 .. n, name # k
          PROVE  /\ table[y].is_valid
                 /\ table[y].key # name =>
                      \E m \in 1 .. n + 1 : /\ q[m][1] = table[y].key
                                            /\ \A i \in SameName(q, n + 1, j) : m < i
      <3>1. /\ table[y].is_valid
            /\ table[y].key # name =>
                 \E m \in 1 .. n : q[m][1] = table[y].key /\ \A i \in SameName(q, n, j) : m < i
        BY <1>4, <2>1, <2>3 DEF Taken
      <3>2. SameName(q, n + 1, j) = SameName(q, n, j)
        BY <1>7, <2>1, <2>3
      <3>3. QED BY <1>1, <3>1, <3>2
    <2>4. CASE name # k
      <3>1. j \in 1 .. n
        BY <1>2, <1>3, <2>1, <2>4
      <3>2. CASE T[y] = table[y]
        BY <2>1, <2>3, <2>4, <3>1, <3>2
      <3>3. CASE y = x /\ T[y] = [key |-> k, value |-> v, is_valid |-> TRUE]
                 /\ (~ table[x].is_valid \/ table[x].key = k)
        <4>1. table[x].key = k /\ T[y].is_valid /\ T[y].key = k
          BY <2>3, <2>4, <3>1, <3>3
        <4>2. QED BY <2>1, <2>3, <2>4, <3>1, <3>3, <4>1
      <3>4. QED BY <1>5, <3>2, <3>3
    <2>5. CASE name = k /\ T = table /\ table[x].is_valid /\ table[x].key # k
      <3>1. y = x
        BY <1>5, <2>1, <2>5
      <3>2. CASE \E i \in 1 .. n : q[i][1] = k
        <4>1. PICK i \in 1 .. n : q[i][1] = k
          BY <3>2
        <4>2. PICK m \in 1 .. n : q[m][1] = table[x].key /\ \A l \in SameName(q, n, i) : m < l
          BY <1>4, <1>5, <2>5, <4>1 DEF Taken
        <4>3. table[x].is_valid
          BY <2>5
        <4>4. \A l \in SameName(q, n + 1, j) : m < l
          <5>1. \A l \in SameName(q, n + 1, j) : l \in SameName(q, n, i) \/ l = n + 1
            BY <1>2, <2>1, <2>5, <4>1 DEF SameName
          <5>2. QED BY <1>1, <4>2, <5>1
        <4>5. QED BY <1>1, <2>1, <2>5, <3>1, <4>2, <4>3, <4>4
      <3>3. CASE ~ \E i \in 1 .. n : q[i][1] = k
        <4>1. table[x].is_valid
          BY <2>5
        <4>2. PICK m \in 1 .. n : q[m][1] = table[x].key
          BY <1>4, <4>1 DEF Latest
        <4>3. \A l \in SameName(q, n + 1, j) : l = n + 1
          BY <1>2, <2>1, <2>5, <3>3 DEF SameName
        <4>4. QED BY <1>1, <2>1, <2>5, <3>1, <4>1, <4>2, <4>3
      <3>4. QED BY <3>2, <3>3
    <2>6. QED BY <1>5, <2>1, <2>2, <2>4, <2>5
  <1>10. QED BY <1>3, <1>5, <1>8, <1>9 DEF Reflects

(* What init_operation_map() leaves reflects its inserts.                  *)
LEMMA OperationsAre ==
  /\ Len(Operations) \in Nat /\ Operations \in Seq(Pairs)
  /\ \A n \in 1 .. Len(Operations) : Operations[n][1] \in AnyName /\ Operations[n][2] \in Values
  <1>1. Operations \in Seq(Pairs)
    BY DEF Pairs, AnyName
  <1>2. Len(Operations) \in Nat /\ \A n \in 1 .. Len(Operations) : Operations[n] \in Pairs
    BY <1>1
  <1>3. QED BY <1>1, <1>2 DEF Pairs

LEMMA LoadedReflects ==
  Reflects(Loaded[Len(Operations)], Operations, Len(Operations))
  <1>1. PICK k \in Nat, q \in Seq(Pairs) : k = Len(Operations) /\ q = Operations
    BY OperationsAre
  <1>2. \A n \in 1 .. k : q[n][1] \in AnyName /\ q[n][2] \in Values
    BY <1>1, OperationsAre
  <1> DEFINE base == [s \in Slots |-> Empty]
             G == [n \in 1 .. k |-> [t \in Tables |-> Insert(t, q[n][1], q[n][2])]]
             Step(f) == [n \in 0 .. k |->
                           IF n = 0 THEN base ELSE Insert(f[n - 1], q[n][1], q[n][2])]
  <1>3. base \in Tables /\ Reflects(base, q, 0)
    BY EmptyReflects DEF Reflects
  <1>4. G \in [1 .. k -> [Tables -> Tables]]
    <2>1. \A n \in 1 .. k : \A t \in Tables : Insert(t, q[n][1], q[n][2]) \in Tables
      BY <1>2, InsertIs
    <2>2. QED BY <2>1
  <1> HIDE DEF base
  <1>5. PICK f \in [0 .. k -> Tables] : Iterates(f, base, G, k)
    <2> HIDE DEF G
    <2>1. QED BY <1>3, <1>4, Iteration
  <1>6. f = Step(f)
    <2>1. \A n \in 0 .. k : f[n] = Step(f)[n]
      <3> SUFFICES ASSUME NEW n \in 0 .. k PROVE f[n] = Step(f)[n]
        OBVIOUS
      <3>1. CASE n = 0
        BY <1>5, <3>1 DEF Iterates
      <3>2. CASE n # 0
        <4>1. n \in 1 .. k /\ n - 1 \in 0 .. k
          BY <3>2
        <4>2. f[n] = G[n][f[n - 1]] /\ f[n - 1] \in Tables
          BY <1>5, <4>1 DEF Iterates
        <4>3. f[n] = Insert(f[n - 1], q[n][1], q[n][2])
          BY <4>1, <4>2
        <4>4. QED BY <3>2, <4>3
      <3>3. QED BY <3>1, <3>2
    <2>2. f = [n \in 0 .. k |-> f[n]] /\ Step(f) = [n \in 0 .. k |-> Step(f)[n]]
      OBVIOUS
    <2> HIDE DEF Step
    <2>3. QED BY <2>1, <2>2
  <1>7. Loaded = Step(Loaded)
    <2>1. Loaded = CHOOSE g : g = Step(g)
      BY <1>1 DEF Loaded, base
    <2> HIDE DEF Step
    <2>2. QED BY <1>6, <2>1
  <1> DEFINE P == {n \in 0 .. k : Reflects(Loaded[n], q, n)}
  <1>8. 0 \in P
    <2>1. Loaded[0] = base
      <3>1. 0 \in 0 .. k
        OBVIOUS
      <3>2. QED BY <1>7, <3>1
    <2>2. QED BY <1>3, <2>1
  <1>9. ASSUME NEW n \in 1 .. k, n - 1 \in P PROVE n \in P
    <2>1. PICK m \in Nat : m = n - 1 /\ n = m + 1 /\ n \in 0 .. k
      <3>1. n - 1 \in Nat /\ n = (n - 1) + 1 /\ n \in 0 .. k
        OBVIOUS
      <3>2. QED BY <3>1
    <2>2. Loaded[n] = Insert(Loaded[m], q[n][1], q[n][2])
      <3>1. n \in 0 .. k /\ n # 0
        OBVIOUS
      <3>2. QED BY <1>7, <2>1, <3>1
    <2>3. \A j \in 1 .. m + 1 : q[j][1] \in AnyName /\ q[j][2] \in Values
      BY <1>2, <2>1
    <2>4. Reflects(Loaded[m], q, m)
      BY <1>9, <2>1
    <2>5. Reflects(Loaded[n], q, n)
      BY <2>1, <2>2, <2>3, <2>4, InsertReflects
    <2>6. QED BY <2>1, <2>5
  <1>10. k \in P
    <2>1. P \in SUBSET (0 .. k)
      OBVIOUS
    <2> HIDE DEF P
    <2>2. QED BY <1>8, <1>9, <2>1, KeptToTheEnd
  <1>11. QED BY <1>1, <1>10

-----------------------------------------------------------------------------
(* The invariant.                                                          *)

MapInv ==
  initialized =>
    /\ inserted \in Seq(Pairs)
    /\ Len(Operations) <= Len(inserted)
    /\ \A n \in 1 .. Len(Operations) : inserted[n] = Operations[n]
    /\ Reflects(items, inserted, Len(inserted))

LEMMA NamesTyped ==
  /\ Names \subseteq AnyName /\ InsertedValues \subseteq Values
  /\ \A n \in 1 .. Len(Operations) : Operations[n][1] \in Names
  <1>1. \A n \in DOMAIN Operations : n \in 1 .. Len(Operations)
    BY OperationsAre
  <1>2. \A n \in 1 .. Len(Operations) : n \in DOMAIN Operations
    BY OperationsAre
  <1>3. QED BY <1>1, <1>2, OperationsAre DEF Names, AnyName

LEMMA InsertStep ==
  ASSUME MapInv, NEW key \in Names, NEW value \in InsertedValues, insert(key, value)
  PROVE  MapInv'
  <1>1. initialized /\ initialized' /\ items' = Insert(items, key, value)
        /\ inserted' = Append(inserted, <<key, value>>)
    BY DEF insert
  <1>2. /\ inserted \in Seq(Pairs) /\ Len(Operations) <= Len(inserted)
        /\ \A n \in 1 .. Len(Operations) : inserted[n] = Operations[n]
        /\ Reflects(items, inserted, Len(inserted))
    BY <1>1 DEF MapInv
  <1>3. PICK e \in Pairs : e = <<key, value>> /\ e[1] = key /\ e[2] = value
    <2>1. key \in AnyName /\ value \in Values
      BY NamesTyped
    <2>2. <<key, value>> \in AnyName \X Values
      BY <2>1
    <2>3. QED BY <2>2 DEF Pairs
  <1>4. PICK q \in Seq(Pairs), n \in Nat :
          /\ q = inserted' /\ n = Len(inserted) /\ Len(q) = n + 1 /\ q[n + 1] = e
          /\ \A j \in 1 .. n : q[j] = inserted[j]
    <2>1. /\ Append(inserted, e) \in Seq(Pairs) /\ Len(inserted) \in Nat
          /\ Len(Append(inserted, e)) = Len(inserted) + 1
          /\ Append(inserted, e)[Len(inserted) + 1] = e
          /\ \A j \in 1 .. Len(inserted) : Append(inserted, e)[j] = inserted[j]
      BY <1>2
    <2>2. QED BY <1>1, <1>3, <2>1
  <1>5. Reflects(items, q, n)
    <2>1. \A m \in 1 .. n : SameName(q, n, m) = SameName(inserted, n, m)
      BY <1>4 DEF SameName
    <2>2. Latest(items, q, n)
      BY <1>2, <1>4, <2>1 DEF Reflects, Latest
    <2>3. Taken(items, q, n)
      BY <1>2, <1>4, <2>1, ZenonT(30) DEF Reflects, Taken
    <2>4. QED BY <1>2, <2>2, <2>3 DEF Reflects
  <1>6. \A j \in 1 .. n + 1 : q[j][1] \in AnyName /\ q[j][2] \in Values
    <2>1. \A j \in 1 .. Len(q) : q[j] \in Pairs
      OBVIOUS
    <2>2. QED BY <1>4, <2>1 DEF Pairs
  <1>7. Reflects(items', q, n + 1)
    BY <1>1, <1>3, <1>4, <1>5, <1>6, InsertReflects
  <1>8. /\ Len(Operations) <= n + 1
        /\ \A j \in 1 .. Len(Operations) : q[j] = Operations[j]
    <2>1. PICK l \in Nat : l = Len(Operations)
      BY OperationsAre
    <2>2. l <= n /\ l <= n + 1 /\ \A j \in 1 .. l : j \in 1 .. n
      BY <1>2, <1>4, <2>1
    <2>3. QED BY <1>2, <1>4, <2>1, <2>2
  <1>9. QED BY <1>4, <1>7, <1>8 DEF MapInv

LEMMA Invariant == Spec => []MapInv
  <1>1. Init => MapInv
    BY DEF Init, MapInv
  <1>2. MapInv /\ [Next]_vars => MapInv'
    <2> SUFFICES ASSUME MapInv, [Next]_vars PROVE MapInv'
      OBVIOUS
    <2>1. CASE init_operation_map
      BY <2>1, LoadedReflects, OperationsAre DEF init_operation_map, MapInv
    <2>2. CASE \E key \in Names, value \in InsertedValues : insert(key, value)
      BY <2>2, InsertStep
    <2>3. CASE cleanup_operation_map
      BY <2>3 DEF cleanup_operation_map, MapInv
    <2>4. CASE UNCHANGED vars
      BY <2>4 DEF vars, MapInv
    <2>5. QED BY <2>1, <2>2, <2>3, <2>4 DEF Next
  <1>3. QED BY <1>1, <1>2, PTL DEF Spec

-----------------------------------------------------------------------------
(* The properties.                                                         *)

LEMMA InsertsAre ==
  ASSUME inserted \in Seq(Pairs), NEW key
  PROVE  Inserts(key) = {j \in 1 .. Len(inserted) : inserted[j][1] = key}
         /\ DOMAIN inserted = 1 .. Len(inserted)
  <1>1. DOMAIN inserted = 1 .. Len(inserted)
    OBVIOUS
  <1>2. QED BY <1>1 DEF Inserts

(* get() finds a name only in an initialised map, and then the value       *)
(* insert() was last given for it, whatever collided meanwhile.            *)
THEOREM FoundIsLast == Spec => []FoundIsLastInserted
  <1>1. MapInv => FoundIsLastInserted
    <2> SUFFICES ASSUME MapInv, NEW key \in Names, get(key).found
                 PROVE  /\ initialized
                        /\ \E n \in Inserts(key) :
                             /\ \A m \in Inserts(key) : m <= n
                             /\ get(key).value = inserted[n][2]
      BY DEF FoundIsLastInserted
    <2>1. PICK x \in Slots : x = hash(key)
      BY NamesTyped, HashIsSlot DEF AnyName
    <2>2. /\ initialized /\ items[x].is_valid /\ items[x].key = key
          /\ get(key).value = items[x].value
      BY <2>1 DEF get
    <2>3. inserted \in Seq(Pairs) /\ Latest(items, inserted, Len(inserted))
      BY <2>2 DEF MapInv, Reflects
    <2>4. PICK m \in 1 .. Len(inserted) :
            /\ inserted[m][1] = key /\ inserted[m][2] = items[x].value
            /\ \A j \in SameName(inserted, Len(inserted), m) : j <= m
      BY <2>2, <2>3 DEF Latest
    <2>5. Inserts(key) = SameName(inserted, Len(inserted), m)
      BY <2>3, <2>4, InsertsAre DEF SameName
    <2>6. m \in Inserts(key)
      BY <2>3, <2>4, InsertsAre
    <2>7. QED BY <2>2, <2>4, <2>5, <2>6
  <1>2. QED BY <1>1, Invariant, PTL

(* insert() drops a name only because its slot holds another one, that     *)
(* hashes alike and was inserted before it was ever tried.                 *)
THEOREM LostToEarlier == Spec => []LostOnlyByCollision
  <1>1. MapInv => LostOnlyByCollision
    <2> SUFFICES ASSUME MapInv, initialized, NEW key \in Names, Inserts(key) # {},
                        ~ get(key).found
                 PROVE  \E n \in DOMAIN inserted :
                          /\ inserted[n][1] # key /\ hash(inserted[n][1]) = hash(key)
                          /\ \A m \in Inserts(key) : n < m
      BY DEF LostOnlyByCollision
    <2>1. PICK x \in Slots : x = hash(key)
      BY NamesTyped, HashIsSlot DEF AnyName
    <2>2. inserted \in Seq(Pairs) /\ items \in Tables
          /\ Latest(items, inserted, Len(inserted)) /\ Taken(items, inserted, Len(inserted))
      BY DEF MapInv, Reflects
    <2>3. PICK j \in 1 .. Len(inserted) : inserted[j][1] = key
      BY <2>2, InsertsAre
    <2>4. items[x].is_valid
      BY <2>1, <2>2, <2>3 DEF Taken
    <2>5. items[x].key # key
      <3>1. items[x] # Empty
        BY <2>4 DEF Empty
      <3>2. QED BY <2>1, <2>4, <3>1 DEF get
    <2>6. PICK m \in 1 .. Len(inserted) :
            /\ inserted[m][1] = items[x].key
            /\ \A i \in SameName(inserted, Len(inserted), j) : m < i
      BY <2>1, <2>2, <2>3, <2>5 DEF Taken
    <2>7. Inserts(key) = SameName(inserted, Len(inserted), j)
      BY <2>2, <2>3, InsertsAre DEF SameName
    <2>8. hash(items[x].key) = x
      BY <2>2, <2>4 DEF Latest
    <2>9. m \in DOMAIN inserted
      BY <2>2, InsertsAre
    <2>10. QED BY <2>1, <2>5, <2>6, <2>7, <2>8, <2>9
  <1>2. QED BY <1>1, Invariant, PTL

(* If no two operations hash alike, as the program's do not, each is found *)
(* from init_operation_map() on, with its own code until another is        *)
(* inserted for it, whatever is inserted besides.                          *)
THEOREM DistinctAreKnown ==
  ASSUME \A m, n \in 1 .. Len(Operations) :
           hash(Operations[m][1]) = hash(Operations[n][1]) => m = n
  PROVE  Spec => []OperationsKnown
  <1>1. MapInv => OperationsKnown
    <2> SUFFICES ASSUME MapInv, initialized, NEW n \in DOMAIN Operations
                 PROVE  /\ get(Operations[n][1]).found
                        /\ Inserts(Operations[n][1]) = {n}
                             => get(Operations[n][1]).value = Operations[n][2]
      BY DEF OperationsKnown
    <2>1. PICK l \in Nat : l = Len(Operations) /\ n \in 1 .. l
      <3>1. Len(Operations) \in Nat /\ n \in 1 .. Len(Operations)
        BY OperationsAre
      <3>2. QED BY <3>1
    <2>2. PICK key \in AnyName, x \in Slots : key = Operations[n][1] /\ x = hash(key)
      BY <2>1, OperationsAre, HashIsSlot DEF AnyName
    <2>3. inserted \in Seq(Pairs) /\ l <= Len(inserted) /\ Len(inserted) \in Nat
          /\ (\A j \in 1 .. l : inserted[j] = Operations[j])
          /\ Latest(items, inserted, Len(inserted)) /\ Taken(items, inserted, Len(inserted))
      BY <2>1 DEF MapInv, Reflects
    <2>4. n \in 1 .. Len(inserted) /\ inserted[n][1] = key
      BY <2>1, <2>2, <2>3
    <2>5. items[x].is_valid /\ items[x] # Empty
      <3>1. items[x].is_valid
        BY <2>2, <2>3, <2>4 DEF Taken
      <3>2. QED BY <3>1 DEF Empty
    <2>6. items[x].key = key
      <3> SUFFICES ASSUME items[x].key # key PROVE FALSE
        OBVIOUS
      <3>1. PICK m \in 1 .. Len(inserted) :
              /\ inserted[m][1] = items[x].key
              /\ \A i \in SameName(inserted, Len(inserted), n) : m < i
        BY <2>2, <2>3, <2>4 DEF Taken
      <3>2. m < n
        BY <2>4, <3>1 DEF SameName
      <3>3. m \in 1 .. l
        BY <2>1, <3>2
      <3>4. hash(items[x].key) = x
        BY <2>3, <2>5 DEF Latest
      <3>5. hash(Operations[m][1]) = hash(Operations[n][1])
        BY <2>2, <2>3, <3>1, <3>3, <3>4
      <3>6. m = n
        BY <2>1, <3>3, <3>5
      <3>7. QED BY <2>1, <3>2, <3>6
    <2>7. get(key).found /\ get(key).value = items[x].value
      BY <2>2, <2>5, <2>6 DEF get
    <2>8. ASSUME Inserts(key) = {n} PROVE items[x].value = Operations[n][2]
      <3>1. PICK m \in 1 .. Len(inserted) :
              inserted[m][1] = items[x].key /\ inserted[m][2] = items[x].value
        BY <2>3, <2>5 DEF Latest
      <3>2. m = n
        BY <2>3, <2>6, <2>8, <3>1, InsertsAre
      <3>3. QED BY <2>1, <2>3, <3>1, <3>2
    <2>9. QED BY <2>2, <2>7, <2>8
  <1>2. QED BY <1>1, Invariant, PTL
=============================================================================
