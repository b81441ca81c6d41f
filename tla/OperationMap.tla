---------------------------- MODULE OperationMap ----------------------------
(***************************************************************************)
(* The hash map from operation names to codes, include/tui/hashmap.c: one  *)
(* slot per hash value, no chaining; a name whose slot another name holds  *)
(* is not inserted.  Names are sequences of character codes.               *)
(***************************************************************************)
EXTENDS Naturals, Sequences

CONSTANTS
  TABLE_SIZE,
  Operations,   (* init_operation_map's <<name, code>> pairs, in its order    *)
  OtherNames,   (* names the caller may insert or look up besides these      *)
  InsertedValues, (* bound: the values given to insert()                     *)
  MaxInserts    (* bound: calls of insert() after init_operation_map()       *)

Names  == {Operations[n][1] : n \in DOMAIN Operations} \union OtherNames
Values == 0 .. 255

ASSUME OperationMapAssumption ==
  /\ TABLE_SIZE \in Nat \ {0}
  /\ Operations \in Seq(Seq(0 .. 127) \X Values)
  /\ OtherNames \subseteq Seq(0 .. 127)
  /\ InsertedValues \subseteq Values
  /\ MaxInserts \in Nat

Slots == 0 .. TABLE_SIZE - 1
Empty == [key |-> <<>>, value |-> 0, is_valid |-> FALSE]

VARIABLES
  items,        (* per slot, its HashItem, or Empty for a NULL pointer       *)
  initialized,
  inserted      (* ghost: the <<name, value>> of every call of insert(), in  *)
                (* order, since init_operation_map() began                   *)

vars == <<items, initialized, inserted>>

(* Mutant of hash: the value so far is lost at every character.            *)
HashOfLast(key) == IF key = <<>> THEN 0 ELSE (37 + key[Len(key)]) % TABLE_SIZE

(* hash(): the 64-bit value does not wrap for names of up to eleven        *)
(* characters, so the remainder may be taken at every step.                *)
hash(key) ==
  LET value[n \in 0 .. Len(key)] ==
        IF n = 0 THEN 0 ELSE (value[n - 1] * 37 + key[n]) % TABLE_SIZE
  IN  value[Len(key)]

(* Mutant of Insert: a collision replaces the item.                        *)
InsertAnyway(table, key, value) ==
  [table EXCEPT ![hash(key)] = [key |-> key, value |-> value, is_valid |-> TRUE]]

(* The table after insert(); on a collision it is as before.               *)
Insert(table, key, value) ==
  LET item == table[hash(key)]
  IN  IF item = Empty \/ item.key = key
      THEN [table EXCEPT ![hash(key)] = [key |-> key, value |-> value, is_valid |-> TRUE]]
      ELSE table

(* Mutant of get: the key of the item is not compared.                     *)
GetUnchecked(key) ==
  LET item == items[hash(key)]
  IN  IF initialized /\ item # Empty /\ item.is_valid
      THEN [value |-> item.value, found |-> TRUE]
      ELSE [value |-> 0, found |-> FALSE]

get(key) ==
  LET item == items[hash(key)]
  IN  IF initialized /\ item # Empty /\ item.is_valid /\ item.key = key
      THEN [value |-> item.value, found |-> TRUE]
      ELSE [value |-> 0, found |-> FALSE]

(* The table after the first n inserts of init_operation_map().            *)
Loaded[n \in 0 .. Len(Operations)] ==
  IF n = 0 THEN [s \in Slots |-> Empty]
  ELSE Insert(Loaded[n - 1], Operations[n][1], Operations[n][2])

Init ==
  /\ items = [s \in Slots |-> Empty]
  /\ initialized = FALSE
  /\ inserted = <<>>

init_operation_map ==
  /\ ~ initialized
  /\ initialized' = TRUE
  /\ items' = Loaded[Len(Operations)]
  /\ inserted' = Operations

insert(key, value) ==
  /\ initialized
  /\ items' = Insert(items, key, value)
  /\ inserted' = Append(inserted, <<key, value>>)
  /\ UNCHANGED initialized

(* The items are freed but the pointers to them stay where they are.       *)
cleanup_operation_map ==
  /\ initialized
  /\ initialized' = FALSE
  /\ UNCHANGED <<items, inserted>>

Next ==
  \/ init_operation_map
  \/ /\ Len(inserted) < MaxInserts + Len(Operations)
     /\ \E key \in Names, value \in InsertedValues : insert(key, value)
  \/ cleanup_operation_map

Spec == Init /\ [][Next]_vars

-----------------------------------------------------------------------------
(* Properties.                                                             *)

Inserts(key) == {n \in DOMAIN inserted : inserted[n][1] = key}

(* What is found for a name is the value last inserted for it; a name      *)
(* never inserted, or an uninitialised map, gives nothing.                 *)
FoundIsLastInserted ==
  \A key \in Names : get(key).found =>
    /\ initialized
    /\ \E n \in Inserts(key) :
         /\ \A m \in Inserts(key) : m <= n
         /\ get(key).value = inserted[n][2]

(* A name is lost only to a name with the same hash that came before it.   *)
LostOnlyByCollision ==
  initialized =>
    \A key \in Names : (Inserts(key) # {} /\ ~ get(key).found) =>
      \E n \in DOMAIN inserted :
        /\ inserted[n][1] # key /\ hash(inserted[n][1]) = hash(key)
        /\ \A m \in Inserts(key) : n < m

(* The table is large enough: no two operations share a slot, so each has  *)
(* its own code from initialisation on until it is given another.          *)
OperationsKnown ==
  initialized =>
    \A n \in DOMAIN Operations :
      /\ get(Operations[n][1]).found
      /\ Inserts(Operations[n][1]) = {n}
           => get(Operations[n][1]).value = Operations[n][2]
=============================================================================
