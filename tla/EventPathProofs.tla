--------------------------- MODULE EventPathProofs ---------------------------
(***************************************************************************)
(* Proofs about the hooks and the way of an event from the kernel to the   *)
(* main process, for any number of CPUs, tasks, inode numbers and elements *)
(* of the cache, any number of preemptions, and any sizes of the rings and *)
(* of the message queue.                                                   *)
(***************************************************************************)
EXTENDS EventPath, FiniteSetTheorems, TLAPS

USE HooksAssumption, EventPathAssumption

-----------------------------------------------------------------------------
(* The types of the hooks.                                                 *)

(* How far a hook call has come tells what it is: a path is to be cached   *)
(* by file_open, an element is held by file_permission, and the hooks      *)
(* given a dentry know of no inode.                                        *)
HookShape ==
  \A t \in Tasks : hook[t] # Idle =>
    LET h == hook[t]
    IN  /\ h.inode = NULL <=> h.operation \in DentryOperations
        /\ h.pc = "path" => h.operation = "open"
        /\ h.pc = "found" => UsesCache(h.operation) /\ h.element # NULL

HooksInv == HooksTypeOK /\ HookShape

(* The same hook call, but for whether it is still quiet.                  *)
SameCall(g, h) ==
  /\ g # Idle /\ h # Idle
  /\ g.pc = h.pc /\ g.cpu = h.cpu /\ g.operation = h.operation
  /\ g.inode = h.inode /\ g.call = h.call /\ g.element = h.element

LEMMA HookTyped ==
  ASSUME HooksInv, NEW t \in Tasks, hook[t] # Idle
  PROVE  /\ hook[t] \in HookCall /\ hook[t].cpu \in CPUs
         /\ hook[t].operation \in AllOperations /\ hook[t].call \in Calls
         /\ hook[t].inode \in Inodes \union {NULL} /\ hook[t].quiet \in BOOLEAN
         /\ hook[t].element \in Elements \union {NULL}
         /\ hook[t].operation \notin DentryOperations => hook[t].inode \in Inodes
  <1>1. hook[t] \in HookCall
    BY DEF HooksInv, HooksTypeOK
  <1>2. hook[t].inode = NULL <=> hook[t].operation \in DentryOperations
    BY DEF HooksInv, HookShape
  <1>3. QED BY <1>1, <1>2 DEF HookCall

LEMMA IdleIsNoCall == Idle \notin HookCall /\ \A h \in HookCall : h # Idle
  <1>1. ASSUME NEW h \in HookCall
        PROVE  h.pc # Idle.pc
    <2>1. h.pc # "idle"
      BY DEF HookCall
    <2>2. Idle.pc = "idle"
      BY DEF Idle
    <2>3. QED BY <2>1, <2>2
  <1>2. QED BY <1>1

(* When a hook goes on the others are the same calls, and a disturbed one  *)
(* is not quiet any more.                                                  *)
LEMMA OthersGoOn ==
  ASSUME HooksInv, NEW t \in Tasks, NEW h \in HookCall \union {Idle}, NEW D,
         \A u \in D : hook[u] # Idle, GoesOn(t, h, D)
  PROVE  /\ hook' \in [Tasks -> HookCall \union {Idle}] /\ hook'[t] = h
         /\ \A u \in Tasks : u # t /\ hook'[u] # Idle =>
              /\ hook'[u] \in HookCall /\ SameCall(hook[u], hook'[u])
              /\ hook'[u].quiet => hook[u].quiet /\ u \notin D
  <1>1. hook \in [Tasks -> HookCall \union {Idle}]
    BY DEF HooksInv, HooksTypeOK
  <1>2. hook'[t] = h
    BY DEF GoesOn
  <1>3. ASSUME NEW u \in Tasks, u # t
        PROVE  /\ hook'[u] \in HookCall \union {Idle}
               /\ hook'[u] # Idle =>
                    /\ SameCall(hook[u], hook'[u])
                    /\ hook'[u].quiet => hook[u].quiet /\ u \notin D
    <2>1. CASE u \in D
      <3>1. hook[u] \in HookCall
        BY <1>1, <2>1
      <3>2. hook'[u] = [hook[u] EXCEPT !.quiet = FALSE]
        BY <1>3, <2>1 DEF GoesOn
      <3>3. /\ hook'[u] \in HookCall /\ hook'[u].quiet = FALSE
            /\ hook'[u].pc = hook[u].pc /\ hook'[u].cpu = hook[u].cpu
            /\ hook'[u].operation = hook[u].operation /\ hook'[u].inode = hook[u].inode
            /\ hook'[u].call = hook[u].call /\ hook'[u].element = hook[u].element
        BY <3>1, <3>2 DEF HookCall
      <3>4. QED BY <3>1, <3>3, IdleIsNoCall DEF SameCall
    <2>2. CASE u \notin D
      BY <1>1, <1>3, <2>2 DEF GoesOn, SameCall
    <2>3. QED BY <2>1, <2>2
  <1>4. hook' \in [Tasks -> HookCall \union {Idle}]
    <2>1. \A u \in Tasks : hook'[u] \in HookCall \union {Idle}
      BY <1>2, <1>3
    <2>2. QED BY <2>1 DEF GoesOn
  <1>5. ASSUME NEW u \in Tasks, u # t, hook'[u] # Idle
        PROVE  /\ hook'[u] \in HookCall /\ SameCall(hook[u], hook'[u])
               /\ hook'[u].quiet => hook[u].quiet /\ u \notin D
    BY <1>3, <1>5
  <1>6. QED BY <1>2, <1>4, <1>5

(* The hook that goes on, when it is still under way.                      *)
Shaped(h) ==
  /\ h.inode = NULL <=> h.operation \in DentryOperations
  /\ h.pc = "path" => h.operation = "open"
  /\ h.pc = "found" => UsesCache(h.operation) /\ h.element # NULL

LEMMA ShapeKept ==
  ASSUME HooksInv, NEW t \in Tasks, NEW h \in HookCall \union {Idle}, NEW D,
         \A u \in D : hook[u] # Idle, GoesOn(t, h, D), h # Idle => Shaped(h)
  PROVE  hook' \in [Tasks -> HookCall \union {Idle}] /\ HookShape'
  <1>1. /\ hook' \in [Tasks -> HookCall \union {Idle}] /\ hook'[t] = h
        /\ \A u \in Tasks : u # t /\ hook'[u] # Idle => SameCall(hook[u], hook'[u])
    BY OthersGoOn
  <1>2. QED BY <1>1 DEF HookShape, HooksInv, Shaped, SameCall


LEMMA ApartKept ==
  ASSUME ElementsApart, inode_cache' = inode_cache, spare' = spare
  PROVE  ElementsApart'
  <1>1. InCache' = InCache /\ Spares' = Spares
    BY DEF InCache, Spares
  <1>2. QED BY <1>1 DEF ElementsApart

LEMMA BeginTyped ==
  ASSUME HooksInv, NEW t \in Tasks, NEW c \in CPUs, NEW o \in Operations,
         NEW i \in Inodes \union {NULL}, BeginHook(t, c, o, i)
  PROVE  HooksInv'
  <1> DEFINE h == [pc |-> "begun", cpu |-> c, operation |-> o, inode |-> i,
                   call |-> calls + 1, element |-> NULL, quiet |-> TRUE]
  <1>1. /\ GoesOn(t, h, Busy(c)) /\ Counted(c) /\ (o \in DentryOperations <=> i = NULL)
        /\ data_array' = [data_array EXCEPT ![c] = Cleared]
        /\ UNCHANGED <<inode_cache, elements, spare, opened>>
    BY DEF BeginHook, cacheVars
  <1>2. calls \in Nat /\ calls' = calls + 1 /\ o \in AllOperations
    BY <1>1 DEF HooksInv, HooksTypeOK, Counted
  <1>3. h \in HookCall /\ Shaped(h)
    BY <1>1, <1>2 DEF HookCall, Shaped, Calls
  <1> HIDE DEF h
  <1>4. hook' \in [Tasks -> HookCall \union {Idle}] /\ HookShape'
    BY <1>1, <1>3, ShapeKept DEF Busy
  <1>5. preemptions' \in 0 .. MaxPreemptions
    BY <1>1 DEF Counted, HooksInv, HooksTypeOK
  <1>6. data_array' \in [CPUs -> Scratch]
    BY <1>1 DEF HooksInv, HooksTypeOK, Cleared, Scratch, EventOperations
  <1>7. ElementsApart'
    BY <1>1, ApartKept DEF HooksInv, HooksTypeOK
  <1>8. QED
    BY <1>1, <1>2, <1>4, <1>5, <1>6, <1>7 DEF HooksInv, HooksTypeOK

(* The steps that leave the cache as it is.                                *)
LEMMA FrameTyped ==
  ASSUME HooksInv, UNCHANGED <<calls, preemptions, cacheVars>>,
         data_array' \in [CPUs -> Scratch], opened' \in [Inodes -> SUBSET Calls],
         hook' \in [Tasks -> HookCall \union {Idle}], HookShape'
  PROVE  HooksInv'
  <1>1. ElementsApart'
    BY ApartKept DEF HooksInv, HooksTypeOK, cacheVars
  <1>2. QED BY <1>1 DEF HooksInv, HooksTypeOK, cacheVars

LEMMA SetNameTyped ==
  ASSUME HooksInv, NEW t \in Tasks, SetName(t)
  PROVE  HooksInv'
  <1> DEFINE h == hook[t]
             g == [h EXCEPT !.pc = IF h.operation = "open" THEN "path" ELSE "named"]
  <1>1. /\ hook[t] # Idle /\ GoesOn(t, g, Busy(h.cpu))
        /\ data_array' = [data_array EXCEPT ![h.cpu].file = h.call]
        /\ opened' = IF h.operation = "open"
                     THEN [opened EXCEPT ![h.inode] = @ \union {h.call}] ELSE opened
        /\ UNCHANGED <<calls, preemptions, cacheVars>>
    BY DEF SetName, At
  <1>2. /\ h \in HookCall /\ h.cpu \in CPUs /\ h.call \in Calls
        /\ h.operation = "open" => h.inode \in Inodes
    BY <1>1, HookTyped DEF DentryOperations
  <1>3. g \in HookCall /\ Shaped(g)
    BY <1>1, <1>2 DEF HookCall, Shaped, HooksInv, HookShape
  <1>4. data_array' \in [CPUs -> Scratch]
    <2>1. data_array \in [CPUs -> Scratch] /\ h.call \in Nat
      BY <1>2 DEF HooksInv, HooksTypeOK, Calls
    <2> HIDE DEF h
    <2>2. [data_array[h.cpu] EXCEPT !.file = h.call] \in Scratch
      BY <1>2, <2>1 DEF Scratch
    <2>3. QED BY <1>1, <2>1, <2>2
  <1>5. opened' \in [Inodes -> SUBSET Calls]
    BY <1>1, <1>2 DEF HooksInv, HooksTypeOK
  <1> HIDE DEF g, h
  <1>6. hook' \in [Tasks -> HookCall \union {Idle}] /\ HookShape'
    BY <1>1, <1>3, ShapeKept DEF Busy
  <1>7. QED BY <1>1, <1>4, <1>5, <1>6, FrameTyped

LEMMA NoPathTyped ==
  ASSUME HooksInv, NEW t \in Tasks, NoPath(t)
  PROVE  HooksInv'
  <1> DEFINE h == hook[t]
             g == [h EXCEPT !.pc = "named"]
  <1>1. /\ hook[t] # Idle /\ GoesOn(t, g, {})
        /\ UNCHANGED <<calls, preemptions, data_array, cacheVars, opened>>
    BY DEF NoPath, At
  <1>2. h \in HookCall
    BY <1>1, HookTyped
  <1>3. g \in HookCall /\ Shaped(g)
    BY <1>1, <1>2 DEF HookCall, Shaped, HooksInv, HookShape
  <1> HIDE DEF g, h
  <1>4. hook' \in [Tasks -> HookCall \union {Idle}] /\ HookShape'
    BY <1>1, <1>3, ShapeKept
  <1>5. QED BY <1>1, <1>4, FrameTyped DEF HooksInv, HooksTypeOK

LEMMA LookupTyped ==
  ASSUME HooksInv, NEW t \in Tasks, LookupName(t)
  PROVE  HooksInv'
  <1> DEFINE h == hook[t]
             e == inode_cache[h.inode]
             g == [h EXCEPT !.element = e, !.pc = IF e = NULL THEN "named" ELSE "found"]
  <1>1. /\ hook[t] # Idle /\ GoesOn(t, g, {}) /\ UsesCache(h.operation)
        /\ UNCHANGED <<calls, preemptions, data_array, cacheVars, opened>>
    BY DEF LookupName, At
  <1>2. h \in HookCall /\ h.inode \in Inodes
    BY <1>1, HookTyped DEF UsesCache, DentryOperations
  <1>3. e \in Elements \union {NULL}
    BY <1>2 DEF HooksInv, HooksTypeOK
  <1> HIDE DEF e
  <1>4. g \in HookCall /\ Shaped(g)
    <2>1. g \in HookCall
      BY <1>2, <1>3 DEF HookCall
    <2>2. /\ g.inode = h.inode /\ g.operation = h.operation /\ g.element = e
          /\ g.pc = IF e = NULL THEN "named" ELSE "found"
      BY <1>2 DEF HookCall
    <2>3. h.inode = NULL <=> h.operation \in DentryOperations
      BY <1>1 DEF HooksInv, HookShape
    <2> HIDE DEF g, h
    <2>4. QED BY <1>1, <2>1, <2>2, <2>3 DEF Shaped
  <1> HIDE DEF g, h
  <1>5. hook' \in [Tasks -> HookCall \union {Idle}] /\ HookShape'
    BY <1>1, <1>4, ShapeKept
  <1>6. QED BY <1>1, <1>5, FrameTyped DEF HooksInv, HooksTypeOK

LEMMA CopyTyped ==
  ASSUME HooksInv, NEW t \in Tasks, CopyName(t)
  PROVE  HooksInv'
  <1> DEFINE h == hook[t]
             e == elements[h.element]
             g == [h EXCEPT !.pc = "named", !.quiet = @ /\ e.quiet]
  <1>1. /\ hook[t] # Idle /\ h.pc = "found" /\ GoesOn(t, g, Busy(h.cpu))
        /\ data_array' = [data_array EXCEPT ![h.cpu].file = e.name]
        /\ UNCHANGED <<calls, preemptions, cacheVars, opened>>
    BY DEF CopyName, At
  <1>2. h \in HookCall /\ h.cpu \in CPUs /\ h.element \in Elements
    BY <1>1, HookTyped DEF HooksInv, HookShape
  <1>3. e.name \in Nat /\ e.quiet \in BOOLEAN
    BY <1>2 DEF HooksInv, HooksTypeOK
  <1> HIDE DEF e
  <1>4. g \in HookCall /\ Shaped(g)
    <2>1. g \in HookCall
      BY <1>2, <1>3 DEF HookCall
    <2>2. g.inode = h.inode /\ g.operation = h.operation /\ g.pc = "named"
      BY <1>2 DEF HookCall
    <2>3. h.inode = NULL <=> h.operation \in DentryOperations
      BY <1>1 DEF HooksInv, HookShape
    <2> HIDE DEF g, h
    <2>4. QED BY <2>1, <2>2, <2>3 DEF Shaped
  <1>5. data_array' \in [CPUs -> Scratch]
    <2>1. data_array \in [CPUs -> Scratch]
      BY DEF HooksInv, HooksTypeOK
    <2> HIDE DEF h
    <2>2. [data_array[h.cpu] EXCEPT !.file = e.name] \in Scratch
      BY <1>2, <1>3, <2>1 DEF Scratch
    <2>3. QED BY <1>1, <2>1, <2>2
  <1> HIDE DEF g, h
  <1>6. hook' \in [Tasks -> HookCall \union {Idle}] /\ HookShape'
    BY <1>1, <1>4, ShapeKept DEF Busy
  <1>7. QED BY <1>1, <1>5, <1>6, FrameTyped DEF HooksInv, HooksTypeOK

LEMMA SetOperationTyped ==
  ASSUME HooksInv, NEW t \in Tasks, SetOperation(t)
  PROVE  HooksInv'
  <1> DEFINE h == hook[t]
             g == [h EXCEPT !.pc = IF h.pc = "named" THEN "ready" ELSE "ready again",
                            !.element = NULL]
  <1>1. /\ hook[t] # Idle /\ GoesOn(t, g, Busy(h.cpu))
        /\ data_array' = [data_array EXCEPT ![h.cpu].operation = Submitted(h)]
        /\ UNCHANGED <<calls, preemptions, cacheVars, opened>>
    BY DEF SetOperation, At
  <1>2. h \in HookCall /\ h.cpu \in CPUs /\ h.operation \in AllOperations
    BY <1>1, HookTyped
  <1>3. Submitted(h) \in EventOperations
    BY <1>2 DEF Submitted, EventOperations, AllOperations
  <1>4. g \in HookCall /\ Shaped(g)
    <2>1. g \in HookCall
      BY <1>2 DEF HookCall
    <2>2. g.inode = h.inode /\ g.operation = h.operation /\ g.pc \in {"ready", "ready again"}
      BY <1>2 DEF HookCall
    <2>3. h.inode = NULL <=> h.operation \in DentryOperations
      BY <1>1 DEF HooksInv, HookShape
    <2> HIDE DEF g, h
    <2>4. QED BY <2>1, <2>2, <2>3 DEF Shaped
  <1>5. data_array' \in [CPUs -> Scratch]
    <2>1. data_array \in [CPUs -> Scratch]
      BY DEF HooksInv, HooksTypeOK
    <2> HIDE DEF h
    <2>2. [data_array[h.cpu] EXCEPT !.operation = Submitted(h)] \in Scratch
      BY <1>2, <1>3, <2>1 DEF Scratch
    <2>3. QED BY <1>1, <2>1, <2>2
  <1> HIDE DEF g, h
  <1>6. hook' \in [Tasks -> HookCall \union {Idle}] /\ HookShape'
    BY <1>1, <1>4, ShapeKept DEF Busy
  <1>7. QED BY <1>1, <1>5, <1>6, FrameTyped DEF HooksInv, HooksTypeOK

LEMMA SubmitTyped ==
  ASSUME HooksInv, NEW t \in Tasks, submit_event(t)
  PROVE  HooksInv'
  <1> DEFINE h == hook[t]
  <1>1. /\ hook[t] # Idle /\ GoesOn(t, AfterEvent(h), {})
        /\ UNCHANGED <<calls, preemptions, data_array, cacheVars, opened>>
    BY DEF submit_event, At
  <1>2. h \in HookCall
    BY <1>1, HookTyped
  <1>3. AfterEvent(h) \in HookCall \union {Idle} /\ (AfterEvent(h) # Idle => Shaped(AfterEvent(h)))
    <2> DEFINE g == [h EXCEPT !.pc = "named again"]
    <2>1. g \in HookCall
      BY <1>2 DEF HookCall
    <2>2. g.inode = h.inode /\ g.operation = h.operation /\ g.pc = "named again"
      BY <1>2 DEF HookCall
    <2>3. h.inode = NULL <=> h.operation \in DentryOperations
      BY <1>1 DEF HooksInv, HookShape
    <2>4. AfterEvent(h) = Idle \/ AfterEvent(h) = g
      BY DEF AfterEvent
    <2> HIDE DEF g, h
    <2>5. QED BY <2>1, <2>2, <2>3, <2>4 DEF Shaped
  <1> HIDE DEF h
  <1>4. hook' \in [Tasks -> HookCall \union {Idle}] /\ HookShape'
    BY <1>1, <1>3, ShapeKept
  <1>5. QED BY <1>1, <1>4, FrameTyped DEF HooksInv, HooksTypeOK

(* Element by element.                                                     *)
Apart ==
  /\ spare \in [CPUs -> Elements]
  /\ \A c, d \in CPUs : spare[c] = spare[d] => c = d
  /\ \A i \in Inodes, c \in CPUs : inode_cache[i] # spare[c]
  /\ \A i, j \in Inodes : inode_cache[i] = inode_cache[j] => i = j \/ inode_cache[i] = NULL

LEMMA ApartIs == ElementsApart <=> Apart
  <1>1. ASSUME ElementsApart
        PROVE  Apart
    <2>1. /\ spare \in [CPUs -> Elements]
          /\ \A c, d \in CPUs : spare[c] = spare[d] => c = d
      BY <1>1 DEF ElementsApart, SparesOf
    <2>2. ASSUME NEW i \in Inodes, NEW c \in CPUs, inode_cache[i] = spare[c]
          PROVE  FALSE
      <3>1. spare[c] \in Elements /\ spare[c] \in Spares
        BY <2>1 DEF Spares
      <3>2. inode_cache[i] \in InCache
        BY <2>2, <3>1 DEF InCache
      <3>3. QED BY <1>1, <2>2, <3>1, <3>2 DEF ElementsApart
    <2>3. QED BY <1>1, <2>1, <2>2 DEF ElementsApart, Apart
  <1>2. ASSUME Apart
        PROVE  ElementsApart
    <2>1. spare \in SparesOf
      BY <1>2 DEF Apart, SparesOf
    <2>2. InCache \intersect Spares = {}
      BY <1>2 DEF Apart, InCache, Spares
    <2>3. QED BY <1>2, <2>1, <2>2 DEF Apart, ElementsApart
  <1>3. QED BY <1>1, <1>2

(* An element that is filled: the spare of the CPU, or a free one.  It is  *)
(* in the cache for no inode number.                                       *)
LEMMA FilledWasOut ==
  ASSUME HooksInv, NEW t \in Tasks, CacheName(t)
  PROVE  LET h == hook[t] IN
         /\ h \in HookCall /\ h # Idle /\ h.cpu \in CPUs /\ h.inode \in Inodes
         /\ h.pc = "path" /\ h.operation = "open"
         /\ UNCHANGED <<calls, preemptions, data_array, opened>>
         /\ \/ UNCHANGED cacheVars /\ GoesOn(t, [h EXCEPT !.pc = "named"], {})
            \/ \E e \in Elements :
                 /\ \A i \in Inodes : inode_cache[i] # e
                 /\ Fill(t, h.inode, e)
                 /\ \/ /\ spare' = spare
                       /\ \A c \in CPUs : spare[c] # e
                    \/ /\ e = spare[h.cpu] /\ inode_cache[h.inode] # NULL
                       /\ spare' = [spare EXCEPT ![h.cpu] = inode_cache[h.inode]]
  <1> DEFINE h == hook[t]
  <1>1. At(t, "path") /\ UNCHANGED <<calls, preemptions, data_array, opened>>
    BY DEF CacheName
  <1>2. /\ h \in HookCall /\ h # Idle /\ h.cpu \in CPUs /\ h.pc = "path"
        /\ h.operation = "open" /\ h.inode \in Inodes
    <2>1. h # Idle /\ h.pc = "path"
      BY <1>1 DEF At
    <2>2. h.operation = "open"
      BY <2>1 DEF HooksInv, HookShape
    <2>3. QED BY <2>1, <2>2, HookTyped DEF DentryOperations
  <1>3. Apart
    BY ApartIs DEF HooksInv, HooksTypeOK
  <1>4. CASE /\ inode_cache[h.inode] # NULL /\ Fill(t, h.inode, spare[h.cpu])
             /\ spare' = [spare EXCEPT ![h.cpu] = inode_cache[h.inode]]
    <2>1. spare[h.cpu] \in Elements /\ \A i \in Inodes : inode_cache[i] # spare[h.cpu]
      BY <1>2, <1>3 DEF Apart
    <2> HIDE DEF h
    <2>2. QED BY <1>1, <1>2, <1>4, <2>1 DEF h
  <1>5. ASSUME NEW e \in Elements \ (InCache \union Spares), Fill(t, h.inode, e), spare' = spare
        PROVE  /\ \A i \in Inodes : inode_cache[i] # e
               /\ \A c \in CPUs : spare[c] # e
    BY <1>5 DEF InCache, Spares
  <1>6. CASE UNCHANGED cacheVars /\ GoesOn(t, [h EXCEPT !.pc = "named"], {})
    BY <1>1, <1>2, <1>6
  <1>7. \/ /\ inode_cache[h.inode] # NULL /\ Fill(t, h.inode, spare[h.cpu])
           /\ spare' = [spare EXCEPT ![h.cpu] = inode_cache[h.inode]]
        \/ \E e \in Elements \ (InCache \union Spares) : Fill(t, h.inode, e) /\ spare' = spare
        \/ UNCHANGED cacheVars /\ GoesOn(t, [h EXCEPT !.pc = "named"], {})
    BY DEF CacheName
  <1> HIDE DEF h
  <1>8. QED BY <1>1, <1>2, <1>4, <1>5, <1>6, <1>7 DEF h

LEMMA CacheNameTyped ==
  ASSUME HooksInv, NEW t \in Tasks, CacheName(t)
  PROVE  HooksInv'
  <1> DEFINE h == hook[t]
             g == [h EXCEPT !.pc = "named"]
  <1>1. /\ h \in HookCall /\ h # Idle /\ h.cpu \in CPUs /\ h.inode \in Inodes
        /\ UNCHANGED <<calls, preemptions, data_array, opened>>
    BY FilledWasOut
  <1>2. g \in HookCall /\ Shaped(g)
    <2>1. g \in HookCall
      BY <1>1 DEF HookCall
    <2>2. g.inode = h.inode /\ g.operation = h.operation /\ g.pc = "named"
      BY <1>1 DEF HookCall
    <2>3. h.inode = NULL <=> h.operation \in DentryOperations
      BY <1>1 DEF HooksInv, HookShape
    <2> HIDE DEF g, h
    <2>4. QED BY <2>1, <2>2, <2>3 DEF Shaped
  <1>3. data_array' \in [CPUs -> Scratch] /\ opened' \in [Inodes -> SUBSET Calls]
    BY <1>1 DEF HooksInv, HooksTypeOK
  <1>4. CASE UNCHANGED cacheVars /\ GoesOn(t, g, {})
    <2> HIDE DEF g, h
    <2>1. hook' \in [Tasks -> HookCall \union {Idle}] /\ HookShape'
      BY <1>2, <1>4, ShapeKept
    <2>2. QED BY <1>1, <1>3, <1>4, <2>1, FrameTyped
  <1>5. ASSUME NEW e \in Elements, \A i \in Inodes : inode_cache[i] # e, Fill(t, h.inode, e),
               \/ spare' = spare /\ \A c \in CPUs : spare[c] # e
               \/ /\ e = spare[h.cpu] /\ inode_cache[h.inode] # NULL
                  /\ spare' = [spare EXCEPT ![h.cpu] = inode_cache[h.inode]]
        PROVE  HooksInv'
    <2>1. /\ inode_cache' = [inode_cache EXCEPT ![h.inode] = e]
          /\ elements' = [elements EXCEPT ![e] =
                             [name |-> data_array[h.cpu].file, quiet |-> h.quiet]]
          /\ GoesOn(t, g, Holding(e))
      BY <1>5 DEF Fill
    <2>2. elements' \in [Elements -> [name : Nat, quiet : BOOLEAN]]
      <3>1. data_array[h.cpu].file \in Nat /\ h.quiet \in BOOLEAN
        BY <1>1 DEF HooksInv, HooksTypeOK, HookCall, Scratch
      <3>2. elements \in [Elements -> [name : Nat, quiet : BOOLEAN]]
        BY DEF HooksInv, HooksTypeOK
      <3> HIDE DEF h
      <3>3. QED BY <1>5, <2>1, <3>1, <3>2
    <2> HIDE DEF g, h
    <2>3. hook' \in [Tasks -> HookCall \union {Idle}] /\ HookShape'
      BY <1>2, <2>1, ShapeKept DEF Holding
    <2>4. inode_cache \in [Inodes -> Elements \union {NULL}] /\ Apart
      BY ApartIs DEF HooksInv, HooksTypeOK
    <2>5. inode_cache' \in [Inodes -> Elements \union {NULL}]
      BY <1>1, <1>5, <2>1, <2>4
    <2>6. Apart'
      <3>1. /\ inode_cache'[h.inode] = e
            /\ \A i \in Inodes : i # h.inode => inode_cache'[i] = inode_cache[i]
        BY <1>1, <2>1, <2>4
      <3>2. \A i, j \in Inodes :
               inode_cache'[i] = inode_cache'[j] => i = j \/ inode_cache'[i] = NULL
        BY <1>5, <2>4, <3>1 DEF Apart
      <3>3. CASE spare' = spare /\ \A c \in CPUs : spare[c] # e
        BY <2>4, <3>1, <3>2, <3>3 DEF Apart
      <3>4. CASE /\ e = spare[h.cpu] /\ inode_cache[h.inode] # NULL
                 /\ spare' = [spare EXCEPT ![h.cpu] = inode_cache[h.inode]]
        <4>1. inode_cache[h.inode] \in Elements
          BY <1>1, <2>4, <3>4
        <4>2. /\ spare' \in [CPUs -> Elements] /\ spare'[h.cpu] = inode_cache[h.inode]
              /\ \A c \in CPUs : c # h.cpu => spare'[c] = spare[c]
          BY <1>1, <2>4, <3>4, <4>1 DEF Apart
        <4>3. \A c, d \in CPUs : spare'[c] = spare'[d] => c = d
          BY <1>1, <2>4, <4>2 DEF Apart
        <4>4. \A i \in Inodes, c \in CPUs : inode_cache'[i] # spare'[c]
          BY <1>1, <1>5, <2>4, <3>1, <3>4, <4>2 DEF Apart
        <4>5. QED BY <3>2, <4>2, <4>3, <4>4 DEF Apart
      <3>5. QED BY <1>5, <3>3, <3>4
    <2>7. ElementsApart'
      BY <2>6, ApartIs, PTL
    <2>8. QED
      BY <1>1, <1>3, <2>2, <2>3, <2>5, <2>7 DEF HooksInv, HooksTypeOK
  <1> HIDE DEF g
  <1>6. QED BY <1>4, <1>5, FilledWasOut DEF g

LEMMA HooksStep == HooksInv /\ [HooksNext]_hooksVars => HooksInv'
  <1> SUFFICES ASSUME HooksInv, [HooksNext]_hooksVars
               PROVE  HooksInv'
    OBVIOUS
  <1>1. ASSUME NEW t \in Tasks, HookStep(t)
        PROVE  HooksInv'
    BY <1>1, SetNameTyped, NoPathTyped, CacheNameTyped, LookupTyped, CopyTyped,
       SetOperationTyped DEF HookStep
  <1>2. CASE UNCHANGED hooksVars
    <2>1. UNCHANGED <<calls, preemptions, hook, data_array, cacheVars, opened>>
      BY <1>2 DEF hooksVars
    <2>2. HookShape'
      BY <2>1 DEF HooksInv, HookShape
    <2>3. QED BY <2>1, <2>2, FrameTyped DEF HooksInv, HooksTypeOK
  <1>3. QED BY <1>1, <1>2, BeginTyped, SubmitTyped DEF HooksNext, Prepare

LEMMA HooksStart == HooksInit => HooksInv
  <1> SUFFICES ASSUME HooksInit PROVE HooksInv
    OBVIOUS
  <1>1. spare \in SparesOf
    BY DEF HooksInit
  <1>2. ElementsApart
    <2>1. /\ spare \in [CPUs -> Elements]
          /\ \A c, d \in CPUs : spare[c] = spare[d] => c = d
      BY <1>1 DEF SparesOf
    <2>2. \A i \in Inodes : inode_cache[i] = NULL
      BY DEF HooksInit
    <2>3. \A c \in CPUs : spare[c] # NULL
      BY <2>1
    <2>4. Apart
      BY <2>1, <2>2, <2>3 DEF Apart
    <2>5. QED BY <2>4, ApartIs
  <1>3. Cleared \in Scratch
    BY DEF Cleared, Scratch, EventOperations
  <1>4. HookShape
    BY DEF HooksInit, HookShape
  <1>5. elements \in [Elements -> [name : Nat, quiet : BOOLEAN]]
    BY DEF HooksInit
  <1>6. /\ calls \in Nat /\ preemptions \in 0 .. MaxPreemptions
        /\ hook \in [Tasks -> HookCall \union {Idle}]
        /\ data_array \in [CPUs -> Scratch]
        /\ inode_cache \in [Inodes -> Elements \union {NULL}]
        /\ opened \in [Inodes -> SUBSET Calls]
    BY <1>3 DEF HooksInit
  <1>7. QED BY <1>2, <1>4, <1>5, <1>6 DEF HooksInv, HooksTypeOK

(* The hooks work on data of the types they are for, whatever the kernel   *)
(* preempts: what file_permission copies from is an element, and no        *)
(* element is in the cache twice or in it and a spare.                     *)
THEOREM HooksTypeCorrect == HooksSpec => []HooksTypeOK
  <1>1. HooksInv => HooksTypeOK
    BY DEF HooksInv
  <1>2. QED BY <1>1, HooksStart, HooksStep, PTL DEF HooksSpec

-----------------------------------------------------------------------------
(* Whose name an event carries.                                            *)

(* What a quiet hook has made so far of the scratch d, the element e it    *)
(* holds and the names o its inode number was opened under.                *)
NamesOf(h, o) ==
  IF UsesCache(h.operation) THEN {0} \union o
  ELSE IF h.operation = "open" THEN {0, h.call}
  ELSE {h.call}

Sound(h, d, e, o) ==
  /\ h.pc = "begun" => d.file = 0
  /\ h.pc = "path" => d.file = h.call /\ h.call \in o
  /\ h.pc = "found" => (e.quiet => e.name \in o)
  /\ h.pc \notin {"begun", "path", "found"} => d.file \in NamesOf(h, o)
  /\ h.pc \in {"ready", "ready again"} => d.operation = Submitted(h)

HooksSound ==
  \A t \in Tasks : hook[t] # Idle /\ hook[t].quiet =>
    Sound(hook[t], data_array[hook[t].cpu], elements[hook[t].element], opened[hook[t].inode])

(* What a quiet hook cached for an inode number is a name it was opened    *)
(* under.                                                                  *)
CacheSound ==
  \A i \in Inodes : inode_cache[i] # NULL /\ elements[inode_cache[i]].quiet =>
    elements[inode_cache[i]].name \in opened[i]

QuietInv == HooksSound /\ CacheSound

(* Names are only ever added to those a number was opened under.           *)
LEMMA StillSound ==
  ASSUME NEW g, NEW h, SameCall(g, h), NEW d, NEW e, NEW o, NEW p, Sound(g, d, e, o),
         o \subseteq p \/ g.operation \in DentryOperations,
         g.pc = "path" => g.operation = "open", g.pc = "found" => UsesCache(g.operation)
  PROVE  Sound(h, d, e, p)
  <1>1. UsesCache(g.operation) \/ g.operation = "open" => g.operation \notin DentryOperations
    BY DEF UsesCache, DentryOperations
  <1>2. /\ h.pc = g.pc /\ h.operation = g.operation /\ h.call = g.call
        /\ Submitted(h) = Submitted(g)
    BY DEF SameCall, Submitted
  <1>3. NamesOf(g, o) \subseteq NamesOf(h, p)
    BY <1>1, <1>2 DEF NamesOf
  <1>4. QED BY <1>1, <1>2, <1>3 DEF Sound

(* A hook that goes on leaves the scratch data_t and the element of every  *)
(* other hook that stays quiet alone.                                      *)
LEMMA OthersSound ==
  ASSUME HooksInv, QuietInv, NEW t \in Tasks, NEW h \in HookCall \union {Idle}, NEW D,
         \A u \in D : hook[u] # Idle, GoesOn(t, h, D),
         \A u \in Tasks : u # t /\ hook[u] # Idle /\ u \notin D =>
           /\ data_array'[hook[u].cpu] = data_array[hook[u].cpu]
           /\ elements'[hook[u].element] = elements[hook[u].element],
         \A i \in Inodes : opened[i] \subseteq opened'[i],
         h # Idle /\ h.quiet =>
           Sound(h, data_array'[h.cpu], elements'[h.element], opened'[h.inode])
  PROVE  HooksSound'
  <1>1. /\ hook'[t] = h
        /\ \A u \in Tasks : u # t /\ hook'[u] # Idle =>
              /\ SameCall(hook[u], hook'[u])
              /\ hook'[u].quiet => hook[u].quiet /\ u \notin D
    BY OthersGoOn
  <1>2. ASSUME NEW u \in Tasks, u # t, hook'[u] # Idle, hook'[u].quiet
        PROVE  Sound(hook'[u], data_array'[hook'[u].cpu], elements'[hook'[u].element],
                     opened'[hook'[u].inode])
    <2>1. /\ SameCall(hook[u], hook'[u]) /\ hook[u] # Idle /\ hook[u].quiet /\ u \notin D
      BY <1>1, <1>2 DEF SameCall
    <2>2. /\ data_array'[hook'[u].cpu] = data_array[hook[u].cpu]
          /\ elements'[hook'[u].element] = elements[hook[u].element]
          /\ opened'[hook'[u].inode] = opened'[hook[u].inode]
      BY <1>2, <2>1 DEF SameCall
    <2>3. Sound(hook[u], data_array[hook[u].cpu], elements[hook[u].element],
                opened[hook[u].inode])
      BY <2>1 DEF QuietInv, HooksSound
    <2>4. /\ \/ opened[hook[u].inode] \subseteq opened'[hook[u].inode]
             \/ hook[u].operation \in DentryOperations
          /\ hook[u].pc = "path" => hook[u].operation = "open"
          /\ hook[u].pc = "found" => UsesCache(hook[u].operation)
      BY <2>1, HookTyped DEF HooksInv, HookShape
    <2>5. QED BY <2>1, <2>2, <2>3, <2>4, StillSound
  <1>3. QED BY <1>1, <1>2 DEF HooksSound

(* The steps that leave the cache as it is.                                *)
LEMMA CacheStaysSound ==
  ASSUME QuietInv, UNCHANGED cacheVars, \A i \in Inodes : opened[i] \subseteq opened'[i]
  PROVE  CacheSound'
  BY DEF QuietInv, CacheSound, cacheVars

LEMMA OtherCPUs ==
  ASSUME HooksInv, NEW c \in CPUs, NEW x, data_array' = [data_array EXCEPT ![c] = x],
         elements' = elements, NEW u \in Tasks, hook[u] # Idle, u \notin Busy(c)
  PROVE  /\ data_array'[hook[u].cpu] = data_array[hook[u].cpu]
         /\ elements'[hook[u].element] = elements[hook[u].element]
  <1>1. hook[u].cpu \in CPUs /\ hook[u].cpu # c
    BY HookTyped DEF Busy
  <1>2. QED BY <1>1 DEF HooksInv, HooksTypeOK

(* A hook that writes the scratch data_t of its CPU.                       *)
LEMMA WriterSound ==
  ASSUME HooksInv, QuietInv, NEW t \in Tasks, NEW c \in CPUs, NEW x, NEW h \in HookCall,
         data_array' = [data_array EXCEPT ![c] = x], UNCHANGED cacheVars,
         GoesOn(t, h, Busy(c)), \A i \in Inodes : opened[i] \subseteq opened'[i],
         h.quiet => Sound(h, data_array'[h.cpu], elements'[h.element], opened'[h.inode])
  PROVE  QuietInv'
  <1>1. elements' = elements
    BY DEF cacheVars
  <1>2. PICK D : D = Busy(c)
    OBVIOUS
  <1>3. /\ GoesOn(t, h, D) /\ \A u \in D : hook[u] # Idle
        /\ \A u \in Tasks : u # t /\ hook[u] # Idle /\ u \notin D =>
             /\ data_array'[hook[u].cpu] = data_array[hook[u].cpu]
             /\ elements'[hook[u].element] = elements[hook[u].element]
    <2>1. \A u \in D : hook[u] # Idle
      BY <1>2 DEF Busy
    <2>2. QED BY <1>1, <1>2, <2>1, OtherCPUs
  <1>4. h \in HookCall \union {Idle}
    OBVIOUS
  <1>5. HooksSound'
    BY <1>3, <1>4, OthersSound
  <1>6. QED BY <1>5, CacheStaysSound DEF QuietInv

LEMMA BeginSound ==
  ASSUME HooksInv, QuietInv, NEW t \in Tasks, NEW c \in CPUs, NEW o \in Operations,
         NEW i \in Inodes \union {NULL}, BeginHook(t, c, o, i)
  PROVE  QuietInv'
  <1> DEFINE h == [pc |-> "begun", cpu |-> c, operation |-> o, inode |-> i,
                   call |-> calls + 1, element |-> NULL, quiet |-> TRUE]
  <1>1. /\ GoesOn(t, h, Busy(c)) /\ opened' = opened /\ UNCHANGED cacheVars
        /\ data_array' = [data_array EXCEPT ![c] = Cleared]
    BY DEF BeginHook
  <1>2. h \in HookCall
    <2>1. calls + 1 \in Calls /\ o \in AllOperations
      BY DEF HooksInv, HooksTypeOK, Calls
    <2>2. QED BY <2>1 DEF HookCall
  <1>3. Sound(h, data_array'[h.cpu], elements'[h.element], opened'[h.inode])
    <2>1. data_array'[c].file = 0
      BY <1>1 DEF HooksInv, HooksTypeOK, Cleared
    <2>2. h.pc = "begun" /\ h.cpu = c
      OBVIOUS
    <2> HIDE DEF h
    <2>3. QED BY <2>1, <2>2, Zenon DEF Sound
  <1> HIDE DEF h
  <1>4. QED BY <1>1, <1>2, <1>3, WriterSound

LEMMA SetNameSound ==
  ASSUME HooksInv, QuietInv, NEW t \in Tasks, SetName(t)
  PROVE  QuietInv'
  <1> DEFINE h == hook[t]
             g == [h EXCEPT !.pc = IF h.operation = "open" THEN "path" ELSE "named"]
             d == [data_array[h.cpu] EXCEPT !.file = h.call]
  <1>1. /\ hook[t] # Idle /\ GoesOn(t, g, Busy(h.cpu)) /\ ~ UsesCache(h.operation)
        /\ data_array' = [data_array EXCEPT ![h.cpu] = d]
        /\ opened' = IF h.operation = "open"
                     THEN [opened EXCEPT ![h.inode] = @ \union {h.call}] ELSE opened
        /\ UNCHANGED cacheVars
    BY DEF SetName, At
  <1>2. /\ h \in HookCall /\ h.cpu \in CPUs
        /\ h.operation = "open" => h.inode \in Inodes
    BY <1>1, HookTyped DEF DentryOperations
  <1>3. \A i \in Inodes : opened[i] \subseteq opened'[i]
    BY <1>1, <1>2 DEF HooksInv, HooksTypeOK
  <1>4. g \in HookCall
    BY <1>2 DEF HookCall
  <1>5. Sound(g, data_array'[g.cpu], elements'[g.element], opened'[g.inode])
    <2>1. /\ g.operation = h.operation /\ g.call = h.call /\ g.cpu = h.cpu
          /\ g.inode = h.inode /\ g.pc = IF h.operation = "open" THEN "path" ELSE "named"
      BY <1>2 DEF HookCall
    <2>2. data_array'[h.cpu].file = h.call
      <3>1. data_array \in [CPUs -> Scratch]
        BY DEF HooksInv, HooksTypeOK
      <3>2. d.file = h.call
        BY <1>2, <3>1 DEF Scratch
      <3> HIDE DEF d, h
      <3>3. QED BY <1>1, <1>2, <3>1, <3>2
    <2>3. h.operation = "open" => h.call \in opened'[h.inode]
      BY <1>1, <1>2 DEF HooksInv, HooksTypeOK
    <2> HIDE DEF g, h
    <2>4. QED BY <1>1, <2>1, <2>2, <2>3 DEF Sound, NamesOf
  <1> HIDE DEF d, g, h
  <1>6. UNCHANGED cacheVars
    BY <1>1
  <1>7. QED BY <1>1, <1>2, <1>3, <1>4, <1>5, <1>6, WriterSound

LEMMA NoPathSound ==
  ASSUME HooksInv, QuietInv, NEW t \in Tasks, NoPath(t)
  PROVE  QuietInv'
  <1> DEFINE h == hook[t]
             g == [h EXCEPT !.pc = "named"]
  <1>1. /\ hook[t] # Idle /\ GoesOn(t, g, {}) /\ h.operation = "open" /\ h.pc = "begun"
        /\ UNCHANGED <<data_array, cacheVars, opened>>
    BY DEF NoPath, At
  <1>2. h \in HookCall
    BY <1>1, HookTyped
  <1>3. /\ g \in HookCall /\ g.operation = h.operation /\ g.cpu = h.cpu
        /\ g.quiet = h.quiet /\ g.pc = "named"
    BY <1>2 DEF HookCall
  <1> HIDE DEF g
  <1>4. ASSUME g.quiet
        PROVE  Sound(g, data_array'[g.cpu], elements'[g.element], opened'[g.inode])
    <2>1. data_array'[g.cpu].file = 0
      BY <1>1, <1>3, <1>4 DEF QuietInv, HooksSound, Sound
    <2>2. QED BY <1>1, <1>3, <2>1 DEF Sound, NamesOf, UsesCache
  <1> HIDE DEF h
  <1>5. HooksSound'
    BY <1>1, <1>3, <1>4, OthersSound DEF cacheVars
  <1>6. QED BY <1>1, <1>5, CacheStaysSound DEF QuietInv

LEMMA LookupSound ==
  ASSUME HooksInv, QuietInv, NEW t \in Tasks, LookupName(t)
  PROVE  QuietInv'
  <1> DEFINE h == hook[t]
             e == inode_cache[h.inode]
             g == [h EXCEPT !.element = e, !.pc = IF e = NULL THEN "named" ELSE "found"]
  <1>1. /\ hook[t] # Idle /\ h.pc = "begun" /\ GoesOn(t, g, {}) /\ UsesCache(h.operation)
        /\ UNCHANGED <<data_array, cacheVars, opened>>
    BY DEF LookupName, At
  <1>2. h \in HookCall /\ h.inode \in Inodes
    BY <1>1, HookTyped DEF UsesCache, DentryOperations
  <1>3. e \in Elements \union {NULL}
    BY <1>2 DEF HooksInv, HooksTypeOK
  <1>4. elements' = elements
    BY <1>1 DEF cacheVars
  <1>5. e # NULL /\ elements'[e].quiet => elements'[e].name \in opened'[h.inode]
    BY <1>1, <1>2, <1>4 DEF QuietInv, CacheSound
  <1> HIDE DEF e
  <1>6. /\ g \in HookCall /\ g.inode = h.inode /\ g.operation = h.operation /\ g.cpu = h.cpu
        /\ g.quiet = h.quiet /\ g.element = e
        /\ g.pc = IF e = NULL THEN "named" ELSE "found"
    BY <1>2, <1>3 DEF HookCall
  <1> HIDE DEF g
  <1>7. ASSUME g.quiet
        PROVE  Sound(g, data_array'[g.cpu], elements'[g.element], opened'[g.inode])
    <2>1. data_array'[g.cpu].file = 0
      BY <1>1, <1>6, <1>7 DEF QuietInv, HooksSound, Sound
    <2>2. QED BY <1>1, <1>5, <1>6, <2>1 DEF Sound, NamesOf
  <1> HIDE DEF h
  <1>8. HooksSound'
    BY <1>1, <1>4, <1>6, <1>7, OthersSound
  <1>9. QED BY <1>1, <1>8, CacheStaysSound DEF QuietInv

LEMMA CopySound ==
  ASSUME HooksInv, QuietInv, NEW t \in Tasks, CopyName(t)
  PROVE  QuietInv'
  <1> DEFINE h == hook[t]
             e == elements[h.element]
             g == [h EXCEPT !.pc = "named", !.quiet = @ /\ e.quiet]
             d == [data_array[h.cpu] EXCEPT !.file = e.name]
  <1>1. /\ hook[t] # Idle /\ h.pc = "found" /\ GoesOn(t, g, Busy(h.cpu))
        /\ data_array' = [data_array EXCEPT ![h.cpu] = d]
        /\ UNCHANGED <<cacheVars, opened>>
    BY DEF CopyName, At
  <1>2. /\ h \in HookCall /\ h.cpu \in CPUs /\ h.element \in Elements
        /\ UsesCache(h.operation)
    BY <1>1, HookTyped DEF HooksInv, HookShape
  <1>3. e.name \in Nat /\ e.quiet \in BOOLEAN
    BY <1>2 DEF HooksInv, HooksTypeOK
  <1>4. h.quiet /\ e.quiet => e.name \in opened'[h.inode]
    BY <1>1 DEF QuietInv, HooksSound, Sound
  <1> HIDE DEF e
  <1>5. /\ g \in HookCall /\ g.inode = h.inode /\ g.operation = h.operation /\ g.cpu = h.cpu
        /\ g.pc = "named" /\ g.quiet = (h.quiet /\ e.quiet)
    BY <1>2, <1>3 DEF HookCall
  <1>6. data_array'[h.cpu].file = e.name
    <2>1. data_array \in [CPUs -> Scratch]
      BY DEF HooksInv, HooksTypeOK
    <2>2. d.file = e.name
      BY <1>2, <2>1 DEF Scratch
    <2> HIDE DEF d, h
    <2>3. QED BY <1>1, <1>2, <2>1, <2>2
  <1> HIDE DEF d, g, h
  <1>7. ASSUME g.quiet
        PROVE  Sound(g, data_array'[g.cpu], elements'[g.element], opened'[g.inode])
    BY <1>2, <1>4, <1>5, <1>6, <1>7 DEF Sound, NamesOf
  <1>8. QED BY <1>1, <1>2, <1>5, <1>7, WriterSound

LEMMA SetOperationSound ==
  ASSUME HooksInv, QuietInv, NEW t \in Tasks, SetOperation(t)
  PROVE  QuietInv'
  <1> DEFINE h == hook[t]
             g == [h EXCEPT !.pc = IF h.pc = "named" THEN "ready" ELSE "ready again",
                            !.element = NULL]
             d == [data_array[h.cpu] EXCEPT !.operation = Submitted(h)]
  <1>1. /\ hook[t] # Idle /\ h.pc \in {"named", "named again"} /\ GoesOn(t, g, Busy(h.cpu))
        /\ data_array' = [data_array EXCEPT ![h.cpu] = d]
        /\ UNCHANGED <<cacheVars, opened>>
    BY DEF SetOperation, At
  <1>2. h \in HookCall /\ h.cpu \in CPUs
    BY <1>1, HookTyped
  <1>3. /\ g \in HookCall /\ g.inode = h.inode /\ g.operation = h.operation /\ g.cpu = h.cpu
        /\ g.call = h.call /\ g.quiet = h.quiet
        /\ g.pc = IF h.pc = "named" THEN "ready" ELSE "ready again"
    BY <1>2 DEF HookCall
  <1>4. h.quiet => data_array[h.cpu].file \in NamesOf(h, opened[h.inode])
    BY <1>1 DEF QuietInv, HooksSound, Sound
  <1>5. data_array'[h.cpu].operation = Submitted(h)
        /\ data_array'[h.cpu].file = data_array[h.cpu].file
    <2>1. data_array \in [CPUs -> Scratch]
      BY DEF HooksInv, HooksTypeOK
    <2>2. d.operation = Submitted(h) /\ d.file = data_array[h.cpu].file
      BY <1>2, <2>1 DEF Scratch
    <2> HIDE DEF d, h
    <2>3. QED BY <1>1, <1>2, <2>1, <2>2
  <1> HIDE DEF d, g, h
  <1>6. ASSUME g.quiet
        PROVE  Sound(g, data_array'[g.cpu], elements'[g.element], opened'[g.inode])
    <2>1. Submitted(g) = Submitted(h)
      BY <1>1, <1>3 DEF Submitted
    <2>2. data_array'[g.cpu].file \in NamesOf(g, opened'[g.inode])
      BY <1>1, <1>3, <1>4, <1>5, <1>6 DEF NamesOf
    <2>3. g.pc \in {"ready", "ready again"}
      BY <1>3
    <2>4. data_array'[g.cpu].operation = Submitted(g)
      BY <1>3, <1>5, <2>1
    <2>5. QED BY <2>2, <2>3, <2>4, Zenon DEF Sound
  <1>7. QED BY <1>1, <1>2, <1>3, <1>6, WriterSound

LEMMA SubmitSound ==
  ASSUME HooksInv, QuietInv, NEW t \in Tasks, submit_event(t)
  PROVE  QuietInv'
  <1> DEFINE h == hook[t]
             g == [h EXCEPT !.pc = "named again"]
  <1>1. /\ hook[t] # Idle /\ GoesOn(t, AfterEvent(h), {}) /\ h.pc \in {"ready", "ready again"}
        /\ UNCHANGED <<data_array, cacheVars, opened>>
    BY DEF submit_event, At
  <1>2. h \in HookCall
    BY <1>1, HookTyped
  <1>3. /\ g \in HookCall /\ g.inode = h.inode /\ g.operation = h.operation /\ g.cpu = h.cpu
        /\ g.call = h.call /\ g.quiet = h.quiet /\ g.pc = "named again"
    BY <1>2 DEF HookCall
  <1>4. AfterEvent(h) \in {Idle, g}
    BY DEF AfterEvent
  <1>5. h.quiet => data_array[h.cpu].file \in NamesOf(h, opened[h.inode])
    BY <1>1 DEF QuietInv, HooksSound, Sound
  <1> HIDE DEF g, h
  <1>6. ASSUME g.quiet
        PROVE  Sound(g, data_array'[g.cpu], elements'[g.element], opened'[g.inode])
    <2>1. data_array'[g.cpu].file \in NamesOf(g, opened'[g.inode])
      BY <1>1, <1>3, <1>5, <1>6 DEF NamesOf
    <2>2. QED BY <1>3, <2>1, Zenon DEF Sound
  <1> DEFINE k == AfterEvent(h)
  <1>7. /\ k \in HookCall \union {Idle} /\ GoesOn(t, k, {})
        /\ k # Idle /\ k.quiet =>
             Sound(k, data_array'[k.cpu], elements'[k.element], opened'[k.inode])
    BY <1>1, <1>3, <1>4, <1>6
  <1> HIDE DEF k
  <1>8. HooksSound'
    BY <1>1, <1>7, OthersSound DEF cacheVars
  <1>9. QED BY <1>1, <1>8, CacheStaysSound DEF QuietInv

LEMMA CacheNameSound ==
  ASSUME HooksInv, QuietInv, NEW t \in Tasks, CacheName(t)
  PROVE  QuietInv'
  <1> DEFINE h == hook[t]
             g == [h EXCEPT !.pc = "named"]
  <1>1. /\ h \in HookCall /\ h # Idle /\ h.cpu \in CPUs /\ h.inode \in Inodes
        /\ h.pc = "path" /\ h.operation = "open"
        /\ UNCHANGED <<data_array, opened>>
    BY FilledWasOut
  <1>2. /\ g \in HookCall /\ g.inode = h.inode /\ g.operation = h.operation /\ g.cpu = h.cpu
        /\ g.call = h.call /\ g.quiet = h.quiet /\ g.pc = "named"
    BY <1>1 DEF HookCall
  <1>3. h.quiet => data_array[h.cpu].file = h.call /\ h.call \in opened[h.inode]
    BY <1>1 DEF QuietInv, HooksSound, Sound
  <1> HIDE DEF g
  <1>4. g.quiet => Sound(g, data_array'[g.cpu], elements'[g.element], opened'[g.inode])
    BY <1>1, <1>2, <1>3 DEF Sound, NamesOf, UsesCache
  <1>5. CASE UNCHANGED cacheVars /\ GoesOn(t, g, {})
    <2> HIDE DEF h
    <2>1. HooksSound'
      BY <1>1, <1>2, <1>4, <1>5, OthersSound DEF cacheVars
    <2>2. QED BY <1>1, <1>5, <2>1, CacheStaysSound DEF QuietInv
  <1>6. ASSUME NEW e \in Elements, \A i \in Inodes : inode_cache[i] # e, Fill(t, h.inode, e)
        PROVE  QuietInv'
    <2>1. /\ inode_cache' = [inode_cache EXCEPT ![h.inode] = e]
          /\ elements' = [elements EXCEPT ![e] =
                             [name |-> data_array[h.cpu].file, quiet |-> h.quiet]]
          /\ GoesOn(t, g, Holding(e))
      BY <1>6 DEF Fill, g
    <2> HIDE DEF h
    <2>2. ASSUME NEW u \in Tasks, hook[u] # Idle, u \notin Holding(e)
          PROVE  elements'[hook[u].element] = elements[hook[u].element]
      <3>1. hook[u].element # e
        BY <2>2 DEF Holding
      <3>2. elements \in [Elements -> [name : Nat, quiet : BOOLEAN]]
        BY DEF HooksInv, HooksTypeOK
      <3>3. hook[u].element \in Elements \union {NULL}
        BY <2>2, HookTyped
      <3>4. CASE hook[u].element \in Elements
        BY <2>1, <3>1, <3>2, <3>4
      <3>5. CASE hook[u].element = NULL
        BY <2>1, <3>2, <3>5
      <3>6. QED BY <3>3, <3>4, <3>5
    <2>3. HooksSound'
      BY <1>1, <1>2, <1>4, <2>1, <2>2, OthersSound DEF Holding
    <2>4. CacheSound'
      <3>1. /\ inode_cache'[h.inode] = e
            /\ \A i \in Inodes : i # h.inode => inode_cache'[i] = inode_cache[i]
            /\ inode_cache \in [Inodes -> Elements \union {NULL}]
        BY <1>1, <2>1 DEF HooksInv, HooksTypeOK
      <3>2. /\ elements'[e].name = data_array[h.cpu].file /\ elements'[e].quiet = h.quiet
            /\ \A f \in Elements : f # e => elements'[f] = elements[f]
        BY <1>6, <2>1 DEF HooksInv, HooksTypeOK
      <3>3. ASSUME NEW i \in Inodes, inode_cache'[i] # NULL, elements'[inode_cache'[i]].quiet
            PROVE  elements'[inode_cache'[i]].name \in opened'[i]
        <4>1. CASE i = h.inode
          BY <1>1, <1>3, <3>1, <3>2, <3>3, <4>1
        <4>2. CASE i # h.inode
          <5>1. inode_cache'[i] = inode_cache[i] /\ inode_cache[i] \in Elements
                /\ inode_cache[i] # e
            BY <1>6, <3>1, <3>3, <4>2
          <5>2. QED BY <1>1, <3>2, <3>3, <5>1 DEF QuietInv, CacheSound
        <4>3. QED BY <4>1, <4>2
      <3>4. QED BY <3>3 DEF CacheSound
    <2>5. QED BY <2>3, <2>4 DEF QuietInv
  <1>7. QED BY <1>5, <1>6, FilledWasOut DEF g

LEMMA QuietStep == HooksInv /\ QuietInv /\ [HooksNext]_hooksVars => QuietInv'
  <1> SUFFICES ASSUME HooksInv, QuietInv, [HooksNext]_hooksVars
               PROVE  QuietInv'
    OBVIOUS
  <1>1. ASSUME NEW t \in Tasks, HookStep(t)
        PROVE  QuietInv'
    BY <1>1, SetNameSound, NoPathSound, CacheNameSound, LookupSound, CopySound,
       SetOperationSound DEF HookStep
  <1>2. CASE UNCHANGED hooksVars
    BY <1>2 DEF hooksVars, cacheVars, QuietInv, HooksSound, CacheSound
  <1>3. QED BY <1>1, <1>2, BeginSound, SubmitSound DEF HooksNext, Prepare

LEMMA QuietIsGenuine == HooksInv /\ QuietInv => QuietHookIsGenuine
  <1> SUFFICES ASSUME HooksInv, QuietInv, NEW t \in Tasks, hook[t] # Idle,
                      hook[t].pc \in {"ready", "ready again"}, hook[t].quiet
               PROVE  /\ EventOf(hook[t]).operation = Submitted(hook[t])
                      /\ EventOf(hook[t]).file \in OwnNames(hook[t])
    BY DEF QuietHookIsGenuine, At
  <1>1. /\ data_array[hook[t].cpu].file \in NamesOf(hook[t], opened[hook[t].inode])
        /\ data_array[hook[t].cpu].operation = Submitted(hook[t])
    BY DEF QuietInv, HooksSound, Sound
  <1>2. QED BY <1>1 DEF EventOf, OwnNames, NamesOf

(* Whatever the kernel preempts and whichever elements it fills again, an  *)
(* event has an operation and a name of its own unless another hook wrote  *)
(* the scratch data_t of the CPU, or the element the name was copied from, *)
(* in between: nothing else in file_monitor.bpf.c mixes up two calls.      *)
THEOREM QuietHooksAreGenuine == HooksSpec => []QuietHookIsGenuine
  <1>1. HooksInit => QuietInv
    BY DEF HooksInit, QuietInv, HooksSound, CacheSound
  <1>2. QED
    BY <1>1, HooksStart, HooksStep, QuietStep, QuietIsGenuine, PTL DEF HooksSpec

-----------------------------------------------------------------------------
(* The rings and the loop.                                                 *)

Handling == {"count", "push", "send"}

(* The events being handled are in the ring of cpu until the last of the   *)
(* batch is: hooks only add to a ring, and no ring is processed twice.     *)
BatchInv ==
  /\ main \in Handling => done < batch /\ batch <= Len(ring[cpu]) /\ cpu \notin ready
  /\ main \in {"process"} \union Handling => \A c \in ready : ring[c] # <<>>

LEMMA AppendTyped ==
  ASSUME NEW S, NEW s \in Seq(S), NEW e \in S
  PROVE  /\ Append(s, e) \in Seq(S) /\ Len(Append(s, e)) = Len(s) + 1
         /\ Append(s, e) # <<>> /\ Len(s) \in Nat
         /\ \A n \in DOMAIN Append(s, e) :
              (n \in DOMAIN s /\ Append(s, e)[n] = s[n]) \/ Append(s, e)[n] = e
  <1>1. /\ Append(s, e) \in Seq(S) /\ Len(Append(s, e)) = Len(s) + 1 /\ Len(s) \in Nat
        /\ DOMAIN s = 1 .. Len(s) /\ DOMAIN Append(s, e) = 1 .. Len(s) + 1
    OBVIOUS
  <1>2. /\ Append(s, e)[Len(s) + 1] = e
        /\ \A n \in 1 .. Len(s) : Append(s, e)[n] = s[n]
    OBVIOUS
  <1>3. Append(s, e) # <<>>
    BY <1>1
  <1>4. \A n \in 1 .. Len(s) + 1 : n \in 1 .. Len(s) \/ n = Len(s) + 1
    BY <1>1
  <1>5. QED BY <1>1, <1>2, <1>3, <1>4

LEMMA SubSeqTyped ==
  ASSUME NEW S, NEW s \in Seq(S), NEW n \in Nat, n <= Len(s)
  PROVE  SubSeq(s, n + 1, Len(s)) \in Seq(S) /\ Len(SubSeq(s, n + 1, Len(s))) = Len(s) - n
  OBVIOUS

(* The main process changes nothing of the hooks.                          *)
LEMMA HooksBelow == [Next]_vars => [HooksNext]_hooksVars
  BY DEF Next, vars, RunHook, OutputEvent, sig_int, MainStep, run_main_loop, poll,
         process_records, increment_counter, pushRear, producer, dispatcher_receives,
         dispatcher_dies, HooksNext

(* So what is proved of the hooks holds beside the main process.           *)
LEMMA EventPathHooks == Spec => HooksSpec
  <1>1. Init => HooksInit
    BY DEF Init
  <1>2. QED BY <1>1, HooksBelow, PTL DEF Spec, HooksSpec

(* The event a hook outputs.                                               *)
LEMMA OutputTyped ==
  ASSUME HooksTypeOK, NEW t \in Tasks, hook[t] # Idle
  PROVE  EventOf(hook[t]) \in Event /\ EventOf(hook[t]).cpu \in CPUs
  <1>1. hook[t] \in HookCall
    BY DEF HooksTypeOK
  <1>2. hook[t].cpu \in CPUs /\ hook[t].call \in Calls
    BY <1>1 DEF HookCall
  <1>3. /\ data_array[hook[t].cpu].operation \in EventOperations
        /\ data_array[hook[t].cpu].file \in Nat
    BY <1>2 DEF HooksTypeOK, Scratch
  <1>4. QED BY <1>2, <1>3 DEF EventOf, Event

-----------------------------------------------------------------------------
(* Types.                                                                  *)

(* The types of the main process and of what it works on.                  *)
LoopTypeOK ==
  /\ ring \in [CPUs -> Seq(Event)] /\ kept \in [CPUs -> Seq(Event)]
  /\ \A c \in CPUs : Len(ring[c]) <= RING_CAPACITY
  /\ stop \in BOOLEAN
  /\ main \in {"test", "poll", "process", "count", "push", "send", "stopped"}
  /\ ready \subseteq CPUs /\ cpu \in CPUs
  /\ batch \in 0 .. RING_CAPACITY /\ done \in 0 .. batch
  /\ counters \in [Codes -> Nat]
  /\ recorded \in Seq(Event) /\ sent \in Nat
  /\ queue \in 0 .. MQ_MAXMSG /\ dispatching \in BOOLEAN

LEMMA TypesAre == TypeOK <=> HooksTypeOK /\ LoopTypeOK
  BY DEF TypeOK, LoopTypeOK

LEMMA OutputKeeps ==
  ASSUME TypeOK, BatchInv, NEW t \in Tasks, OutputEvent(t)
  PROVE  LoopTypeOK' /\ BatchInv'
  <1> DEFINE e == EventOf(hook[t])
             c == e.cpu
  <1>1. e \in Event /\ c \in CPUs
    BY OutputTyped DEF OutputEvent, submit_event, At, TypeOK
  <1>2. /\ stop' = stop /\ main' = main /\ ready' = ready /\ cpu' = cpu
        /\ batch' = batch /\ done' = done /\ counters' = counters
        /\ recorded' = recorded /\ sent' = sent
        /\ queue' = queue /\ dispatching' = dispatching
    BY DEF OutputEvent, loopVars, handleVars, queueVars
  <1>3. /\ ring \in [CPUs -> Seq(Event)] /\ kept \in [CPUs -> Seq(Event)]
        /\ IF Len(ring[c]) < RING_CAPACITY
           THEN /\ ring' = [ring EXCEPT ![c] = Append(ring[c], e)]
                /\ kept' = [kept EXCEPT ![c] = Append(kept[c], e)]
           ELSE ring' = ring /\ kept' = kept
    BY DEF OutputEvent, Output, TypeOK, ringVars
  <1> HIDE DEF c, e
  <1>4. CASE Len(ring[c]) < RING_CAPACITY
    <2>1. /\ ring' = [ring EXCEPT ![c] = Append(ring[c], e)]
          /\ kept' = [kept EXCEPT ![c] = Append(kept[c], e)]
      BY <1>3, <1>4
    <2>2. /\ Append(ring[c], e) \in Seq(Event) /\ Append(ring[c], e) # <<>>
          /\ Len(Append(ring[c], e)) = Len(ring[c]) + 1
          /\ Append(kept[c], e) \in Seq(Event)
          /\ Len(ring[c]) \in Nat
      BY <1>1, <1>3, AppendTyped, ZenonT(30)
    <2>3. ring' \in [CPUs -> Seq(Event)] /\ kept' \in [CPUs -> Seq(Event)]
      BY <1>1, <1>3, <2>1, <2>2
    <2>4. ASSUME NEW d \in CPUs
          PROVE  /\ Len(ring[d]) <= RING_CAPACITY => Len(ring'[d]) <= RING_CAPACITY
                 /\ ring[d] # <<>> => ring'[d] # <<>>
                 /\ Len(ring[d]) \in Nat /\ Len(ring'[d]) \in Nat
                 /\ Len(ring'[d]) >= Len(ring[d])
      <3>1. Len(ring[d]) \in Nat /\ Len(ring'[d]) \in Nat
        BY <1>3, <2>3
      <3>2. CASE d = c
        <4>1. ring'[d] = Append(ring[c], e)
          BY <1>1, <1>3, <2>1, <3>2
        <4>2. QED BY <1>4, <2>2, <3>1, <3>2, <4>1
      <3>3. CASE d # c
        <4>1. ring'[d] = ring[d]
          BY <1>3, <2>1, <3>3
        <4>2. QED BY <3>1, <4>1
      <3>4. QED BY <3>2, <3>3
    <2>5. LoopTypeOK'
      <3>1. \A d \in CPUs : Len(ring'[d]) <= RING_CAPACITY
        BY <2>4 DEF TypeOK
      <3>2. QED BY <1>2, <2>3, <3>1 DEF TypeOK, LoopTypeOK
    <2>6. BatchInv'
      <3>1. batch \in Nat /\ cpu \in CPUs /\ ready \subseteq CPUs
        BY DEF TypeOK
      <3>2. QED BY <1>2, <2>4, <3>1 DEF BatchInv, Handling
    <2>7. QED BY <2>5, <2>6
  <1>5. CASE ~ (Len(ring[c]) < RING_CAPACITY)
    <2>1. ring' = ring /\ kept' = kept
      BY <1>3, <1>5
    <2>2. QED BY <1>2, <2>1 DEF TypeOK, LoopTypeOK, BatchInv, Handling
  <1>6. QED BY <1>4, <1>5

LEMMA CurrentTyped ==
  ASSUME TypeOK, BatchInv, main \in Handling
  PROVE  Current \in Event /\ cpu \in CPUs /\ done + 1 \in 1 .. Len(ring[cpu])
  <1>1. /\ ring[cpu] \in Seq(Event) /\ Len(ring[cpu]) \in Nat /\ cpu \in CPUs
        /\ done \in Nat /\ batch \in Nat
    BY DEF TypeOK
  <1>2. done + 1 \in 1 .. Len(ring[cpu])
    BY <1>1 DEF BatchInv
  <1>3. QED BY <1>1, <1>2 DEF Current

LEMMA ProducerKeeps ==
  ASSUME TypeOK, BatchInv, producer
  PROVE  LoopTypeOK' /\ BatchInv'
  <1>1. /\ main = "send" /\ sent' = sent + 1 /\ done' = done + 1
        /\ done < batch /\ batch <= Len(ring[cpu]) /\ cpu \notin ready
        /\ batch \in Nat /\ done \in Nat /\ cpu \in CPUs
        /\ ring \in [CPUs -> Seq(Event)]
        /\ kept' = kept /\ stop' = stop /\ ready' = ready /\ cpu' = cpu /\ batch' = batch
        /\ counters' = counters /\ recorded' = recorded /\ dispatching' = dispatching
    BY DEF producer, Send, TypeOK, BatchInv, Handling
  <1>2. queue' \in 0 .. MQ_MAXMSG /\ sent' \in Nat /\ done' \in 0 .. batch
    <2>1. queue' \in 0 .. MQ_MAXMSG
      BY DEF producer, Send, TypeOK
    <2>2. sent \in Nat
      BY DEF TypeOK
    <2>3. QED BY <1>1, <2>1, <2>2
  <1>3. CASE done + 1 < batch
    <2>1. main' = "count" /\ ring' = ring
      BY <1>3 DEF producer
    <2>2. QED BY <1>1, <1>2, <1>3, <2>1 DEF TypeOK, LoopTypeOK, BatchInv, Handling
  <1>4. CASE ~ (done + 1 < batch)
    <2>1. /\ SubSeq(ring[cpu], batch + 1, Len(ring[cpu])) \in Seq(Event)
          /\ Len(SubSeq(ring[cpu], batch + 1, Len(ring[cpu]))) <= Len(ring[cpu])
      BY <1>1, SubSeqTyped
    <2>2. /\ ring' = [ring EXCEPT ![cpu] = SubSeq(ring[cpu], batch + 1, Len(ring[cpu]))]
          /\ main' = "process"
      BY <1>4 DEF producer
    <2>3. /\ ring' \in [CPUs -> Seq(Event)]
          /\ \A c \in CPUs : Len(ring'[c]) <= RING_CAPACITY
          /\ \A c \in ready : ring'[c] = ring[c]
      BY <1>1, <2>1, <2>2 DEF TypeOK
    <2>4. QED BY <1>1, <1>2, <2>2, <2>3 DEF TypeOK, LoopTypeOK, BatchInv, Handling
  <1>5. QED BY <1>3, <1>4

LEMMA LoopStep ==
  ASSUME TypeOK, BatchInv, [Next]_vars
  PROVE  LoopTypeOK' /\ BatchInv'
  <1>1. CASE RunHook
    BY <1>1 DEF RunHook, ringVars, loopVars, handleVars, queueVars,
                TypeOK, LoopTypeOK, BatchInv, Handling
  <1>2. ASSUME NEW t \in Tasks, OutputEvent(t)
        PROVE  LoopTypeOK' /\ BatchInv'
    BY <1>2, OutputKeeps
  <1>3. CASE sig_int
    BY <1>3 DEF sig_int, ringVars, handleVars, queueVars,
                TypeOK, LoopTypeOK, BatchInv, Handling
  <1>4. CASE run_main_loop
    BY <1>4 DEF run_main_loop, ringVars, handleVars, queueVars,
                TypeOK, LoopTypeOK, BatchInv, Handling
  <1>5. CASE poll
    BY <1>5 DEF poll, ringVars, handleVars, queueVars,
                TypeOK, LoopTypeOK, BatchInv, Handling
  <1>6. CASE process_records
    <2>1. UNCHANGED <<ringVars, stop, handleVars, queueVars>> /\ main = "process"
      BY <1>6 DEF process_records
    <2>2. CASE main' = "test" /\ UNCHANGED <<ready, cpu, batch, done>>
      BY <2>1, <2>2 DEF ringVars, handleVars, queueVars, TypeOK, LoopTypeOK, BatchInv, Handling
    <2>3. ASSUME NEW c \in ready, ready' = ready \ {c}, cpu' = c,
                 batch' = Len(ring[c]), done' = 0, main' = "count"
          PROVE  LoopTypeOK' /\ BatchInv'
      <3>1. /\ c \in CPUs /\ ring[c] \in Seq(Event) /\ ring[c] # <<>>
            /\ Len(ring[c]) <= RING_CAPACITY
        BY <2>1 DEF TypeOK, BatchInv
      <3>2. Len(ring[c]) \in 1 .. RING_CAPACITY
        BY <3>1
      <3>3. batch' \in 0 .. RING_CAPACITY /\ done' \in 0 .. batch' /\ done' < batch'
        BY <2>3, <3>2
      <3>4. LoopTypeOK'
        BY <2>1, <2>3, <3>1, <3>3 DEF ringVars, handleVars, queueVars, TypeOK, LoopTypeOK
      <3>5. QED
        BY <2>1, <2>3, <3>1, <3>2, <3>3, <3>4 DEF ringVars, BatchInv, Handling
    <2>4. QED BY <1>6, <2>2, <2>3 DEF process_records
  <1>7. CASE increment_counter
    BY <1>7 DEF increment_counter, ringVars, queueVars, TypeOK, LoopTypeOK, BatchInv, Handling
  <1>8. CASE pushRear
    <2>1. Current \in Event
      BY <1>8, CurrentTyped DEF pushRear, Handling
    <2>2. recorded' \in Seq(Event)
      BY <1>8, <2>1, AppendTyped DEF pushRear, TypeOK
    <2>3. QED
      BY <1>8, <2>2 DEF pushRear, ringVars, queueVars, TypeOK, LoopTypeOK, BatchInv, Handling
  <1>9. CASE producer
    BY <1>9, ProducerKeeps
  <1>10. CASE dispatcher_receives
    <2>1. queue' \in 0 .. MQ_MAXMSG
      BY <1>10 DEF dispatcher_receives, TypeOK
    <2>2. QED
      BY <1>10, <2>1 DEF dispatcher_receives, ringVars, loopVars, handleVars,
                         TypeOK, LoopTypeOK, BatchInv, Handling
  <1>11. CASE dispatcher_dies
    BY <1>11 DEF dispatcher_dies, ringVars, loopVars, handleVars,
                 TypeOK, LoopTypeOK, BatchInv, Handling
  <1>12. CASE UNCHANGED vars
    BY <1>12 DEF vars, ringVars, loopVars, handleVars, queueVars,
                 TypeOK, LoopTypeOK, BatchInv, Handling
  <1>13. QED
    BY <1>1, <1>2, <1>3, <1>4, <1>5, <1>6, <1>7, <1>8, <1>9, <1>10, <1>11, <1>12
       DEF Next, MainStep

LEMMA TypedAndBatched == Spec => [](TypeOK /\ HookShape /\ BatchInv)
  <1>1. Init => TypeOK /\ HookShape /\ BatchInv
    <2> SUFFICES ASSUME Init PROVE TypeOK /\ HookShape /\ BatchInv
      OBVIOUS
    <2>1. HooksTypeOK /\ HookShape
      BY HooksStart DEF Init, HooksInv
    <2>2. /\ ring \in [CPUs -> Seq(Event)] /\ kept \in [CPUs -> Seq(Event)]
          /\ recorded \in Seq(Event)
          /\ \A c \in CPUs : Len(ring[c]) <= RING_CAPACITY
      <3>1. <<>> \in Seq(Event) /\ Len(<<>>) = 0
        OBVIOUS
      <3>2. QED BY <3>1 DEF Init
    <2>3. /\ batch = 0 /\ done = 0 /\ sent = 0 /\ ready = {} /\ cpu \in CPUs
          /\ stop = FALSE /\ main = "test" /\ queue = 0 /\ dispatching = TRUE
          /\ counters \in [Codes -> Nat]
      BY DEF Init
    <2>4. /\ batch \in 0 .. RING_CAPACITY /\ done \in 0 .. batch
          /\ queue \in 0 .. MQ_MAXMSG /\ sent \in Nat
      BY <2>3
    <2>5. ready \subseteq CPUs /\ stop \in BOOLEAN /\ dispatching \in BOOLEAN
      BY <2>3
    <2>6. LoopTypeOK
      BY <2>2, <2>3, <2>4, <2>5 DEF LoopTypeOK
    <2>7. BatchInv
      BY <2>3 DEF BatchInv, Handling
    <2>8. QED BY <2>1, <2>6, <2>7, TypesAre
  <1>2. TypeOK /\ HookShape /\ BatchInv /\ [Next]_vars => (TypeOK /\ HookShape /\ BatchInv)'
    <2> SUFFICES ASSUME TypeOK, HookShape, BatchInv, [Next]_vars
                 PROVE  TypeOK' /\ HookShape' /\ BatchInv'
      OBVIOUS
    <2>1. HooksTypeOK' /\ HookShape'
      <3>1. HooksInv
        BY TypesAre DEF HooksInv
      <3>2. HooksInv'
        BY <3>1, HooksBelow, HooksStep
      <3>3. QED BY <3>2 DEF HooksInv
    <2>2. LoopTypeOK' /\ BatchInv'
      BY LoopStep
    <2>3. QED BY <2>1, <2>2, TypesAre, PTL
  <1>3. QED BY <1>1, <1>2, PTL DEF Spec

(* The state of the hooks, the rings, the loop and the message queue keeps *)
(* its types: no ring holds more than its size, the queue no more than     *)
(* mq_maxmsg, and the batch being drained is never longer than the ring.   *)
THEOREM EventPathTypeCorrect == Spec => []TypeOK
  BY TypedAndBatched, PTL
-----------------------------------------------------------------------------
(* What a recorded event adds to a count of them.                          *)

(* The elements of a sequence that are of a set, and their number.         *)
PlacesIn(s, A) == {n \in DOMAIN s : s[n] \in A}
CountIn(s, A) == Cardinality(PlacesIn(s, A))

LEMMA PlacesTyped ==
  ASSUME NEW S, NEW s \in Seq(S), NEW A
  PROVE  /\ PlacesIn(s, A) \subseteq 1 .. Len(s) /\ IsFiniteSet(PlacesIn(s, A))
         /\ CountIn(s, A) \in Nat
  <1>1. DOMAIN s = 1 .. Len(s) /\ Len(s) \in Nat
    OBVIOUS
  <1>2. IsFiniteSet(1 .. Len(s)) /\ PlacesIn(s, A) \subseteq 1 .. Len(s)
    BY <1>1, FS_Interval DEF PlacesIn
  <1>3. QED BY <1>2, FS_Subset, FS_CardinalityType DEF CountIn

LEMMA CountAppend ==
  ASSUME NEW S, NEW s \in Seq(S), NEW e \in S, NEW A
  PROVE  /\ PlacesIn(Append(s, e), A)
               = IF e \in A THEN PlacesIn(s, A) \union {Len(s) + 1} ELSE PlacesIn(s, A)
         /\ CountIn(Append(s, e), A) = CountIn(s, A) + (IF e \in A THEN 1 ELSE 0)
  <1>1. DOMAIN s = 1 .. Len(s) /\ Len(s) \in Nat
    OBVIOUS
  <1>2. /\ Append(s, e)[Len(s) + 1] = e /\ DOMAIN Append(s, e) = 1 .. Len(s) + 1
        /\ \A n \in 1 .. Len(s) : Append(s, e)[n] = s[n]
    OBVIOUS
  <1>3. PlacesIn(Append(s, e), A)
          = IF e \in A THEN PlacesIn(s, A) \union {Len(s) + 1} ELSE PlacesIn(s, A)
    <2>1. 1 .. Len(s) + 1 = (1 .. Len(s)) \union {Len(s) + 1}
      BY <1>1
    <2>2. QED BY <1>1, <1>2, <2>1 DEF PlacesIn
  <1>4. Len(s) + 1 \notin PlacesIn(s, A)
    BY <1>1 DEF PlacesIn
  <1>5. CountIn(s, A) \in Nat /\ IsFiniteSet(PlacesIn(s, A))
    BY PlacesTyped
  <1>6. Cardinality(PlacesIn(s, A) \union {Len(s) + 1}) = CountIn(s, A) + 1
    BY <1>4, <1>5, FS_AddElement DEF CountIn
  <1>7. QED BY <1>3, <1>5, <1>6 DEF CountIn
-----------------------------------------------------------------------------
(* The counters.                                                           *)

(* The records of operation k, as CountAppend counts them.                 *)
OfCode(k) == {e \in Event : CodeOf(e.operation) = k}
Recorded(k) == {n \in DOMAIN recorded : CodeOf(recorded[n].operation) = k}

LEMMA RecordedIsOfCode ==
  ASSUME NEW s \in Seq(Event), NEW k
  PROVE  PlacesIn(s, OfCode(k))
           = {n \in DOMAIN s : CodeOf(s[n].operation) = k}
  <1>1. \A n \in DOMAIN s : s[n] \in Event
    OBVIOUS
  <1>2. QED BY <1>1 DEF OfCode, PlacesIn

LEMMA PushTracks ==
  ASSUME TypeOK, BatchInv, CountersTrack, pushRear
  PROVE  CountersTrack'
  <1>1. /\ main = "push" /\ main' = "send" /\ recorded' = Append(recorded, Current)
        /\ counters' = counters /\ sent' = sent
    BY DEF pushRear
  <1>2. Current \in Event /\ recorded \in Seq(Event)
    BY <1>1, CurrentTyped DEF Handling, TypeOK
  <1>3. PICK e \in Event : e = Current
    BY <1>2
  <1>4. ASSUME NEW k \in Codes
        PROVE  counters'[k] = Cardinality({n \in DOMAIN recorded' :
                                             CodeOf(recorded'[n].operation) = k})
    <2>1. counters[k] = Cardinality(Recorded(k)) + (IF CodeOf(e.operation) = k THEN 1 ELSE 0)
      BY <1>1, <1>3 DEF CountersTrack, Recorded
    <2>2. Append(recorded, e) \in Seq(Event)
      BY <1>2, AppendTyped
    <2>3. CountIn(Append(recorded, e), OfCode(k))
            = CountIn(recorded, OfCode(k)) + (IF e \in OfCode(k) THEN 1 ELSE 0)
      BY <1>2, CountAppend
    <2>4. e \in OfCode(k) <=> CodeOf(e.operation) = k
      BY DEF OfCode
    <2>5. Cardinality({n \in DOMAIN Append(recorded, e) :
                         CodeOf(Append(recorded, e)[n].operation) = k})
            = Cardinality(Recorded(k)) + (IF CodeOf(e.operation) = k THEN 1 ELSE 0)
      BY <1>2, <2>2, <2>3, <2>4, RecordedIsOfCode DEF Recorded, CountIn
    <2>6. QED BY <1>1, <1>3, <2>1, <2>5
  <1>5. /\ \A k \in Codes : counters[k] \in Nat
        /\ \A k \in Codes : Cardinality({n \in DOMAIN recorded' :
                                 CodeOf(recorded'[n].operation) = k}) \in Nat
    BY <1>1, <1>4 DEF TypeOK
  <1>6. sent' = Len(recorded') - 1
    <2>1. sent = Len(recorded) - 0 /\ Len(recorded) \in Nat
      BY <1>1, <1>2 DEF CountersTrack
    <2>2. Len(recorded') = Len(recorded) + 1
      BY <1>1, <1>2, <1>3, AppendTyped
    <2>3. QED BY <1>1, <2>1, <2>2
  <1>7. QED BY <1>1, <1>4, <1>5, <1>6 DEF CountersTrack

LEMMA CountTracks ==
  ASSUME TypeOK, BatchInv, CountersTrack, increment_counter
  PROVE  CountersTrack'
  <1>1. /\ main = "count" /\ main' = "push" /\ recorded' = recorded
        /\ Current' = Current /\ sent' = sent
    BY DEF increment_counter, ringVars, Current
  <1>2. ASSUME NEW k \in Codes
        PROVE  counters'[k] = counters[k] + (IF CodeOf(Current.operation) = k THEN 1 ELSE 0)
    <2>1. counters \in [Codes -> Nat]
      BY DEF TypeOK
    <2>2. counters' = IF CodeOf(Current.operation) \in Codes
                      THEN [counters EXCEPT ![CodeOf(Current.operation)] = @ + 1]
                      ELSE counters
      BY DEF increment_counter
    <2>3. QED BY <2>1, <2>2
  <1>3. ASSUME NEW k \in Codes
        PROVE  counters[k] \in Nat /\ counters[k] = Cardinality(Recorded(k)) + 0
    BY <1>1 DEF CountersTrack, Recorded, TypeOK
  <1>4. ASSUME NEW k \in Codes
        PROVE  Cardinality(Recorded(k)) \in Nat
    <2>1. recorded \in Seq(Event)
      BY DEF TypeOK
    <2>2. Recorded(k) = PlacesIn(recorded, OfCode(k))
      BY <2>1, RecordedIsOfCode DEF Recorded
    <2>3. QED BY <2>1, <2>2, PlacesTyped DEF CountIn
  <1>5. ASSUME NEW k \in Codes
        PROVE  counters'[k] = Cardinality({n \in DOMAIN recorded' :
                                             CodeOf(recorded'[n].operation) = k})
                 + (IF main' = "push" /\ CodeOf(Current'.operation) = k THEN 1 ELSE 0)
    <2>1. counters[k] = Cardinality(Recorded(k))
      BY <1>3, <1>4
    <2>2. QED BY <1>1, <1>2, <2>1 DEF Recorded
  <1>6. sent' = Len(recorded') - (IF main' = "send" THEN 1 ELSE 0)
    BY <1>1 DEF CountersTrack
  <1>7. QED BY <1>5, <1>6 DEF CountersTrack

(* The counters agree with the recorded events, and with the events sent,  *)
(* at every moment and not only when handle_event() has returned.          *)
THEOREM CountersAgree == Spec => []CountersTrack
  <1>1. Init => CountersTrack
    <2> SUFFICES ASSUME Init PROVE CountersTrack
      OBVIOUS
    <2>1. /\ recorded = <<>> /\ sent = 0 /\ main = "test"
          /\ \A k \in Codes : counters[k] = 0
      BY DEF Init
    <2>2. DOMAIN recorded = {} /\ Len(recorded) = 0
      BY <2>1
    <2>3. \A k : {n \in DOMAIN recorded : CodeOf(recorded[n].operation) = k} = {}
      BY <2>2
    <2>4. QED BY <2>1, <2>2, <2>3, FS_EmptySet DEF CountersTrack
  <1>2. TypeOK /\ BatchInv /\ CountersTrack /\ [Next]_vars => CountersTrack'
    <2> SUFFICES ASSUME TypeOK, BatchInv, CountersTrack, [Next]_vars
                 PROVE  CountersTrack'
      OBVIOUS
    <2>1. ASSUME NEW t \in Tasks, OutputEvent(t)
          PROVE  CountersTrack'
      <3>1. UNCHANGED <<loopVars, handleVars>>
        BY <2>1 DEF OutputEvent
      <3>2. main = "push" => Current' = Current
        <4>1. ring \in [CPUs -> Seq(Event)] /\ cpu' = cpu /\ done' = done
          BY <3>1 DEF TypeOK, loopVars
        <4>2. PICK e \in Event, c \in CPUs :
                 ring' = ring \/ ring' = [ring EXCEPT ![c] = Append(ring[c], e)]
          BY <2>1, OutputTyped DEF TypeOK, OutputEvent, submit_event, At, Output, ringVars
        <4>3. SUFFICES ASSUME main = "push" PROVE ring'[cpu][done + 1] = ring[cpu][done + 1]
          BY <4>1 DEF Current
        <4>4. done + 1 \in 1 .. Len(ring[cpu]) /\ cpu \in CPUs
          BY <4>3, CurrentTyped DEF Handling
        <4>5. PICK r \in Seq(Event) : r = ring[cpu]
          BY <4>1, <4>4
        <4>6. Append(r, e)[done + 1] = r[done + 1]
          BY <4>4, <4>5
        <4>7. ring'[cpu] = r \/ ring'[cpu] = Append(r, e)
          BY <4>1, <4>2, <4>4, <4>5
        <4>8. QED BY <4>5, <4>6, <4>7
      <3>3. QED BY <3>1, <3>2 DEF CountersTrack, loopVars, handleVars
    <2>2. CASE increment_counter
      BY <2>2, CountTracks
    <2>3. CASE pushRear
      BY <2>3, PushTracks
    <2>4. CASE producer
      <3>1. /\ main = "send" /\ sent' = sent + 1 /\ recorded' = recorded /\ counters' = counters
            /\ main' \in {"count", "process"}
        BY <2>4 DEF producer, Send
      <3>2. Len(recorded) \in Nat /\ sent \in Nat
        BY DEF TypeOK
      <3>3. sent' = Len(recorded')
        BY <3>1, <3>2 DEF CountersTrack
      <3>4. sent' = Len(recorded') - (IF main' = "send" THEN 1 ELSE 0)
        BY <3>1, <3>2, <3>3
      <3>5. QED BY <3>1, <3>4 DEF CountersTrack
    <2>5. CASE /\ UNCHANGED handleVars
               /\ main' # "push" /\ main # "push"
               /\ main' # "send" /\ main # "send"
      BY <2>5 DEF CountersTrack, handleVars
    <2>6. CASE UNCHANGED <<ring, loopVars, handleVars>>
      BY <2>6 DEF CountersTrack, handleVars, loopVars, Current
    <2>7. QED
      <3>1. CASE RunHook \/ dispatcher_receives \/ dispatcher_dies \/ UNCHANGED vars
        BY <2>6, <3>1 DEF RunHook, dispatcher_receives, dispatcher_dies, vars, ringVars
      <3>2. CASE sig_int
        BY <3>2 DEF sig_int, CountersTrack, ringVars, handleVars, Current
      <3>3. CASE run_main_loop \/ poll \/ process_records
        BY <2>5, <3>3 DEF run_main_loop, poll, process_records
      <3>4. QED BY <2>1, <2>2, <2>3, <2>4, <3>1, <3>2, <3>3 DEF Next, MainStep
  <1>3. QED BY <1>1, <1>2, TypedAndBatched, PTL DEF Spec
-----------------------------------------------------------------------------
(* The order of the events of a CPU.                                       *)

(* The end of s behind its first b elements is r.                          *)
EndsIn(s, r, b) ==
  /\ b \in Nat /\ Len(s) = b + Len(r)
  /\ \A j \in 1 .. Len(r) : r[j] = s[b + j]

LEMMA EndsInAppend ==
  ASSUME NEW S, NEW s \in Seq(S), NEW r \in Seq(S), NEW b, EndsIn(s, r, b), NEW e \in S
  PROVE  EndsIn(Append(s, e), Append(r, e), b)
  <1>1. /\ b \in Nat /\ Len(s) = b + Len(r) /\ Len(r) \in Nat
        /\ Len(Append(s, e)) = Len(s) + 1 /\ Len(Append(r, e)) = Len(r) + 1
    BY DEF EndsIn
  <1>2. ASSUME NEW j \in 1 .. Len(r) + 1
        PROVE  Append(r, e)[j] = Append(s, e)[b + j]
    <2>1. CASE j = Len(r) + 1
      <3>1. b + j = Len(s) + 1
        BY <1>1, <2>1
      <3>2. Append(r, e)[Len(r) + 1] = e /\ Append(s, e)[Len(s) + 1] = e
        OBVIOUS
      <3>3. QED BY <2>1, <3>1, <3>2
    <2>2. CASE j # Len(r) + 1
      <3>1. j \in 1 .. Len(r) /\ b + j \in 1 .. Len(s)
        BY <1>1, <2>2
      <3>2. Append(r, e)[j] = r[j] /\ Append(s, e)[b + j] = s[b + j]
        BY <3>1
      <3>3. QED BY <3>1, <3>2 DEF EndsIn
    <2>3. QED BY <2>1, <2>2
  <1>3. QED BY <1>1, <1>2 DEF EndsIn

LEMMA SubSeqAt ==
  ASSUME NEW S, NEW s \in Seq(S), NEW m \in Nat, m <= Len(s)
  PROVE  /\ SubSeq(s, m + 1, Len(s)) \in Seq(S)
         /\ Len(SubSeq(s, m + 1, Len(s))) = Len(s) - m
         /\ \A j \in 1 .. Len(s) - m : SubSeq(s, m + 1, Len(s))[j] = s[m + j]
  <1>1. PICK k \in Nat : k = Len(s)
    OBVIOUS
  <1>2. \A i \in m + 1 .. k : s[i] \in S
    BY <1>1
  <1>3. SubSeq(s, m + 1, k) = [i \in 1 .. k - m |-> s[i + m]]
    <2>1. 1 + k - (m + 1) = k - m
      BY <1>1
    <2>2. SubSeq(s, m + 1, k) = [i \in 1 .. (1 + k - (m + 1)) |-> s[i + (m + 1) - 1]]
      OBVIOUS
    <2>3. \A i \in 1 .. k - m : i + (m + 1) - 1 = i + m
      OBVIOUS
    <2>4. QED BY <2>1, <2>2, <2>3
  <1>4. QED BY <1>1, <1>2, <1>3

LEMMA EndsInSubSeq ==
  ASSUME NEW S, NEW s \in Seq(S), NEW r \in Seq(S), NEW b, EndsIn(s, r, b),
         NEW n \in Nat, n <= Len(r)
  PROVE  /\ EndsIn(s, SubSeq(r, n + 1, Len(r)), b + n)
         /\ SubSeq(r, n + 1, Len(r)) = SubSeq(s, b + n + 1, Len(s))
  <1>1. /\ b \in Nat /\ Len(s) = b + Len(r) /\ Len(r) \in Nat /\ Len(s) \in Nat
        /\ \A j \in 1 .. Len(r) : r[j] = s[b + j]
    BY DEF EndsIn
  <1> DEFINE q == SubSeq(r, n + 1, Len(r))
             p == SubSeq(s, b + n + 1, Len(s))
  <1>2. q \in Seq(S) /\ Len(q) = Len(r) - n /\ \A j \in 1 .. Len(r) - n : q[j] = r[n + j]
    BY SubSeqAt
  <1>3. /\ p \in Seq(S) /\ Len(p) = Len(s) - (b + n)
        /\ \A j \in 1 .. Len(s) - (b + n) : p[j] = s[b + n + j]
    <2>1. b + n \in Nat /\ b + n <= Len(s)
      BY <1>1
    <2>2. PICK m \in Nat : m = b + n
      BY <2>1
    <2>3. /\ SubSeq(s, m + 1, Len(s)) \in Seq(S)
          /\ Len(SubSeq(s, m + 1, Len(s))) = Len(s) - m
          /\ \A j \in 1 .. Len(s) - m : SubSeq(s, m + 1, Len(s))[j] = s[m + j]
      BY <2>1, <2>2, SubSeqAt
    <2>4. QED BY <2>2, <2>3
  <1> HIDE DEF p, q
  <1>4. ASSUME NEW j \in 1 .. Len(r) - n
        PROVE  q[j] = s[b + n + j] /\ p[j] = q[j]
    <2>1. n + j \in 1 .. Len(r) /\ b + (n + j) = b + n + j
      BY <1>1
    <2>2. j \in 1 .. Len(s) - (b + n)
      BY <1>1
    <2>3. QED BY <1>1, <1>2, <1>3, <2>1, <2>2
  <1>5. Len(q) = Len(p) /\ b + n \in Nat /\ Len(s) = b + n + Len(q)
    BY <1>1, <1>2, <1>3
  <1>6. EndsIn(s, q, b + n)
    BY <1>2, <1>4, <1>5 DEF EndsIn
  <1>7. q = p
    <2>1. Len(q) = Len(p) /\ \A j \in 1 .. Len(q) : q[j] = p[j]
      BY <1>2, <1>4, <1>5
    <2>2. q \in Seq(S) /\ p \in Seq(S)
      BY <1>2, <1>3
    <2>3. QED BY <2>1, <2>2, SMTT(30)
  <1>8. QED BY <1>6, <1>7 DEF p, q

(* Count(c) events of the CPU are recorded, Skip(c) of them still in its   *)
(* ring: what the ring holds is the end of all it was given.               *)
OfCpu(c) == {e \in Event : e.cpu = c}
Count(c) == CountIn(recorded, OfCpu(c))
Skip(c) ==
  IF c # cpu \/ main \notin Handling THEN 0 ELSE IF main = "send" THEN done + 1 ELSE done

RingInv ==
  \A c \in CPUs : Skip(c) <= Count(c) /\ EndsIn(kept[c], ring[c], Count(c) - Skip(c))

Placed ==
  \A n \in DOMAIN recorded :
    LET c == recorded[n].cpu
    IN  Place(n) \in 1 .. Len(kept[c]) /\ recorded[n] = kept[c][Place(n)]

(* A recorded event is of the CPU whose ring it was read from.             *)
RingsOwn == \A c \in CPUs : \A j \in 1 .. Len(ring[c]) : ring[c][j].cpu = c

OrderInv == RingInv /\ Placed /\ RingsOwn

LEMMA PlaceInPrefix ==
  ASSUME NEW s \in Seq(Event), NEW e \in Event, NEW c, NEW n \in 1 .. Len(s)
  PROVE  {m \in PlacesIn(Append(s, e), OfCpu(c)) : m <= n}
           = {m \in PlacesIn(s, OfCpu(c)) : m <= n}
  <1>1. /\ Len(s) \in Nat /\ ~ (Len(s) + 1 <= n)
        /\ PlacesIn(Append(s, e), OfCpu(c)) =
             IF e \in OfCpu(c) THEN PlacesIn(s, OfCpu(c)) \union {Len(s) + 1}
             ELSE PlacesIn(s, OfCpu(c))
    BY CountAppend
  <1>2. QED BY <1>1

(* The definitions of the model, as these lemmas count.                    *)
LEMMA PlacesOfCpu ==
  ASSUME TypeOK
  PROVE  /\ \A c : RecordedOf(c) = PlacesIn(recorded, OfCpu(c))
         /\ \A n \in DOMAIN recorded :
              Place(n) = Cardinality({m \in PlacesIn(recorded, OfCpu(recorded[n].cpu)) : m <= n})
         /\ \A c : Count(c) \in Nat
  <1>1. recorded \in Seq(Event) /\ \A n \in DOMAIN recorded : recorded[n] \in Event
    BY DEF TypeOK
  <1>2. ASSUME NEW c
        PROVE  RecordedOf(c) = PlacesIn(recorded, OfCpu(c)) /\ Count(c) \in Nat
    BY <1>1, PlacesTyped DEF RecordedOf, PlacesIn, OfCpu, Count
  <1>3. QED BY <1>2 DEF Place

(* What was recorded keeps its place; a new event takes the next.          *)
LEMMA PushPlaces ==
  ASSUME TypeOK, BatchInv, OrderInv, TypeOK', pushRear
  PROVE  OrderInv'
  <1> DEFINE k(c) == CountIn(recorded, OfCpu(c))
             last == Len(recorded) + 1
  <1>1. /\ main = "push" /\ main' = "send" /\ recorded' = Append(recorded, Current)
        /\ kept' = kept /\ ring' = ring /\ cpu' = cpu /\ done' = done
    BY DEF pushRear, ringVars
  <1>2. Current \in Event /\ recorded \in Seq(Event) /\ cpu \in CPUs
        /\ done + 1 \in 1 .. Len(ring[cpu]) /\ done \in Nat
    BY <1>1, CurrentTyped DEF Handling, TypeOK
  <1>3. PICK e \in Event : e = Current
    BY <1>2
  <1>4. /\ EndsIn(kept[cpu], ring[cpu], Count(cpu) - done) /\ done <= Count(cpu)
        /\ Count(cpu) \in Nat
    <2>1. Skip(cpu) = done
      BY <1>1 DEF Skip, Handling
    <2>2. QED BY <1>2, <2>1, PlacesOfCpu DEF OrderInv, RingInv
  <1>5. e.cpu = cpu /\ Count(cpu) + 1 \in 1 .. Len(kept[cpu]) /\ e = kept[cpu][Count(cpu) + 1]
    <2>1. e = ring[cpu][done + 1]
      BY <1>3 DEF Current
    <2>2. e.cpu = cpu
      BY <1>2, <2>1 DEF OrderInv, RingsOwn
    <2>3. /\ ring[cpu][done + 1] = kept[cpu][Count(cpu) - done + (done + 1)]
          /\ Len(kept[cpu]) = Count(cpu) - done + Len(ring[cpu])
      BY <1>2, <1>4 DEF EndsIn
    <2>4. Count(cpu) - done + (done + 1) = Count(cpu) + 1
      BY <1>2, <1>4
    <2>5. ring[cpu] \in Seq(Event) /\ Len(ring[cpu]) \in Nat
      BY <1>2 DEF TypeOK
    <2>6. Count(cpu) + 1 \in 1 .. Len(kept[cpu])
      BY <1>2, <1>4, <2>3, <2>5
    <2>7. QED BY <2>1, <2>2, <2>3, <2>4, <2>6
  <1>6. ASSUME NEW c
        PROVE  Count(c)' = Count(c) + (IF c = cpu THEN 1 ELSE 0)
    <2>1. e \in OfCpu(c) <=> c = cpu
      BY <1>5 DEF OfCpu
    <2>2. CountIn(Append(recorded, e), OfCpu(c))
            = CountIn(recorded, OfCpu(c)) + (IF e \in OfCpu(c) THEN 1 ELSE 0)
      BY <1>2, CountAppend
    <2>3. Count(c)' = CountIn(Append(recorded, e), OfCpu(c))
      BY <1>1, <1>3 DEF Count
    <2>4. QED BY <2>1, <2>2, <2>3 DEF Count
  <1>7. RingInv'
    <2> SUFFICES ASSUME NEW c \in CPUs
                 PROVE  Skip(c)' <= Count(c)' /\ EndsIn(kept[c], ring[c], Count(c)' - Skip(c)')
      BY <1>1 DEF RingInv
    <2>1. Count(c) \in Nat
      BY PlacesOfCpu
    <2>2. CASE c = cpu
      <3>1. Skip(c)' = done + 1 /\ Count(c)' = Count(c) + 1
        BY <1>1, <1>6, <2>2 DEF Skip, Handling
      <3>2. Count(c)' - Skip(c)' = Count(c) - done /\ Skip(c)' <= Count(c)'
        BY <1>2, <1>4, <2>1, <2>2, <3>1
      <3>3. QED BY <1>4, <2>2, <3>2
    <2>3. CASE c # cpu
      <3>1. Skip(c)' = 0 /\ Skip(c) = 0 /\ Count(c)' = Count(c)
        BY <1>1, <1>6, <2>1, <2>3 DEF Skip
      <3>2. EndsIn(kept[c], ring[c], Count(c) - 0)
        BY <3>1 DEF OrderInv, RingInv
      <3>3. QED BY <2>1, <3>1, <3>2
    <2>4. QED BY <2>2, <2>3
  <1>8. Placed'
    <2> SUFFICES ASSUME NEW n \in DOMAIN recorded'
                 PROVE  LET c == recorded'[n].cpu
                        IN  Place(n)' \in 1 .. Len(kept[c]) /\ recorded'[n] = kept[c][Place(n)']
      BY <1>1 DEF Placed
    <2>1. /\ DOMAIN recorded = 1 .. Len(recorded) /\ Len(recorded) \in Nat
          /\ DOMAIN recorded' = 1 .. Len(recorded) + 1
          /\ recorded'[Len(recorded) + 1] = e
          /\ \A m \in 1 .. Len(recorded) : recorded'[m] = recorded[m]
      BY <1>1, <1>2, <1>3
    <2>2. Place(n)' = Cardinality({m \in PlacesIn(recorded', OfCpu(recorded'[n].cpu)) : m <= n})
      <3>1. \A m \in DOMAIN recorded' : recorded'[m] \in Event
        <4>1. \A m \in 1 .. Len(recorded) : recorded[m] \in Event
          BY <1>2
        <4>2. QED BY <2>1, <4>1
      <3>2. {m \in DOMAIN recorded' : recorded'[m].cpu = recorded'[n].cpu}
              = PlacesIn(recorded', OfCpu(recorded'[n].cpu))
        BY <3>1 DEF PlacesIn, OfCpu
      <3>3. QED BY <3>2 DEF Place, RecordedOf
    <2>3. CASE n \in 1 .. Len(recorded)
      <3>1. recorded'[n] = recorded[n] /\ n \in DOMAIN recorded
        BY <2>1, <2>3
      <3>2. Place(n)' = Place(n)
        BY <1>1, <1>2, <1>3, <2>2, <2>3, <3>1, PlaceInPrefix, PlacesOfCpu
      <3>3. QED BY <3>1, <3>2 DEF OrderInv, Placed
    <2>4. CASE n = Len(recorded) + 1
      <3>1. recorded'[n] = e /\ recorded'[n].cpu = cpu
        BY <1>5, <2>1, <2>4
      <3>2. {m \in PlacesIn(recorded', OfCpu(cpu)) : m <= n} = PlacesIn(recorded', OfCpu(cpu))
        <4>1. \A m \in PlacesIn(recorded', OfCpu(cpu)) : m \in 1 .. Len(recorded) + 1
          BY <2>1 DEF PlacesIn
        <4>2. QED BY <2>1, <2>4, <4>1
      <3>3. Place(n)' = CountIn(recorded', OfCpu(cpu))
        BY <2>2, <3>1, <3>2 DEF CountIn
      <3>4. PICK c \in CPUs : c = cpu
        BY <1>2
      <3>5. Count(c)' = Count(c) + 1 /\ Count(c)' = CountIn(recorded', OfCpu(c))
        BY <1>6, <3>4 DEF Count
      <3>6. QED BY <1>5, <3>1, <3>3, <3>4, <3>5
    <2>5. QED BY <2>1, <2>3, <2>4
  <1>9. QED BY <1>1, <1>7, <1>8 DEF OrderInv, RingsOwn

(* What a hook outputs is last, in its ring and of all it was given.       *)
LEMMA OutputOrdered ==
  ASSUME TypeOK, OrderInv, NEW t \in Tasks, OutputEvent(t)
  PROVE  OrderInv'
  <1>1. UNCHANGED <<loopVars, handleVars>>
    BY DEF OutputEvent
  <1>2. /\ cpu' = cpu /\ main' = main /\ done' = done /\ recorded' = recorded
        /\ \A c : Skip(c)' = Skip(c) /\ Count(c)' = Count(c)
        /\ \A n : Place(n)' = Place(n)
    BY <1>1 DEF loopVars, handleVars, Skip, Count, Place, RecordedOf
  <1>3. ring \in [CPUs -> Seq(Event)] /\ kept \in [CPUs -> Seq(Event)]
    BY DEF TypeOK
  <1>4. CASE ring' = ring /\ kept' = kept
    BY <1>2, <1>4 DEF OrderInv, RingInv, Placed, RingsOwn
  <1>5. ASSUME NEW e \in Event, NEW d \in CPUs, e.cpu = d,
               ring' = [ring EXCEPT ![d] = Append(ring[d], e)],
               kept' = [kept EXCEPT ![d] = Append(kept[d], e)]
        PROVE  OrderInv'
    <2>1. /\ ring'[d] = Append(ring[d], e) /\ kept'[d] = Append(kept[d], e)
          /\ \A c \in CPUs : c # d => ring'[c] = ring[c] /\ kept'[c] = kept[c]
      BY <1>3, <1>5
    <2>2. ring[d] \in Seq(Event) /\ kept[d] \in Seq(Event)
      BY <1>3
    <2>3. RingInv'
      <3>1. ASSUME NEW c \in CPUs
            PROVE  EndsIn(kept'[c], ring'[c], Count(c) - Skip(c)) /\ Skip(c) <= Count(c)
        <4>1. EndsIn(kept[c], ring[c], Count(c) - Skip(c)) /\ Skip(c) <= Count(c)
          BY DEF OrderInv, RingInv
        <4>2. QED BY <2>1, <2>2, <4>1, EndsInAppend
      <3>2. QED BY <1>2, <3>1 DEF RingInv
    <2>4. Placed'
      <3>1. ASSUME NEW n \in DOMAIN recorded
            PROVE  LET c == recorded[n].cpu
                   IN  Place(n) \in 1 .. Len(kept'[c]) /\ recorded[n] = kept'[c][Place(n)]
        <4>1. recorded[n] \in Event /\ recorded[n].cpu \in CPUs
          <5>1. recorded[n] \in Event
            BY DEF TypeOK
          <5>2. QED BY <5>1 DEF Event
        <4>2. PICK c \in CPUs : c = recorded[n].cpu
          BY <4>1
        <4>3. Place(n) \in 1 .. Len(kept[c]) /\ recorded[n] = kept[c][Place(n)]
          BY <4>2 DEF OrderInv, Placed
        <4>4. CASE c = d
          <5>1. /\ Len(Append(kept[d], e)) = Len(kept[d]) + 1 /\ Len(kept[d]) \in Nat
                /\ \A m \in 1 .. Len(kept[d]) : Append(kept[d], e)[m] = kept[d][m]
            BY <2>2
          <5>2. QED BY <2>1, <4>2, <4>3, <4>4, <5>1
        <4>5. CASE c # d
          BY <2>1, <4>2, <4>3, <4>5
        <4>6. QED BY <4>4, <4>5
      <3>2. QED BY <1>2, <3>1 DEF Placed
    <2>5. RingsOwn'
      <3>1. ASSUME NEW j \in 1 .. Len(Append(ring[d], e))
            PROVE  Append(ring[d], e)[j].cpu = d
        <4>1. j \in 1 .. Len(ring[d]) \/ j = Len(ring[d]) + 1
          BY <2>2
        <4>2. j \in 1 .. Len(ring[d]) => Append(ring[d], e)[j] = ring[d][j]
          BY <2>2
        <4>3. Append(ring[d], e)[Len(ring[d]) + 1] = e
          BY <2>2
        <4>4. QED BY <1>5, <4>1, <4>2, <4>3 DEF OrderInv, RingsOwn
      <3>2. QED BY <2>1, <3>1 DEF OrderInv, RingsOwn
    <2>6. QED BY <2>3, <2>4, <2>5 DEF OrderInv
  <1>6. QED
    <2> DEFINE e == EventOf(hook[t])
    <2>1. e \in Event /\ e.cpu \in CPUs
      BY OutputTyped DEF TypeOK, OutputEvent, submit_event, At
    <2>2. \/ ring' = ring /\ kept' = kept
          \/ /\ ring' = [ring EXCEPT ![e.cpu] = Append(ring[e.cpu], e)]
             /\ kept' = [kept EXCEPT ![e.cpu] = Append(kept[e.cpu], e)]
      BY <1>3, <2>1 DEF OutputEvent, Output, ringVars
    <2> HIDE DEF e
    <2>3. QED BY <1>4, <1>5, <2>1, <2>2

(* Making room in a ring takes away what is recorded and nothing else.     *)
LEMMA ProducerOrdered ==
  ASSUME TypeOK, BatchInv, OrderInv, producer
  PROVE  OrderInv'
  <1>1. /\ main = "send" /\ done' = done + 1 /\ cpu' = cpu /\ kept' = kept
        /\ recorded' = recorded /\ batch <= Len(ring[cpu]) /\ done < batch
        /\ batch \in Nat /\ done \in Nat /\ cpu \in CPUs
    BY DEF producer, BatchInv, Handling, TypeOK
  <1>2. /\ ring \in [CPUs -> Seq(Event)] /\ ring[cpu] \in Seq(Event)
        /\ kept[cpu] \in Seq(Event) /\ Len(ring[cpu]) \in Nat
    BY <1>1 DEF TypeOK
  <1>3. (\A c : Count(c)' = Count(c) /\ Count(c) \in Nat) /\ Placed'
    <2>1. \A c : Count(c)' = Count(c)
      BY <1>1 DEF Count
    <2>2. \A c : Count(c) \in Nat
      BY PlacesOfCpu
    <2>3. \A n : Place(n)' = Place(n)
      BY <1>1 DEF Place, RecordedOf
    <2>4. Placed'
      BY <1>1, <2>3 DEF OrderInv, Placed
    <2>5. QED BY <2>1, <2>2, <2>4
  <1>4. \A c \in CPUs : c # cpu => Skip(c) = 0 /\ Skip(c)' = 0
    BY <1>1 DEF Skip
  <1>5. Skip(cpu) = done + 1
    BY <1>1 DEF Skip, Handling
  <1>6. CASE done + 1 < batch
    <2>1. main' = "count" /\ ring' = ring
      BY <1>6 DEF producer
    <2>2. \A c \in CPUs : c = cpu => Skip(c)' = done + 1
      BY <1>1, <2>1 DEF Skip, Handling
    <2>3. \A c \in CPUs : Skip(c)' = Skip(c)
      BY <1>4, <1>5, <2>2
    <2>4. QED BY <1>1, <1>3, <2>1, <2>3 DEF OrderInv, RingInv, RingsOwn
  <1>7. CASE ~ (done + 1 < batch)
    <2>1. /\ main' = "process" /\ batch = done + 1
          /\ ring' = [ring EXCEPT ![cpu] = SubSeq(ring[cpu], batch + 1, Len(ring[cpu]))]
      BY <1>1, <1>2, <1>7 DEF producer
    <2>2. \A c \in CPUs : Skip(c)' = 0
      BY <2>1 DEF Skip, Handling
    <2>3. /\ ring'[cpu] = SubSeq(ring[cpu], batch + 1, Len(ring[cpu]))
          /\ \A c \in CPUs : c # cpu => ring'[c] = ring[c]
      BY <1>1, <1>2, <2>1
    <2>4. EndsIn(kept[cpu], ring'[cpu], Count(cpu) - 0) /\ 0 <= Count(cpu)
      <3>1. EndsIn(kept[cpu], ring[cpu], Count(cpu) - batch) /\ batch <= Count(cpu)
        BY <1>1, <1>5, <2>1 DEF OrderInv, RingInv
      <3>2. PICK b \in Nat : b = Count(cpu) - batch
        BY <3>1 DEF EndsIn
      <3>3. EndsIn(kept[cpu], SubSeq(ring[cpu], batch + 1, Len(ring[cpu])), b + batch)
        BY <1>1, <1>2, <3>1, <3>2, EndsInSubSeq
      <3>4. b + batch = Count(cpu) - 0 /\ 0 <= Count(cpu)
        BY <1>1, <1>3, <3>2
      <3>5. QED BY <2>3, <3>3, <3>4
    <2>5. RingInv'
      <3>1. ASSUME NEW c \in CPUs, c # cpu
            PROVE  EndsIn(kept[c], ring'[c], Count(c) - 0) /\ 0 <= Count(c)
        BY <1>4, <2>3, <3>1 DEF OrderInv, RingInv
      <3>2. QED BY <1>1, <1>3, <2>2, <2>4, <3>1 DEF RingInv
    <2>6. RingsOwn'
      <3>1. ASSUME NEW j \in 1 .. Len(ring'[cpu])
            PROVE  ring'[cpu][j].cpu = cpu
        <4>1. /\ Len(ring'[cpu]) = Len(ring[cpu]) - batch
              /\ \A i \in 1 .. Len(ring[cpu]) - batch : ring'[cpu][i] = ring[cpu][batch + i]
          BY <1>1, <1>2, <2>3
        <4>2. batch + j \in 1 .. Len(ring[cpu])
          BY <1>1, <1>2, <4>1
        <4>3. ring[cpu][batch + j].cpu = cpu
          BY <1>1, <4>2 DEF OrderInv, RingsOwn
        <4>4. j \in 1 .. Len(ring[cpu]) - batch
          BY <4>1
        <4>5. QED BY <4>1, <4>3, <4>4
      <3>2. QED BY <1>1, <2>3, <3>1 DEF OrderInv, RingsOwn
    <2>7. QED BY <1>3, <2>5, <2>6 DEF OrderInv
  <1>8. QED BY <1>6, <1>7

(* The other steps leave rings and records as they are, and no event of a  *)
(* batch is handled in them.                                               *)
LEMMA OrderFrame ==
  ASSUME TypeOK, OrderInv, UNCHANGED <<ring, kept, recorded>>,
         \A c \in CPUs : Skip(c)' = Skip(c)
  PROVE  OrderInv'
  <1>1. RingInv'
    BY DEF OrderInv, RingInv, Count
  <1>2. Placed'
    BY DEF OrderInv, Placed, Place, RecordedOf
  <1>3. RingsOwn'
    BY DEF OrderInv, RingsOwn
  <1>4. QED BY <1>1, <1>2, <1>3 DEF OrderInv

LEMMA OrderStep ==
  ASSUME TypeOK, TypeOK', BatchInv, OrderInv, [Next]_vars
  PROVE  OrderInv'
  <1>1. ASSUME NEW t \in Tasks, OutputEvent(t)
        PROVE  OrderInv'
    BY <1>1, OutputOrdered
  <1>2. CASE pushRear
    BY <1>2, PushPlaces
  <1>3. CASE producer
    BY <1>3, ProducerOrdered
  <1>4. CASE process_records
    <2>1. main = "process" /\ UNCHANGED <<ring, kept, recorded>>
          /\ \/ main' = "test"
             \/ main' = "count" /\ done' = 0
      BY <1>4 DEF process_records, ringVars, handleVars
    <2>2. \A c \in CPUs : Skip(c)' = Skip(c)
      BY <2>1 DEF Skip, Handling
    <2>3. QED BY <2>1, <2>2, OrderFrame
  <1>5. CASE increment_counter
    <2>1. /\ main = "count" /\ main' = "push" /\ cpu' = cpu /\ done' = done
          /\ UNCHANGED <<ring, kept, recorded>>
      BY <1>5 DEF increment_counter, ringVars
    <2>2. \A c \in CPUs : Skip(c)' = Skip(c)
      BY <2>1 DEF Skip, Handling
    <2>3. QED BY <2>1, <2>2, OrderFrame
  <1>6. CASE run_main_loop \/ poll
    <2>1. UNCHANGED <<ring, kept, recorded>> /\ main \notin Handling /\ main' \notin Handling
      BY <1>6 DEF run_main_loop, poll, ringVars, handleVars, Handling
    <2>2. \A c \in CPUs : Skip(c)' = Skip(c)
      BY <2>1 DEF Skip
    <2>3. QED BY <2>1, <2>2, OrderFrame
  <1>7. CASE UNCHANGED <<ring, kept, recorded, main, cpu, done>>
    <2>1. \A c \in CPUs : Skip(c)' = Skip(c)
      BY <1>7 DEF Skip
    <2>2. QED BY <1>7, <2>1, OrderFrame
  <1>8. QED
    <2>1. CASE RunHook \/ sig_int \/ dispatcher_receives \/ dispatcher_dies \/ UNCHANGED vars
      BY <1>7, <2>1 DEF RunHook, sig_int, dispatcher_receives, dispatcher_dies, vars,
                        ringVars, loopVars, handleVars
    <2>2. QED BY <1>1, <1>2, <1>3, <1>4, <1>5, <1>6, <2>1 DEF Next, MainStep

(* What is pending of a CPU is what its ring was given and is not recorded. *)
LEMMA PendingIsRest ==
  ASSUME TypeOK, BatchInv, OrderInv
  PROVE  PerCpuOrder
  <1>1. ASSUME NEW n \in DOMAIN recorded
        PROVE  LET c == recorded[n].cpu
               IN  Place(n) <= Len(kept[c]) /\ recorded[n] = kept[c][Place(n)]
    <2>1. LET c == recorded[n].cpu
          IN  /\ Place(n) \in 1 .. Len(kept[c]) /\ recorded[n] = kept[c][Place(n)]
              /\ c \in CPUs /\ Len(kept[c]) \in Nat
      <3>1. recorded[n] \in Event
        BY DEF TypeOK
      <3>2. recorded[n].cpu \in CPUs
        BY <3>1 DEF Event
      <3>3. kept[recorded[n].cpu] \in Seq(Event)
        BY <3>2 DEF TypeOK
      <3>4. QED BY <3>2, <3>3 DEF OrderInv, Placed
    <2>2. QED BY <2>1
  <1>2. ASSUME NEW c \in CPUs
        PROVE  Pending(c) = SubSeq(kept[c], Cardinality(RecordedOf(c)) + 1, Len(kept[c]))
    <2>1. ring[c] \in Seq(Event) /\ kept[c] \in Seq(Event) /\ Len(ring[c]) \in Nat
      BY DEF TypeOK
    <2>2. /\ Skip(c) <= Count(c) /\ EndsIn(kept[c], ring[c], Count(c) - Skip(c))
          /\ Count(c) \in Nat /\ Count(c) = Cardinality(RecordedOf(c))
      BY PlacesOfCpu DEF OrderInv, RingInv, Count, CountIn
    <2>3. Skip(c) \in Nat /\ Skip(c) <= Len(ring[c])
      <3>1. CASE c = cpu /\ main \in Handling
        <4>1. done \in Nat /\ batch \in Nat /\ done < batch /\ batch <= Len(ring[cpu])
          BY <3>1 DEF TypeOK, BatchInv
        <4>2. Skip(c) = done \/ Skip(c) = done + 1
          BY <3>1 DEF Skip
        <4>3. QED BY <2>1, <3>1, <4>1, <4>2
      <3>2. CASE ~ (c = cpu /\ main \in Handling)
        BY <2>1, <3>2 DEF Skip
      <3>3. QED BY <3>1, <3>2
    <2>4. Pending(c) = SubSeq(ring[c], Skip(c) + 1, Len(ring[c]))
      <3>1. CASE c = cpu /\ main \in Handling
        <4>1. done \in Nat
          BY DEF TypeOK
        <4>2. CASE main = "send"
          <5>1. Skip(c) = done + 1 /\ Pending(c) = SubSeq(ring[c], done + 2, Len(ring[c]))
            BY <3>1, <4>2 DEF Skip, Pending, Handling
          <5>2. done + 1 + 1 = done + 2
            BY <4>1
          <5>3. QED BY <5>1, <5>2
        <4>3. CASE main # "send"
          BY <3>1, <4>3 DEF Skip, Pending, Handling
        <4>4. QED BY <4>2, <4>3
      <3>2. CASE ~ (c = cpu /\ main \in Handling)
        <4>1. Skip(c) = 0 /\ Pending(c) = ring[c]
          BY <3>2 DEF Skip, Pending, Handling
        <4>2. SubSeq(ring[c], 1, Len(ring[c])) = ring[c]
          BY <2>1
        <4>3. QED BY <4>1, <4>2
      <3>3. QED BY <3>1, <3>2
    <2>5. PICK b \in Nat : b = Count(c) - Skip(c)
      BY <2>2 DEF EndsIn
    <2>6. SubSeq(ring[c], Skip(c) + 1, Len(ring[c]))
            = SubSeq(kept[c], b + Skip(c) + 1, Len(kept[c]))
      <3>1. EndsIn(kept[c], ring[c], b)
        BY <2>2, <2>5
      <3>2. PICK m \in Nat : m = Skip(c)
        BY <2>3
      <3>3. PICK r \in Seq(Event), k \in Seq(Event) : r = ring[c] /\ k = kept[c]
        BY <2>1
      <3>4. EndsIn(k, r, b) /\ m <= Len(r)
        BY <2>3, <3>1, <3>2, <3>3
      <3>5. SubSeq(r, m + 1, Len(r)) = SubSeq(k, b + m + 1, Len(k))
        BY <3>4, EndsInSubSeq, ZenonT(30)
      <3>6. QED BY <3>2, <3>3, <3>5
    <2>7. b + Skip(c) + 1 = Count(c) + 1
      BY <2>2, <2>3, <2>5
    <2>8. QED BY <2>2, <2>4, <2>6, <2>7
  <1>3. QED BY <1>1, <1>2 DEF PerCpuOrder

(* Between a ring with room and the queue of recent events nothing of a    *)
(* CPU is lost, repeated or put out of order, for rings of any size.       *)
THEOREM NothingLostInOrder == Spec => []PerCpuOrder
  <1>1. Init => OrderInv
    <2> SUFFICES ASSUME Init PROVE OrderInv
      OBVIOUS
    <2>1. /\ recorded = <<>> /\ main = "test"
          /\ \A c \in CPUs : ring[c] = <<>> /\ kept[c] = <<>>
      BY DEF Init
    <2>2. DOMAIN recorded = {} /\ Len(<<>>) = 0
      BY <2>1
    <2>3. \A c : Count(c) = 0
      <3>1. \A c : PlacesIn(recorded, OfCpu(c)) = {}
        BY <2>2 DEF PlacesIn
      <3>2. QED BY <3>1, FS_EmptySet DEF Count, CountIn
    <2>4. \A c \in CPUs : Skip(c) = 0
      BY <2>1 DEF Skip, Handling
    <2>5. EndsIn(<<>>, <<>>, 0)
      BY <2>2 DEF EndsIn
    <2>6. QED BY <2>1, <2>2, <2>3, <2>4, <2>5 DEF OrderInv, RingInv, Placed, RingsOwn
  <1>2. TypeOK /\ BatchInv /\ OrderInv /\ [Next]_vars /\ TypeOK' => OrderInv'
    BY OrderStep
  <1>3. TypeOK /\ BatchInv /\ OrderInv => PerCpuOrder
    BY PendingIsRest
  <1>4. QED BY <1>1, <1>2, <1>3, TypedAndBatched, PTL DEF Spec
=============================================================================
