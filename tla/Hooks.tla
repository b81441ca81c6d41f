------------------------------- MODULE Hooks -------------------------------
(***************************************************************************)
(* The LSM hooks of src/file_monitor.bpf.c: each clears the scratch data_t *)
(* of its CPU, puts a file name and an operation in it and outputs it to   *)
(* the perf ring of the CPU.  file_open also remembers the name in         *)
(* inode_cache, where file_permission looks it up.                         *)
(*                                                                         *)
(* File names are reduced to where they come from: the number of the hook  *)
(* call that was given the path, 0 for an empty name.  The key of          *)
(* inode_cache is an inode number: no hook takes one out, so a file made   *)
(* after another was unlinked may have the number, and get the name, of    *)
(* the other.  Only hook calls for the watched directory are modelled, the *)
(* others return at once, and only paths that fit in the name.             *)
(*                                                                         *)
(* inode_cache is a preallocated hash map of the kernel: its elements are  *)
(* given out again while a program may still use a pointer to one.  Each   *)
(* access to the scratch data_t or to an element is one step.              *)
(***************************************************************************)
EXTENDS Naturals, Sequences, FiniteSets

CONSTANTS
  CPUs,
  Tasks,          (* threads of the machine that use files in the directory  *)
  Inodes,         (* inode numbers of files in the directory                 *)
  Operations,     (* what tasks do: a subset of AllOperations                *)
  Elements,       (* elements of inode_cache: max_entries, and one per CPU   *)
  NULL,           (* a null pointer                                          *)
  MaxCalls,       (* bound: hook calls ever made                             *)
  MaxPreemptions  (* bound: hooks ever begun on a CPU while another is under *)
                  (* way there; 0 is a kernel that does not preempt hooks    *)

(* inode_create, inode_link, ... : hooks given the name in a dentry.       *)
DentryOperations ==
  {"create", "link", "unlink", "symlink", "mkdir", "rmdir", "mknod", "rename"}

(* file_permission is called with MAY_READ, MAY_WRITE or both.             *)
AllOperations == DentryOperations \union {"open", "read", "write", "read+write"}

(* The operation of an event; empty after the memset.                      *)
EventOperations == (AllOperations \ {"read+write"}) \union {""}

SparesOf == {f \in [CPUs -> Elements] : \A c, d \in CPUs : f[c] = f[d] => c = d}

ASSUME HooksAssumption ==
  /\ IsFiniteSet(CPUs) /\ IsFiniteSet(Tasks) /\ IsFiniteSet(Inodes)
  /\ Operations \subseteq AllOperations
  /\ NULL \notin Elements \union Inodes /\ SparesOf # {}
  /\ MaxCalls \in Nat /\ MaxPreemptions \in Nat

VARIABLES
  calls,        (* hook calls made so far                                    *)
  preemptions,  (* and those that preempted another one                      *)
  hook,         (* per task, the hook call it is in                          *)
  data_array,   (* per CPU, operation and file name in the scratch data_t    *)
  inode_cache,  (* per inode number, its element                             *)
  elements,     (* what is in the elements: a name,                          *)
                (* and as a ghost whether the hook that put it was quiet     *)
  spare,        (* per CPU, the element its next replacement will use        *)
  opened        (* ghost: per inode number, the file_open calls with a path  *)

cacheVars  == <<inode_cache, elements, spare>>
hooksVars  == <<calls, preemptions, hook, data_array, cacheVars, opened>>

Calls == Nat \ {0}
Scratch == [operation : EventOperations, file : Nat]
Cleared == [operation |-> "", file |-> 0]

(* An event: the scratch data_t; as ghosts the hook call it is output for  *)
(* and the CPU.                                                            *)
Event == [operation : EventOperations, file : Nat, call : Calls, cpu : CPUs]

(* A hook call under way.  quiet is a ghost: no other hook has got in the  *)
(* way of it, nor of the one that cached the name it took.                 *)

Idle == [pc |-> "idle"]
HookCall == [pc : {"begun", "path", "found", "named", "ready", "named again", "ready again"},
             cpu : CPUs, operation : AllOperations, inode : Inodes \union {NULL}, call : Calls,
             element : Elements \union {NULL}, quiet : BOOLEAN]

UsesCache(operation) == operation \in {"read", "write", "read+write"}

InCache == {inode_cache[i] : i \in Inodes} \ {NULL}
Spares == {spare[c] : c \in CPUs}

(* No element is the spare of two CPUs, or of a CPU and in the cache, or   *)
(* in the cache for two inode numbers.                                     *)
ElementsApart ==
  /\ spare \in SparesOf
  /\ InCache \intersect Spares = {}
  /\ \A i, j \in Inodes : inode_cache[i] = inode_cache[j] => i = j \/ inode_cache[i] = NULL

HooksTypeOK ==
  /\ calls \in Nat /\ preemptions \in 0 .. MaxPreemptions
  /\ hook \in [Tasks -> HookCall \union {Idle}]
  /\ data_array \in [CPUs -> Scratch]
  /\ inode_cache \in [Inodes -> Elements \union {NULL}]
  /\ elements \in [Elements -> [name : Nat, quiet : BOOLEAN]]
  /\ ElementsApart
  /\ opened \in [Inodes -> SUBSET Calls]

HooksInit ==
  /\ calls = 0 /\ preemptions = 0
  /\ hook = [t \in Tasks |-> Idle]
  /\ data_array = [c \in CPUs |-> Cleared]
  /\ inode_cache = [i \in Inodes |-> NULL]
  /\ elements = [e \in Elements |-> [name |-> 0, quiet |-> TRUE]]
  /\ spare = CHOOSE f \in SparesOf : TRUE
  /\ opened = [i \in Inodes |-> {}]

-----------------------------------------------------------------------------
(* Hooks under way on a CPU, and hooks that hold a pointer to an element.  *)
Busy(c) == {t \in Tasks : hook[t] # Idle /\ hook[t].cpu = c}
Holding(e) == {t \in Tasks : hook[t] # Idle /\ hook[t].element = e}

(* The hook of a task goes on; other hooks are disturbed: those of the CPU *)
(* when it writes the CPU's scratch data_t, those that hold a pointer to   *)
(* an element when it fills that element.                                  *)
GoesOn(t, h, disturbed) ==
  hook' = [u \in Tasks |->
             IF u = t THEN h
             ELSE IF u \in disturbed THEN [hook[u] EXCEPT !.quiet = FALSE]
             ELSE hook[u]]

(* The call is counted, and when it preempts another one that is counted.  *)
Counted(c) ==
  /\ calls < MaxCalls /\ calls' = calls + 1
  /\ IF Busy(c) = {} THEN UNCHANGED preemptions
     ELSE preemptions < MaxPreemptions /\ preemptions' = preemptions + 1

(* Mutant of BeginHook: the scratch data_t is not cleared.                 *)
BeginOverOld(t, c, operation, i) ==
  /\ hook[t] = Idle
  /\ Counted(c)
  /\ operation \in DentryOperations <=> i = NULL
  /\ GoesOn(t, [pc |-> "begun", cpu |-> c, operation |-> operation, inode |-> i,
                call |-> calls + 1, element |-> NULL, quiet |-> TRUE], Busy(c))
  /\ UNCHANGED <<data_array, cacheVars, opened>>

(* A hook call begins on a CPU and clears the scratch data_t.  A kernel    *)
(* without preemption runs it to its end before another begins there;      *)
(* otherwise any number can be under way on a CPU.                         *)
BeginHook(t, c, operation, i) ==
  /\ hook[t] = Idle
  /\ Counted(c)
  /\ operation \in DentryOperations <=> i = NULL
  /\ data_array' = [data_array EXCEPT ![c] = Cleared]
  /\ GoesOn(t, [pc |-> "begun", cpu |-> c, operation |-> operation, inode |-> i,
                call |-> calls + 1, element |-> NULL, quiet |-> TRUE], Busy(c))
  /\ UNCHANGED <<cacheVars, opened>>

At(t, pc) == hook[t] # Idle /\ hook[t].pc = pc

(* bpf_d_path() or bpf_probe_read_str() of the name the hook is given.     *)
SetName(t) ==
  LET h == hook[t]
  IN  /\ At(t, "begun") /\ ~ UsesCache(h.operation)
      /\ data_array' = [data_array EXCEPT ![h.cpu].file = h.call]
      /\ opened' = IF h.operation = "open"
                   THEN [opened EXCEPT ![h.inode] = @ \union {h.call}] ELSE opened
      /\ GoesOn(t, [h EXCEPT !.pc = IF h.operation = "open" THEN "path" ELSE "named"],
                Busy(h.cpu))
      /\ UNCHANGED <<calls, preemptions, cacheVars>>

(* file_open of a file without dentry or mount: no name, nothing to cache. *)
NoPath(t) ==
  /\ At(t, "begun") /\ hook[t].operation = "open"
  /\ GoesOn(t, [hook[t] EXCEPT !.pc = "named"], {})
  /\ UNCHANGED <<calls, preemptions, data_array, cacheVars, opened>>

(* Put the scratch data_t in an element for inode number i.                *)
Fill(t, i, e) ==
  LET h == hook[t]
  IN  /\ inode_cache' = [inode_cache EXCEPT ![i] = e]
      /\ elements' = [elements EXCEPT ![e] =
                        [name |-> data_array[h.cpu].file, quiet |-> h.quiet]]
      /\ GoesOn(t, [h EXCEPT !.pc = "named"], Holding(e))

(* Mutant of CacheName: the replaced element does not become the spare.    *)
CacheFromSpare(t) ==
  LET h == hook[t]
  IN  /\ At(t, "path")
      /\ Fill(t, h.inode, spare[h.cpu])
      /\ UNCHANGED <<calls, preemptions, data_array, spare, opened>>

(* file_open: bpf_map_update_elem() of inode_cache.  The kernel fills a    *)
(* free element for a new inode number; when there is none the update      *)
(* fails, unnoticed.  To replace an element it fills the spare of the CPU, *)
(* and the old one is the spare from then on.                              *)
CacheName(t) ==
  LET h    == hook[t]
      i    == h.inode
      free == Elements \ (InCache \union Spares)
  IN  /\ At(t, "path")
      /\ \/ /\ inode_cache[i] # NULL
            /\ Fill(t, i, spare[h.cpu])
            /\ spare' = [spare EXCEPT ![h.cpu] = inode_cache[i]]
         \/ /\ inode_cache[i] = NULL
            /\ \E e \in free : Fill(t, i, e)
            /\ UNCHANGED spare
         \/ /\ inode_cache[i] = NULL /\ free = {}
            /\ GoesOn(t, [h EXCEPT !.pc = "named"], {})
            /\ UNCHANGED cacheVars
      /\ UNCHANGED <<calls, preemptions, data_array, opened>>

(* file_permission: bpf_map_lookup_elem() gives a pointer to the element   *)
(* the inode number has, or none ...                                       *)
LookupName(t) ==
  LET e == inode_cache[hook[t].inode]
  IN  /\ At(t, "begun") /\ UsesCache(hook[t].operation)
      /\ GoesOn(t, [hook[t] EXCEPT !.element = e,
                                   !.pc = IF e = NULL THEN "named" ELSE "found"], {})
      /\ UNCHANGED <<calls, preemptions, data_array, cacheVars, opened>>

(* ... and memcpy() takes what is in that element now.                     *)
CopyName(t) ==
  LET h == hook[t]
      e == elements[h.element]
  IN  /\ At(t, "found")
      /\ data_array' = [data_array EXCEPT ![h.cpu].file = e.name]
      /\ GoesOn(t, [h EXCEPT !.pc = "named", !.quiet = @ /\ e.quiet], Busy(h.cpu))
      /\ UNCHANGED <<calls, preemptions, cacheVars, opened>>

(* The operation submit_event() is called for: first of MAY_READ and       *)
(* MAY_WRITE is MAY_READ.                                                  *)
Submitted(h) ==
  IF h.operation # "read+write" THEN h.operation
  ELSE IF h.pc \in {"named", "ready"} THEN "read" ELSE "write"

(* memcpy() of the operation.                                              *)
SetOperation(t) ==
  LET h == hook[t]
  IN  /\ At(t, "named") \/ At(t, "named again")
      /\ data_array' = [data_array EXCEPT ![h.cpu].operation = Submitted(h)]
      /\ GoesOn(t, [h EXCEPT !.pc = IF h.pc = "named" THEN "ready" ELSE "ready again",
                             !.element = NULL], Busy(h.cpu))
      /\ UNCHANGED <<calls, preemptions, cacheVars, opened>>

EventOf(h) ==
  [operation |-> data_array[h.cpu].operation, file |-> data_array[h.cpu].file,
   call |-> h.call, cpu |-> h.cpu]

(* After the event: file_permission may have another one to submit.        *)
AfterEvent(h) ==
  IF h.operation = "read+write" /\ h.pc = "ready" THEN [h EXCEPT !.pc = "named again"]
  ELSE Idle

(* bpf_perf_event_output() of EventOf(hook[t]).                            *)
submit_event(t) ==
  /\ At(t, "ready") \/ At(t, "ready again")
  /\ GoesOn(t, AfterEvent(hook[t]), {})
  /\ UNCHANGED <<calls, preemptions, data_array, cacheVars, opened>>

HookStep(t) ==
  SetName(t) \/ NoPath(t) \/ CacheName(t) \/ LookupName(t) \/ CopyName(t)
    \/ SetOperation(t)

(* All steps but the output.                                               *)
Prepare ==
  \/ \E t \in Tasks, c \in CPUs, o \in Operations, i \in Inodes \union {NULL} :
       BeginHook(t, c, o, i)
  \/ \E t \in Tasks : HookStep(t)

HooksNext == Prepare \/ \E t \in Tasks : submit_event(t)

HooksSpec == HooksInit /\ [][HooksNext]_hooksVars

-----------------------------------------------------------------------------
(* Properties.                                                             *)

OwnNames(h) ==
  IF UsesCache(h.operation) THEN {0} \union opened[h.inode]
  ELSE IF h.operation = "open" THEN {0, h.call}
  ELSE {h.call}

(* What a hook outputs can be another hook's only if another hook wrote    *)
(* the scratch data_t of the CPU, or filled the element the name was to be *)
(* copied from, while this one was under way, or the one that cached the   *)
(* name.  Otherwise the event has the operation it is output for and a     *)
(* name of its own: the one its hook call was given, or in file_permission *)
(* one that a file of that inode number was opened under, or none.         *)
QuietHookIsGenuine ==
  \A t \in Tasks : (At(t, "ready") \/ At(t, "ready again")) /\ hook[t].quiet =>
    /\ EventOf(hook[t]).operation = Submitted(hook[t])
    /\ EventOf(hook[t]).file \in OwnNames(hook[t])
=============================================================================
