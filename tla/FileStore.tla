------------------------------ MODULE FileStore ------------------------------
(***************************************************************************)
(* The JSON file store of the gateway, src/action-gateway/src/store.rs.    *)
(*                                                                         *)
(* Every operation that changes the store takes the write lock, changes    *)
(* the state in memory, releases the lock and calls persist().  persist()  *)
(* clones the state under the read lock, writes the clone to a temporary   *)
(* file whose name is the same for every caller, and renames that file     *)
(* over the store file.  Nothing holds a lock between those steps, so the  *)
(* requests of one process interleave between any two of them.             *)
(*                                                                         *)
(* The state in memory is identified with the set of operations applied to *)
(* it: operations take the write lock one at a time, so the states that    *)
(* memory goes through are nested sets.  A file name denotes an inode: a   *)
(* rename moves the inode to the store's name, and a task that still has   *)
(* it open writes to it there.                                             *)
(*                                                                         *)
(* The operation of task t is an element of Op; it also names the inode    *)
(* that the operation creates, if it creates one.                          *)
(***************************************************************************)
EXTENDS Naturals, FiniteSets

CONSTANTS
  Writer,   \* handlers of requests that may be inside the store together
  Boot,     \* the start-up task: FileStore::load, before the listener binds
  MaxOps,   \* bound: operations and start-ups in one behaviour
  Faults    \* whether a call on the file system may fail

ASSUME WriterAssumption == Boot \notin Writer
ASSUME BoundAssumption == MaxOps \in Nat
ASSUME FaultsAssumption == Faults \in BOOLEAN

Task == Writer \cup {Boot}
Op == 1..MaxOps
None == 0                  \* the name denotes no file

Whole(S) == [form |-> "whole", ops |-> S]       \* the JSON of a state
Empty    == [form |-> "empty", ops |-> {}]      \* zero bytes
Garbled  == [form |-> "garbled", ops |-> {}]    \* not a JSON document
Content  == [form : {"whole", "empty", "garbled"}, ops : SUBSET Op]

VARIABLES
  phase,    \* of the process: down, boot, up, or refused to start
  mem,      \* the state in memory
  nextOp,   \* the next operation
  content,  \* what is in each inode
  tmp,      \* the inode under the temporary name
  live,     \* the inode under the store's name
  task,     \* where each task is in its operation
  acked     \* history: operations answered with success

procVars == <<phase, mem, nextOp>>
fileVars == <<content, tmp, live>>
vars == <<procVars, fileVars, task, acked>>

TaskState == [
  pc    : {"idle", "mutated", "snapped", "opened", "written"},
  op    : Op \cup {None},   \* the operation it performs
  snap  : SUBSET Op,        \* the clone that its persist() took
  fd    : Op \cup {None},   \* the inode that it has open
  here  : BOOLEAN,          \* whether its caller still waits for the answer
  alone : BOOLEAN]          \* history: no other persist() overlapped this one

Idle == [pc |-> "idle", op |-> None, snap |-> {}, fd |-> None,
         here |-> TRUE, alone |-> TRUE]

TypeOK ==
  /\ phase \in {"down", "boot", "up", "refused"}
  /\ mem \in SUBSET Op
  /\ nextOp \in 1..(MaxOps + 1)
  /\ content \in [Op -> Content]
  /\ tmp \in Op \cup {None}
  /\ live \in Op \cup {None}
  /\ task \in [Task -> TaskState]
  /\ acked \in SUBSET Op

Init ==
  /\ phase = "down" /\ mem = {} /\ nextOp = 1
  /\ content = [i \in Op |-> Empty] /\ tmp = None /\ live = None
  /\ task = [t \in Task |-> Idle]
  /\ acked = {}

(* What the store's name denotes: load() takes a missing file and a        *)
(* zero-length one for the default state.                                  *)
StoreFile == IF live = None THEN Empty ELSE content[live]

-----------------------------------------------------------------------------
(* The process starts, serves and dies *)

Started(o) == [Idle EXCEPT !.pc = "mutated", !.op = o]

(* Task t takes the next operation of the behaviour. *)
Begin(t) ==
  /\ nextOp <= MaxOps
  /\ nextOp' = nextOp + 1
  /\ task' = [task EXCEPT ![t] = Started(nextOp)]

(* Mutant of LoadStore: start-up forgets to read the file that is there.   *)
LoadStoreBlank ==
  /\ phase = "down"
  /\ StoreFile.form # "garbled"
  /\ phase' = "boot"
  /\ mem' = {}
  /\ Begin(Boot)
  /\ UNCHANGED <<fileVars, acked>>

(* Mutant of LoadStore: start-up completes the rename of a temporary file  *)
(* that a crash left behind, after reading the old file.                   *)
LoadStoreFinishesRename ==
  /\ phase = "down"
  /\ StoreFile.form # "garbled"
  /\ phase' = "boot"
  /\ mem' = StoreFile.ops
  /\ Begin(Boot)
  /\ live' = IF tmp = None THEN live ELSE tmp
  /\ tmp' = None
  /\ UNCHANGED <<content, acked>>

LoadStore ==
  /\ phase = "down"
  /\ StoreFile.form # "garbled"
  /\ phase' = "boot"
  /\ mem' = StoreFile.ops
  /\ Begin(Boot)
  /\ UNCHANGED <<fileVars, acked>>

RefuseToStart ==
  /\ phase = "down"
  /\ StoreFile.form = "garbled"
  /\ phase' = "refused"
  /\ UNCHANGED <<mem, nextOp, fileVars, task, acked>>

(* Mutant of Mutate: the handler answers before it persists.               *)
MutateAnswers(t) ==
  /\ phase = "up" /\ t \in Writer /\ task[t].pc = "idle"
  /\ Begin(t)
  /\ mem' = mem \cup {nextOp}
  /\ acked' = acked \cup {nextOp}
  /\ UNCHANGED <<phase, fileVars>>

(* The write lock is held over the change, so the change is one step. *)
Mutate(t) ==
  /\ phase = "up" /\ t \in Writer /\ task[t].pc = "idle"
  /\ Begin(t)
  /\ mem' = mem \cup {nextOp}
  /\ UNCHANGED <<phase, fileVars, acked>>

(* Memory is lost, and a write in flight may have reached the file in part. *)
Crash ==
  /\ phase \in {"boot", "up"}
  /\ phase' = "down" /\ mem' = {}
  /\ \E cut \in SUBSET {task[t].fd : t \in {u \in Task : task[u].pc = "opened"}} :
       content' = [i \in Op |-> IF i \in cut THEN Garbled ELSE content[i]]
  /\ task' = [t \in Task |-> Idle]
  /\ UNCHANGED <<nextOp, tmp, live, acked>>

-----------------------------------------------------------------------------
(* persist(), one action per call that other tasks can run between *)

Snapshot(t) ==
  /\ task[t].pc = "mutated"
  /\ LET quiet == \A u \in Task \ {t} : task[u].pc \in {"idle", "mutated"} IN
     task' = [u \in Task |->
       IF u = t
       THEN [task[t] EXCEPT !.pc = "snapped", !.snap = mem, !.alone = quiet]
       ELSE IF task[u].pc \in {"idle", "mutated"} THEN task[u]
       ELSE [task[u] EXCEPT !.alone = FALSE]]
  /\ UNCHANGED <<procVars, fileVars, acked>>

(* Mutant of OpenTmp: the temporary file is opened without truncation.     *)
OpenTmpKeeps(t) ==
  /\ task[t].pc = "snapped"
  /\ tmp' = IF tmp = None THEN task[t].op ELSE tmp
  /\ task' = [task EXCEPT ![t].pc = "opened", ![t].fd = tmp']
  /\ UNCHANGED <<procVars, content, live, acked>>

(* tokio::fs::write opens with create and truncate, on a blocking thread.  *)
OpenTmp(t) ==
  /\ task[t].pc = "snapped"
  /\ tmp' = IF tmp = None THEN task[t].op ELSE tmp
  /\ content' = [content EXCEPT ![tmp'] = Empty]
  /\ task' = [task EXCEPT ![t].pc = "opened", ![t].fd = tmp']
  /\ UNCHANGED <<procVars, live, acked>>

(* Bytes go in at offset 0: over other bytes, the tail of a longer document *)
(* stays behind.                                                           *)
Written(old, new) ==
  IF old \in {Empty, new} THEN {new} ELSE {new, Garbled}

(* The task is through with the store: its caller has an answer, or is     *)
(* gone.  Start-up ends here with a process in phase next.                 *)
Leave(t, next) ==
  /\ task' = [task EXCEPT ![t] = Idle]
  /\ phase' = IF t = Boot THEN next ELSE phase
  /\ mem' = IF phase' = "down" THEN {} ELSE mem
  /\ UNCHANGED nextOp

(* Mutant of WriteTmp: the answer goes out when the bytes are written,     *)
(* before the rename.                                                      *)
WriteTmpAnswers(t) ==
  /\ task[t].pc = "opened"
  /\ \E c \in Written(content[task[t].fd], Whole(task[t].snap)) :
       content' = [content EXCEPT ![task[t].fd] = c]
  /\ task' = [task EXCEPT ![t] = IF @.here THEN [@ EXCEPT !.pc = "written"]
                                 ELSE Idle]
  /\ acked' = IF task[t].here /\ t \in Writer THEN acked \cup {task[t].op}
              ELSE acked
  /\ UNCHANGED <<procVars, tmp, live>>

(* The blocking thread finishes even if the caller is gone; nobody then    *)
(* renames the file.                                                       *)
WriteTmp(t) ==
  /\ task[t].pc = "opened"
  /\ \E c \in Written(content[task[t].fd], Whole(task[t].snap)) :
       content' = [content EXCEPT ![task[t].fd] = c]
  /\ task' = [task EXCEPT ![t] = IF @.here THEN [@ EXCEPT !.pc = "written"]
                                 ELSE Idle]
  /\ UNCHANGED <<procVars, tmp, live, acked>>

RenameTmp(t) ==
  /\ task[t].pc = "written" /\ tmp # None
  /\ live' = tmp /\ tmp' = None
  /\ acked' = IF task[t].here /\ t \in Writer THEN acked \cup {task[t].op}
              ELSE acked
  /\ Leave(t, "up")
  /\ UNCHANGED content

(* Mutant of RenameMissing: the rename is tried again until it succeeds.   *)
RenameMissingRetries(t) ==
  /\ task[t].pc = "written" /\ tmp = None
  /\ UNCHANGED vars

(* Another task has renamed the file away: the rename fails with ENOENT.   *)
RenameMissing(t) ==
  /\ task[t].pc = "written" /\ tmp = None
  /\ Leave(t, "down")
  /\ UNCHANGED <<fileVars, acked>>

(* A call on the file system fails; a failed write may be partial.         *)
CallFails(t) ==
  /\ Faults
  /\ \/ task[t].pc \in {"snapped", "opened", "written"} /\ UNCHANGED content
     \/ task[t].pc = "opened" /\ content' = [content EXCEPT ![task[t].fd] = Garbled]
  /\ Leave(t, "down")
  /\ UNCHANGED <<tmp, live, acked>>

(* The client closes the connection and the handler's future is dropped at *)
(* its await: work already handed to a blocking thread still runs, work    *)
(* that was not handed over never does.                                    *)
Disconnect(t) ==
  /\ t \in Writer /\ task[t].here
  /\ \/ /\ task[t].pc \in {"mutated", "snapped", "written"}
        /\ task' = [task EXCEPT ![t] = Idle]
     \/ /\ task[t].pc \in {"snapped", "opened", "written"}
        /\ task' = [task EXCEPT ![t].here = FALSE]
  /\ UNCHANGED <<procVars, fileVars, acked>>

-----------------------------------------------------------------------------
(* The bound is reached, or the file does not parse and the process stays  *)
(* down until an operator repairs the file.                                *)
Halted ==
  /\ phase = "refused" \/ nextOp > MaxOps
  /\ \A t \in Task : task[t].pc = "idle"
  /\ UNCHANGED vars

Persist(t) ==
  \/ Snapshot(t) \/ OpenTmp(t) \/ WriteTmp(t)
  \/ RenameTmp(t) \/ RenameMissing(t)

Next ==
  \/ LoadStore \/ RefuseToStart \/ Crash \/ Halted
  \/ \E t \in Task :
       \/ Mutate(t) \/ Persist(t) \/ CallFails(t) \/ Disconnect(t)

Spec == Init /\ [][Next]_vars

(* The runtime keeps polling a handler and the blocking pool keeps running *)
(* what it was given.  Nothing obliges a request to come.                  *)
Fairness == \A t \in Task : WF_vars(Persist(t))

FairSpec == Spec /\ Fairness

-----------------------------------------------------------------------------
(* What the store promises *)

(* What a restart would find. *)
OnDisk == StoreFile.ops

(* An operation answered with success is in the file from then on, through *)
(* crashes at any point, failed calls and dropped connections: the reason  *)
(* why persist() comes before the answer.                                  *)
AckedDurable == acked \subseteq OnDisk

(* The same, asked only where no request is inside the store and none has  *)
(* crashed on the way.                                                     *)
PersistedWhenQuiet ==
  phase = "up" /\ (\A t \in Task : task[t].pc = "idle") => AckedDurable

(* A crash at any point leaves a file that FileStore::load accepts.        *)
Restartable ==
  /\ phase # "refused"
  /\ live # None => content[live].form = "whole"

(* A client reads its own successful writes as soon as the gateway serves, *)
(* also after restarts.                                                    *)
AckedServed == phase = "up" => acked \subseteq mem

(* persist() of a lone caller never loses its temporary file, so a request *)
(* is refused by the store only when the file system fails.                *)
OwnTmpRemains ==
  \A t \in Task : task[t].pc = "written" => tmp = task[t].fd

(* Whatever the interleaving, the file never runs ahead of memory: nothing *)
(* appears after a restart that the previous process did not have, not     *)
(* even from a temporary file left behind by a crash.                      *)
FileBehindMemory == phase \in {"boot", "up"} => OnDisk \subseteq mem

(* Whatever happened before, a persist() that nobody overlapped leaves the *)
(* file complete and with its own change: one quiet request repairs what a *)
(* race damaged.                                                           *)
LoneSaveRepairs ==
  [][\A t \in Task :
       task[t].pc = "written" /\ task[t].alone /\ live' # live =>
         content'[live'] = Whole(task[t].snap)]_vars

(* Every request that entered the store gets out of it: nobody waits for a *)
(* lock, a file or another caller for ever.                                *)
RequestsLeave == \A t \in Task : task[t].pc # "idle" ~> task[t].pc = "idle"

(* With one request at a time the store is the abstract one: whatever      *)
(* fails, crashes or disconnects, each step of the code is a step of       *)
(* DurableStore or changes nothing that its callers can see.               *)
Durable == INSTANCE DurableStore WITH
  up <- phase \in {"boot", "up"}, disk <- OnDisk

ImplementsDurableStore == Durable!Spec

-----------------------------------------------------------------------------
(* The inductive invariants behind the theorems *)

TypeInv ==
  /\ TypeOK
  /\ \A t \in Task : task[t].pc # "idle" => task[t].op \in Op

Saving(t) == task[t].pc \in {"snapped", "opened", "written"}

(* Requests run only in a process that is up, and start-up runs before it. *)
PhaseInv ==
  /\ \A t \in Writer : task[t].pc # "idle" => phase = "up"
  /\ task[Boot].pc # "idle" => phase = "boot"

(* What a rename could put in place of the store file is behind memory: a  *)
(* stale temporary file has been truncated before anyone renames it.       *)
BehindInv ==
  /\ FileBehindMemory
  /\ \A t \in Task : Saving(t) => task[t].snap \subseteq mem
  /\ \A t \in Task : task[t].pc \in {"opened", "written"} /\ tmp # None =>
       content[tmp].ops \subseteq mem

(* While a persist() is alone, the temporary file is its own.              *)
LoneInv ==
  \A t \in Task : Saving(t) /\ task[t].alone =>
    /\ \A u \in Task \ {t} : ~Saving(u)
    /\ task[t].pc \in {"opened", "written"} => tmp # None /\ tmp = task[t].fd
    /\ task[t].pc = "opened" => content[tmp] = Empty
    /\ task[t].pc = "written" => content[tmp] = Whole(task[t].snap)

(* What any number of requests at once preserves. *)
RaceInv == TypeInv /\ PhaseInv /\ BehindInv /\ LoneInv

(* An inode that an operation has yet to create is under neither name.     *)
FreshInv ==
  /\ live < nextOp /\ tmp < nextOp
  /\ live # None => live # tmp
  /\ \A t \in Task : task[t].pc \in {"mutated", "snapped"} =>
       task[t].op < nextOp /\ task[t].op # live /\ task[t].op # tmp

(* What one request at a time preserves besides. *)
SerialInv ==
  /\ RaceInv
  /\ FreshInv
  /\ AckedDurable
  /\ Restartable
  /\ \A t \in Task : Saving(t) => task[t].alone /\ task[t].snap = mem
  /\ \A t \in Writer : task[t].pc # "idle" => task[t].op \in mem

=============================================================================
