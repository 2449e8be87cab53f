--------------------------- MODULE FileStoreProofs ---------------------------
(***************************************************************************)
(* Theorems about the file store, for every set of writers, every bound    *)
(* and with or without failing calls on the file system.                   *)
(***************************************************************************)
EXTENDS FileStore, TLAPS

LEMMA WrittenContent ==
  ASSUME NEW S \in SUBSET Op, NEW old, NEW c \in Written(old, Whole(S))
  PROVE  c \in {Whole(S), Garbled} /\ (old = Empty => c = Whole(S))
BY DEF Written

LEMMA ContentForms ==
  /\ Empty \in Content /\ Garbled \in Content
  /\ Empty.ops = {} /\ Garbled.ops = {}
  /\ \A S \in SUBSET Op : Whole(S) \in Content /\ Whole(S).ops = S
BY DEF Empty, Garbled, Whole, Content

LEMMA IdleState ==
  /\ Idle \in TaskState /\ Idle.pc = "idle"
  /\ \A o \in Op : /\ Started(o) \in TaskState
                   /\ Started(o).pc = "mutated" /\ Started(o).op = o
BY DEF Idle, Started, TaskState, None

(* An operation that begins is one of Op, and leaves the bound in place. *)
LEMMA BeginOp ==
  ASSUME nextOp \in 1..(MaxOps + 1), NEW t, Begin(t)
  PROVE  nextOp \in Op /\ nextOp' \in 1..(MaxOps + 1)
BY BoundAssumption DEF Begin, Op

-----------------------------------------------------------------------------
(* What the steps of persist() do to the tasks, field by field *)

LEMMA BeginTasks ==
  ASSUME task \in [Task -> TaskState], nextOp \in 1..(MaxOps + 1),
         NEW t \in Task, Begin(t)
  PROVE  /\ task'[t].pc = "mutated" /\ task'[t].op = nextOp
         /\ \A u \in Task \ {t} : task'[u] = task[u]
BY BeginOp, IdleState DEF Begin

LEMMA LeaveTasks ==
  ASSUME task \in [Task -> TaskState], NEW t \in Task, NEW next, Leave(t, next)
  PROVE  /\ task'[t].pc = "idle"
         /\ \A u \in Task \ {t} : task'[u] = task[u]
BY IdleState DEF Leave

LEMMA SnapshotTasks ==
  ASSUME task \in [Task -> TaskState], mem \in SUBSET Op,
         NEW t \in Task, Snapshot(t)
  PROVE  /\ task' \in [Task -> TaskState]
         /\ task'[t].pc = "snapped" /\ task'[t].snap = mem
         /\ task'[t].alone <=> \A u \in Task \ {t} : task[u].pc \in {"idle", "mutated"}
         /\ \A u \in Task : /\ task'[u].op = task[u].op
                            /\ task'[u].fd = task[u].fd
                            /\ task'[u].here = task[u].here
         /\ \A u \in Task \ {t} :
              /\ task'[u].pc = task[u].pc /\ task'[u].snap = task[u].snap
              /\ task[u].pc \in {"idle", "mutated"} \/ ~task'[u].alone
              /\ task'[u].alone => task[u].alone
<1> DEFINE quiet == \A u \in Task \ {t} : task[u].pc \in {"idle", "mutated"}
<1>1. quiet \in BOOLEAN
  OBVIOUS
<1> HIDE DEF quiet
<1> DEFINE snapped == [task[t] EXCEPT !.pc = "snapped", !.snap = mem, !.alone = quiet]
           raced(u) == [task[u] EXCEPT !.alone = FALSE]
<1>2. /\ snapped \in TaskState
      /\ snapped.pc = "snapped" /\ snapped.snap = mem /\ snapped.alone = quiet
      /\ snapped.op = task[t].op /\ snapped.fd = task[t].fd
      /\ snapped.here = task[t].here
  BY <1>1 DEF TaskState
<1>3. \A u \in Task :
        /\ raced(u) \in TaskState /\ raced(u).alone = FALSE
        /\ raced(u).pc = task[u].pc /\ raced(u).snap = task[u].snap
        /\ raced(u).op = task[u].op /\ raced(u).fd = task[u].fd
        /\ raced(u).here = task[u].here
  BY DEF TaskState
<1>4. task' = [u \in Task |-> IF u = t THEN snapped
                              ELSE IF task[u].pc \in {"idle", "mutated"} THEN task[u]
                              ELSE raced(u)]
  BY DEF Snapshot, quiet
<1> HIDE DEF snapped, raced
<1> QED BY <1>2, <1>3, <1>4 DEF quiet

LEMMA OpenTmpTasks ==
  ASSUME task \in [Task -> TaskState], tmp' \in Op \cup {None},
         NEW t \in Task, OpenTmp(t)
  PROVE  /\ task' \in [Task -> TaskState]
         /\ task'[t].pc = "opened" /\ task'[t].fd = tmp'
         /\ task'[t].op = task[t].op /\ task'[t].snap = task[t].snap
         /\ task'[t].here = task[t].here /\ task'[t].alone = task[t].alone
         /\ \A u \in Task \ {t} : task'[u] = task[u]
<1> DEFINE new == [task[t] EXCEPT !.pc = "opened", !.fd = tmp']
<1>1. /\ new \in TaskState /\ new.pc = "opened" /\ new.fd = tmp'
      /\ new.op = task[t].op /\ new.snap = task[t].snap
      /\ new.here = task[t].here /\ new.alone = task[t].alone
  BY DEF TaskState
<1>2. task' = [task EXCEPT ![t] = new]
  BY DEF OpenTmp
<1> HIDE DEF new
<1> QED BY <1>1, <1>2

LEMMA WriteTmpTasks ==
  ASSUME task \in [Task -> TaskState], NEW t \in Task, WriteTmp(t)
  PROVE  /\ task' \in [Task -> TaskState]
         /\ \/ task'[t].pc = "idle"
            \/ /\ task'[t].pc = "written"
               /\ task'[t].op = task[t].op /\ task'[t].snap = task[t].snap
               /\ task'[t].fd = task[t].fd
               /\ task'[t].here = task[t].here /\ task'[t].alone = task[t].alone
         /\ \A u \in Task \ {t} : task'[u] = task[u]
<1> DEFINE new == [task[t] EXCEPT !.pc = "written"]
<1>1. /\ new \in TaskState /\ new.pc = "written"
      /\ new.op = task[t].op /\ new.snap = task[t].snap /\ new.fd = task[t].fd
      /\ new.here = task[t].here /\ new.alone = task[t].alone
  BY DEF TaskState
<1>2. task' = [task EXCEPT ![t] = IF task[t].here THEN new ELSE Idle]
  BY DEF WriteTmp
<1> HIDE DEF new
<1> QED BY <1>1, <1>2, IdleState

LEMMA DisconnectTasks ==
  ASSUME task \in [Task -> TaskState], NEW t \in Task, Disconnect(t)
  PROVE  /\ task' \in [Task -> TaskState]
         /\ \/ task'[t].pc = "idle"
            \/ /\ task'[t].pc = task[t].pc
               /\ task'[t].op = task[t].op /\ task'[t].snap = task[t].snap
               /\ task'[t].fd = task[t].fd /\ task'[t].alone = task[t].alone
         /\ \A u \in Task \ {t} : task'[u] = task[u]
<1> DEFINE gone == [task[t] EXCEPT !.here = FALSE]
<1>1. /\ gone \in TaskState /\ gone.pc = task[t].pc
      /\ gone.op = task[t].op /\ gone.snap = task[t].snap /\ gone.fd = task[t].fd
      /\ gone.alone = task[t].alone
  BY DEF TaskState
<1>2. \/ task' = [task EXCEPT ![t] = Idle]
      \/ task' = [task EXCEPT ![t] = gone]
  BY DEF Disconnect
<1> HIDE DEF gone
<1> QED BY <1>1, <1>2, IdleState

-----------------------------------------------------------------------------
LEMMA TypeInit == Init => TypeInv
<1> SUFFICES ASSUME Init PROVE TypeInv
  OBVIOUS
<1>1. content \in [Op -> Content]
  BY ContentForms DEF Init
<1>2. task \in [Task -> TaskState] /\ \A t \in Task : task[t].pc = "idle"
  BY IdleState DEF Init
<1>3. nextOp \in 1..(MaxOps + 1)
  BY BoundAssumption DEF Init
<1> QED BY <1>1, <1>2, <1>3 DEF Init, TypeInv, TypeOK

LEMMA TypeStep == TypeInv /\ [Next]_vars => TypeInv'
<1> SUFFICES ASSUME TypeInv, [Next]_vars PROVE TypeInv'
  OBVIOUS
<1> USE DEF TypeInv, TypeOK, procVars, fileVars
<1>1. CASE LoadStore
  <2>1. nextOp \in Op /\ nextOp' \in 1..(MaxOps + 1)
    BY <1>1, BeginOp DEF LoadStore
  <2>2. StoreFile.ops \in SUBSET Op
    BY ContentForms DEF StoreFile, Content
  <2>3. /\ task' \in [Task -> TaskState]
        /\ \A t \in Task : task'[t].pc # "idle" => task'[t].op \in Op
    BY <1>1, <2>1, IdleState DEF LoadStore, Begin
  <2> QED BY <1>1, <2>1, <2>2, <2>3 DEF LoadStore
<1>2. CASE RefuseToStart
  BY <1>2 DEF RefuseToStart
<1>3. CASE Crash
  BY <1>3, ContentForms, IdleState DEF Crash
<1>4. CASE Halted
  BY <1>4 DEF Halted, vars
<1>5. ASSUME NEW t \in Task, Mutate(t) PROVE TypeInv'
  <2>1. nextOp \in Op /\ nextOp' \in 1..(MaxOps + 1)
    BY <1>5, BeginOp DEF Mutate
  <2>2. /\ task' \in [Task -> TaskState]
        /\ \A u \in Task : task'[u].pc # "idle" => task'[u].op \in Op
    BY <1>5, <2>1, IdleState DEF Mutate, Begin
  <2> QED BY <1>5, <2>1, <2>2 DEF Mutate
<1>6. ASSUME NEW t \in Task, Snapshot(t) PROVE TypeInv'
  BY <1>6, SnapshotTasks DEF Snapshot
<1>7. ASSUME NEW t \in Task, OpenTmp(t) PROVE TypeInv'
  <2>1. tmp' \in Op \cup {None} /\ content' \in [Op -> Content]
    BY <1>7, ContentForms DEF OpenTmp
  <2>2. /\ task' \in [Task -> TaskState]
        /\ \A u \in Task : task'[u].pc # "idle" => task'[u].op \in Op
    BY <1>7, <2>1, OpenTmpTasks DEF OpenTmp
  <2> QED BY <1>7, <2>1, <2>2 DEF OpenTmp
<1>8. ASSUME NEW t \in Task, WriteTmp(t) PROVE TypeInv'
  <2>1. task[t].snap \in SUBSET Op
    BY DEF TaskState
  <2>2. content' \in [Op -> Content]
    <3>1. PICK c \in Written(content[task[t].fd], Whole(task[t].snap)) :
            content' = [content EXCEPT ![task[t].fd] = c]
      BY <1>8 DEF WriteTmp
    <3>2. c \in Content
      BY <2>1, <3>1, WrittenContent, ContentForms
    <3> QED BY <3>1, <3>2
  <2>3. /\ task' \in [Task -> TaskState]
        /\ \A u \in Task : task'[u].pc # "idle" => task'[u].op \in Op
    BY <1>8, WriteTmpTasks DEF WriteTmp
  <2> QED BY <1>8, <2>2, <2>3 DEF WriteTmp
<1>9. ASSUME NEW t \in Task, RenameTmp(t) PROVE TypeInv'
  BY <1>9, IdleState DEF RenameTmp, Leave
<1>10. ASSUME NEW t \in Task, RenameMissing(t) PROVE TypeInv'
  BY <1>10, IdleState DEF RenameMissing, Leave
<1>11. ASSUME NEW t \in Task, CallFails(t) PROVE TypeInv'
  BY <1>11, IdleState, ContentForms DEF CallFails, Leave
<1>12. ASSUME NEW t \in Task, Disconnect(t) PROVE TypeInv'
  <2>1. /\ task' \in [Task -> TaskState]
        /\ \A u \in Task : task'[u].pc # "idle" => task'[u].op \in Op
    BY <1>12, DisconnectTasks DEF Disconnect
  <2> QED BY <1>12, <2>1 DEF Disconnect
<1>13. CASE UNCHANGED vars
  BY <1>13 DEF vars
<1> QED
  BY <1>1, <1>2, <1>3, <1>4, <1>5, <1>6, <1>7, <1>8, <1>9, <1>10,
     <1>11, <1>12, <1>13 DEF Next, Persist

(* Type correctness: every step of every task, the start-up's and those    *)
(* after a crash included, keeps the store's state within its types.       *)
THEOREM TypeCorrect == Spec => []TypeOK
<1>1. Init => TypeInv
  BY TypeInit
<1>2. TypeInv /\ [Next]_vars => TypeInv'
  BY TypeStep
<1>3. TypeInv => TypeOK
  BY DEF TypeInv
<1> QED BY <1>1, <1>2, <1>3, PTL DEF Spec

-----------------------------------------------------------------------------
(* The invariants that any number of concurrent requests preserve *)

LEMMA PhaseStep ==
  ASSUME TypeInv, PhaseInv, [Next]_vars PROVE PhaseInv'
<1> USE WriterAssumption DEF TypeInv, TypeOK, PhaseInv, procVars, fileVars, Task
<1>1. CASE LoadStore
  BY <1>1, BeginTasks DEF LoadStore
<1>2. CASE RefuseToStart
  BY <1>2 DEF RefuseToStart
<1>3. CASE Crash
  BY <1>3, IdleState DEF Crash
<1>4. CASE Halted
  BY <1>4 DEF Halted, vars
<1>5. ASSUME NEW t \in Task, Mutate(t) PROVE PhaseInv'
  BY <1>5, BeginTasks DEF Mutate
<1>6. ASSUME NEW t \in Task, Snapshot(t) PROVE PhaseInv'
  BY <1>6, SnapshotTasks DEF Snapshot
<1>7. ASSUME NEW t \in Task, OpenTmp(t) PROVE PhaseInv'
  <2>1. tmp' \in Op \cup {None}
    BY <1>7 DEF OpenTmp
  <2> QED BY <1>7, <2>1, OpenTmpTasks DEF OpenTmp
<1>8. ASSUME NEW t \in Task, WriteTmp(t) PROVE PhaseInv'
  BY <1>8, WriteTmpTasks DEF WriteTmp
<1>9. ASSUME NEW t \in Task, NEW next, Leave(t, next), task[t].pc # "idle"
      PROVE  PhaseInv'
  BY <1>9, LeaveTasks DEF Leave
<1>10. ASSUME NEW t \in Task, Disconnect(t) PROVE PhaseInv'
  BY <1>10, DisconnectTasks DEF Disconnect
<1>11. CASE UNCHANGED vars
  BY <1>11 DEF vars
<1> QED
  BY <1>1, <1>2, <1>3, <1>4, <1>5, <1>6, <1>7, <1>8, <1>9, <1>10, <1>11
  DEF Next, Persist, RenameTmp, RenameMissing, CallFails

LEMMA BehindStep ==
  ASSUME TypeInv, PhaseInv, BehindInv, [Next]_vars PROVE BehindInv'
<1> USE WriterAssumption
    DEF TypeInv, TypeOK, PhaseInv, BehindInv, FileBehindMemory, procVars,
        fileVars, Task, Saving, OnDisk, StoreFile
<1>1. CASE LoadStore
  BY <1>1, BeginTasks DEF LoadStore
<1>2. CASE RefuseToStart
  BY <1>2 DEF RefuseToStart
<1>3. CASE Crash
  BY <1>3, IdleState DEF Crash
<1>4. CASE Halted
  BY <1>4 DEF Halted, vars
<1>5. ASSUME NEW t \in Task, Mutate(t) PROVE BehindInv'
  BY <1>5, BeginTasks DEF Mutate
<1>6. ASSUME NEW t \in Task, Snapshot(t) PROVE BehindInv'
  <2>1. UNCHANGED <<phase, mem, live, tmp, content>>
    BY <1>6 DEF Snapshot
  <2>2. /\ task'[t].pc = "snapped" /\ task'[t].snap = mem
        /\ \A u \in Task \ {t} :
             task'[u].pc = task[u].pc /\ task'[u].snap = task[u].snap
    BY <1>6, SnapshotTasks
  <2>3. FileBehindMemory'
    BY <2>1
  <2>4. \A u \in Task : Saving(u)' => task'[u].snap \subseteq mem'
    BY <2>1, <2>2
  <2>5. \A u \in Task : task'[u].pc \in {"opened", "written"} /\ tmp' # None =>
          content'[tmp'].ops \subseteq mem'
    BY <2>1, <2>2
  <2> QED BY <2>3, <2>4, <2>5
<1>7. ASSUME NEW t \in Task, OpenTmp(t) PROVE BehindInv'
  <2>1. tmp' \in Op \cup {None}
    BY <1>7 DEF OpenTmp
  <2>2. \A i \in Op : content'[i] = IF i = tmp' THEN Empty ELSE content[i]
    BY <1>7 DEF OpenTmp
  <2> QED BY <1>7, <2>1, <2>2, OpenTmpTasks, ContentForms DEF OpenTmp, None
<1>8. ASSUME NEW t \in Task, WriteTmp(t) PROVE BehindInv'
  <2>1. PICK c \in Written(content[task[t].fd], Whole(task[t].snap)) :
          content' = [content EXCEPT ![task[t].fd] = c]
    BY <1>8 DEF WriteTmp
  <2>2. task[t].snap \in SUBSET Op
    BY DEF TaskState
  <2>3. c.ops \subseteq mem
    BY <1>8, <2>1, <2>2, WrittenContent, ContentForms DEF WriteTmp
  <2>4. \A i \in Op : content'[i] = content[i] \/ content'[i].ops \subseteq mem
    BY <2>1, <2>3
  <2> QED BY <1>8, <2>4, WriteTmpTasks DEF WriteTmp, None
<1>9. ASSUME NEW t \in Task, RenameTmp(t) PROVE BehindInv'
  BY <1>9, LeaveTasks DEF RenameTmp, Leave
<1>10. ASSUME NEW t \in Task, RenameMissing(t) PROVE BehindInv'
  BY <1>10, LeaveTasks DEF RenameMissing, Leave
<1>11. ASSUME NEW t \in Task, CallFails(t) PROVE BehindInv'
  <2>1. \A i \in Op : content'[i] = content[i] \/ content'[i].ops = {}
    BY <1>11, ContentForms DEF CallFails
  <2> QED BY <1>11, <2>1, LeaveTasks DEF CallFails, Leave, None
<1>12. ASSUME NEW t \in Task, Disconnect(t) PROVE BehindInv'
  BY <1>12, DisconnectTasks DEF Disconnect
<1>13. CASE UNCHANGED vars
  BY <1>13 DEF vars
<1> QED
  BY <1>1, <1>2, <1>3, <1>4, <1>5, <1>6, <1>7, <1>8, <1>9, <1>10, <1>11,
     <1>12, <1>13 DEF Next, Persist

LEMMA LoneStep ==
  ASSUME TypeInv, LoneInv, [Next]_vars PROVE LoneInv'
<1> USE DEF TypeInv, TypeOK, LoneInv, procVars, fileVars, Saving
<1>1. CASE LoadStore
  BY <1>1, BeginTasks DEF LoadStore, Task
<1>2. CASE RefuseToStart
  BY <1>2 DEF RefuseToStart
<1>3. CASE Crash
  BY <1>3, IdleState DEF Crash
<1>4. CASE Halted
  BY <1>4 DEF Halted, vars
<1>5. ASSUME NEW t \in Task, Mutate(t) PROVE LoneInv'
  BY <1>5, BeginTasks DEF Mutate
<1>6. ASSUME NEW t \in Task, Snapshot(t) PROVE LoneInv'
  BY <1>6, SnapshotTasks DEF Snapshot
<1>7. ASSUME NEW t \in Task, OpenTmp(t) PROVE LoneInv'
  <2>1. tmp' \in Op /\ tmp' # None
    BY <1>7 DEF OpenTmp, Op, None
  <2>2. content'[tmp'] = Empty
    BY <1>7, <2>1 DEF OpenTmp
  <2>3. /\ \A u \in Task \ {t} : task'[u] = task[u]
        /\ task'[t].pc = "opened" /\ task'[t].fd = tmp'
        /\ task'[t].alone = task[t].alone
    BY <1>7, <2>1, OpenTmpTasks
  <2>4. Saving(t)
    BY <1>7 DEF OpenTmp
  <2> QED BY <2>1, <2>2, <2>3, <2>4
<1>8. ASSUME NEW t \in Task, WriteTmp(t) PROVE LoneInv'
  <2>1. PICK c \in Written(content[task[t].fd], Whole(task[t].snap)) :
          content' = [content EXCEPT ![task[t].fd] = c]
    BY <1>8 DEF WriteTmp
  <2>2. task[t].snap \in SUBSET Op
    BY DEF TaskState
  <2>3. content[task[t].fd] = Empty => c = Whole(task[t].snap)
    BY <2>1, <2>2, WrittenContent
  <2>4. SUFFICES ASSUME NEW u \in Task, Saving(u)', task'[u].alone
                 PROVE  /\ \A v \in Task \ {u} : ~Saving(v)'
                        /\ u = t
                        /\ task'[t].pc = "written"
                        /\ tmp # None /\ tmp = task'[t].fd
                        /\ content'[tmp] = Whole(task'[t].snap)
    BY <1>8 DEF WriteTmp
  <2>5. /\ \A v \in Task \ {t} : task'[v] = task[v]
        /\ task[t].pc = "opened"
    BY <1>8, WriteTmpTasks DEF WriteTmp
  <2>6. u = t
    BY <2>4, <2>5
  <2>7. /\ task'[t].pc = "written"
        /\ task'[t].snap = task[t].snap /\ task'[t].fd = task[t].fd
        /\ task[t].alone
    BY <1>8, <2>4, <2>6, WriteTmpTasks
  <2>8. tmp # None /\ tmp = task[t].fd /\ content[tmp] = Empty /\ tmp \in Op
    BY <2>5, <2>7
  <2> QED BY <2>1, <2>3, <2>5, <2>6, <2>7, <2>8
<1>9. ASSUME NEW t \in Task, RenameTmp(t) PROVE LoneInv'
  BY <1>9, LeaveTasks DEF RenameTmp
<1>10. ASSUME NEW t \in Task, RenameMissing(t) PROVE LoneInv'
  BY <1>10, LeaveTasks DEF RenameMissing
<1>11. ASSUME NEW t \in Task, CallFails(t) PROVE LoneInv'
  BY <1>11, LeaveTasks DEF CallFails
<1>12. ASSUME NEW t \in Task, Disconnect(t) PROVE LoneInv'
  BY <1>12, DisconnectTasks DEF Disconnect
<1>13. CASE UNCHANGED vars
  BY <1>13 DEF vars
<1> QED
  BY <1>1, <1>2, <1>3, <1>4, <1>5, <1>6, <1>7, <1>8, <1>9, <1>10, <1>11,
     <1>12, <1>13 DEF Next, Persist

LEMMA RaceInvariant == Spec => []RaceInv
<1>1. Init => RaceInv
  BY TypeInit, IdleState, ContentForms
  DEF Init, RaceInv, PhaseInv, BehindInv, FileBehindMemory, LoneInv, Saving, Task
<1>2. RaceInv /\ [Next]_vars => RaceInv'
  BY TypeStep, PhaseStep, BehindStep, LoneStep DEF RaceInv
<1> QED BY <1>1, <1>2, PTL DEF Spec

(* Whatever the interleaving of any number of requests, crashes and failed *)
(* calls, the store file never holds a change that memory does not have.   *)
THEOREM FileNeverAhead == Spec => []FileBehindMemory
<1>1. RaceInv => FileBehindMemory
  BY DEF RaceInv, BehindInv
<1> QED BY <1>1, RaceInvariant, PTL

(* A persist() that no other one overlapped puts exactly its clone of the  *)
(* state in place of the store file, whatever races came before.           *)
THEOREM LoneSaveInstalls == Spec => LoneSaveRepairs
<1>1. RaceInv /\ [Next]_vars =>
        [\A t \in Task :
           task[t].pc = "written" /\ task[t].alone /\ live' # live =>
             content'[live'] = Whole(task[t].snap)]_vars
  <2> SUFFICES ASSUME RaceInv, [Next]_vars, NEW t \in Task,
                      task[t].pc = "written", task[t].alone, live' # live
               PROVE  content'[live'] = Whole(task[t].snap)
    OBVIOUS
  <2> USE DEF RaceInv, TypeInv, TypeOK
  <2>1. PICK u \in Task : RenameTmp(u)
    BY DEF Next, Persist, LoadStore, RefuseToStart, Crash, Halted, Mutate,
           Snapshot, OpenTmp, WriteTmp, RenameMissing, CallFails, Disconnect,
           vars, fileVars
  <2>2. u = t
    BY <2>1 DEF LoneInv, Saving, RenameTmp
  <2> QED BY <2>1, <2>2 DEF LoneInv, Saving, RenameTmp
<1> QED BY <1>1, RaceInvariant, PTL DEF Spec, LoneSaveRepairs

-----------------------------------------------------------------------------
(* One request at a time *)

OneWriter == \A v, w \in Writer : v = w

LEMMA OneTask ==
  ASSUME OneWriter, PhaseInv, NEW t \in Task, NEW u \in Task,
         task[t].pc # "idle", task[u].pc # "idle"
  PROVE  t = u
BY DEF OneWriter, PhaseInv, Task

LEMMA SerialStep ==
  ASSUME OneWriter, SerialInv, [Next]_vars PROVE SerialInv'
<1>1. RaceInv'
  BY TypeStep, PhaseStep, BehindStep, LoneStep DEF SerialInv, RaceInv
<1> USE WriterAssumption
    DEF SerialInv, RaceInv, TypeInv, TypeOK, procVars, fileVars, Saving,
        FreshInv, AckedDurable, Restartable, OnDisk, StoreFile
<1>2. /\ nextOp \in Nat /\ live \in Nat /\ tmp \in Nat
      /\ Writer \subseteq Task /\ Boot \in Task
      /\ \A i \in Op : i \in Nat
  BY BoundAssumption DEF Op, None, Task
<1>3. \A t, u \in Task : task[t].pc # "idle" /\ task[u].pc # "idle" => t = u
  BY OneTask
<1>4. CASE LoadStore
  <2>1. /\ \A u \in Task : u # Boot => task'[u] = task[u]
        /\ task'[Boot].pc = "mutated" /\ task'[Boot].op = nextOp
        /\ nextOp' = nextOp + 1
    BY <1>2, <1>4, BeginTasks DEF LoadStore, Begin
  <2>2. \A u \in Task : task[u].pc = "idle"
    BY <1>4 DEF LoadStore, PhaseInv, Task
  <2> QED BY <1>1, <1>2, <1>4, <2>1, <2>2 DEF LoadStore
<1>5. CASE RefuseToStart
  BY <1>5 DEF RefuseToStart, Empty
<1>6. CASE Crash
  <2>1. \A i \in Op : i = live => content'[i] = content[i]
    <3>1. ASSUME NEW t \in Task, task[t].pc = "opened" PROVE task[t].fd # live
      BY <1>2, <3>1 DEF LoneInv, None
    <3> QED BY <1>6, <3>1 DEF Crash
  <2> QED BY <1>1, <1>2, <1>6, <2>1, IdleState DEF Crash
<1>7. CASE Halted
  BY <1>1, <1>7 DEF Halted, vars
<1>8. ASSUME NEW t \in Task, Mutate(t) PROVE SerialInv'
  <2>1. /\ \A u \in Task : u # t => task'[u] = task[u]
        /\ task'[t].pc = "mutated" /\ task'[t].op = nextOp
        /\ nextOp' = nextOp + 1
    BY <1>8, BeginTasks DEF Mutate, Begin
  <2>2. \A u \in Task : task[u].pc = "idle"
    BY <1>8 DEF Mutate, PhaseInv, Task, OneWriter
  <2> QED BY <1>1, <1>2, <1>8, <2>1, <2>2 DEF Mutate
<1>9. ASSUME NEW t \in Task, Snapshot(t) PROVE SerialInv'
  <2>1. \A u \in Task : u # t => task[u].pc = "idle"
    BY <1>3, <1>9 DEF Snapshot
  <2>2. /\ task'[t].pc = "snapped" /\ task'[t].snap = mem /\ task'[t].alone
        /\ task'[t].op = task[t].op
        /\ \A u \in Task : u # t => task'[u].pc = "idle"
    BY <1>9, <2>1, SnapshotTasks
  <2>3. task[t].pc = "mutated" /\ UNCHANGED <<procVars, fileVars, acked>>
    BY <1>9 DEF Snapshot
  <2> QED BY <1>1, <1>2, <2>2, <2>3
<1>10. ASSUME NEW t \in Task, OpenTmp(t) PROVE SerialInv'
  <2>1. \A u \in Task : u # t => task[u].pc = "idle"
    BY <1>3, <1>10 DEF OpenTmp
  <2>2. tmp' \in Op /\ tmp' # live /\ tmp' < nextOp
    BY <1>2, <1>10 DEF OpenTmp, None
  <2>3. live # None => content'[live] = content[live]
    BY <1>10, <2>2 DEF OpenTmp
  <2>4. /\ task'[t].pc = "opened" /\ task'[t].snap = task[t].snap
        /\ task'[t].alone = task[t].alone /\ task'[t].op = task[t].op
        /\ \A u \in Task : u # t => task'[u].pc = "idle"
    BY <1>10, <2>1, <2>2, OpenTmpTasks
  <2>5. task[t].pc = "snapped" /\ UNCHANGED <<procVars, live, acked>>
    BY <1>10 DEF OpenTmp
  <2> QED BY <1>1, <1>2, <2>2, <2>3, <2>4, <2>5
<1>11. ASSUME NEW t \in Task, WriteTmp(t) PROVE SerialInv'
  <2>1. \A u \in Task : u # t => task[u].pc = "idle"
    BY <1>3, <1>11 DEF WriteTmp
  <2>2. task[t].fd = tmp /\ tmp # None
    BY <1>11 DEF WriteTmp, LoneInv
  <2>3. live # None => content'[live] = content[live]
    BY <1>11, <2>2 DEF WriteTmp
  <2>4. /\ \/ task'[t].pc = "idle"
           \/ /\ task'[t].pc = "written" /\ task'[t].snap = task[t].snap
              /\ task'[t].alone = task[t].alone /\ task'[t].op = task[t].op
        /\ \A u \in Task : u # t => task'[u].pc = "idle"
    BY <1>11, <2>1, WriteTmpTasks
  <2>5. task[t].pc = "opened" /\ UNCHANGED <<procVars, tmp, live, acked>>
    BY <1>11 DEF WriteTmp
  <2> QED BY <1>1, <1>2, <2>3, <2>4, <2>5
<1>12. ASSUME NEW t \in Task, RenameTmp(t) PROVE SerialInv'
  <2>1. \A u \in Task : task'[u].pc = "idle"
    BY <1>3, <1>12, LeaveTasks DEF RenameTmp
  <2>2. content[tmp] = Whole(mem) /\ tmp \in Op
    BY <1>12 DEF RenameTmp, LoneInv, None
  <2>3. acked' \subseteq mem
    BY <1>12 DEF RenameTmp, BehindInv, FileBehindMemory, PhaseInv, Task
  <2>4. Whole(mem).form = "whole" /\ Whole(mem).ops = mem
    BY DEF Whole
  <2> QED BY <1>1, <1>2, <1>12, <2>1, <2>2, <2>3, <2>4 DEF RenameTmp, Leave, None
<1>13. ASSUME NEW t \in Task, RenameMissing(t) PROVE SerialInv'
  BY <1>13 DEF RenameMissing, LoneInv
<1>14. ASSUME NEW t \in Task, CallFails(t) PROVE SerialInv'
  <2>1. \A u \in Task : task'[u].pc = "idle"
    BY <1>3, <1>14, LeaveTasks DEF CallFails
  <2>2. live # None => content'[live] = content[live]
    BY <1>14 DEF CallFails, LoneInv
  <2> QED BY <1>1, <1>2, <1>14, <2>1, <2>2 DEF CallFails, Leave
<1>15. ASSUME NEW t \in Task, Disconnect(t) PROVE SerialInv'
  BY <1>1, <1>2, <1>15, DisconnectTasks DEF Disconnect
<1>16. CASE UNCHANGED vars
  BY <1>1, <1>16 DEF vars
<1> QED
  BY <1>4, <1>5, <1>6, <1>7, <1>8, <1>9, <1>10, <1>11, <1>12, <1>13, <1>14,
     <1>15, <1>16 DEF Next, Persist

LEMMA SerialInvariant ==
  ASSUME OneWriter PROVE Spec => []SerialInv
<1>1. Init => SerialInv
  <2>1. Init => RaceInv
    BY TypeInit, IdleState, ContentForms
    DEF Init, RaceInv, PhaseInv, BehindInv, FileBehindMemory, LoneInv, Saving, Task
  <2> QED BY <2>1, IdleState
          DEF Init, SerialInv, FreshInv, AckedDurable, Restartable, Saving, Task, None
<1>2. SerialInv /\ [Next]_vars => SerialInv'
  BY SerialStep
<1> QED BY <1>1, <1>2, PTL DEF Spec

(* With one request at a time, an operation answered with success is in    *)
(* the file ever after: through crashes between any two steps, failing     *)
(* calls on the file system and clients that leave.                        *)
THEOREM SerialDurability ==
  ASSUME OneWriter PROVE Spec => []AckedDurable
<1>1. SerialInv => AckedDurable
  BY DEF SerialInv
<1> QED BY <1>1, SerialInvariant, PTL

(* With one request at a time, no crash leaves a file that the next start  *)
(* refuses or takes for an empty store.                                    *)
THEOREM SerialRestart ==
  ASSUME OneWriter PROVE Spec => []Restartable
<1>1. SerialInv => Restartable
  BY DEF SerialInv
<1> QED BY <1>1, SerialInvariant, PTL

(* With one request at a time, every answered operation is in the memory   *)
(* that serves the next requests, also after a restart.                    *)
THEOREM SerialReadYourWrites ==
  ASSUME OneWriter PROVE Spec => []AckedServed
<1>1. SerialInv => AckedServed
  BY DEF SerialInv, RaceInv, BehindInv, FileBehindMemory, AckedDurable, AckedServed
<1> QED BY <1>1, SerialInvariant, PTL

(* With one request at a time the temporary file of a persist() is still   *)
(* its own when it renames it: the store refuses no request unless a call  *)
(* on the file system fails.                                               *)
THEOREM SerialRename ==
  ASSUME OneWriter PROVE Spec => []OwnTmpRemains
<1>1. SerialInv => OwnTmpRemains
  BY DEF SerialInv, RaceInv, LoneInv, Saving, OwnTmpRemains
<1> QED BY <1>1, SerialInvariant, PTL

-----------------------------------------------------------------------------
(* The refinement of the abstract store *)

LEMMA DurableInit == Init => Durable!Init
BY DEF Init, Durable!Init, OnDisk, StoreFile, Empty

LEMMA DurableStep ==
  ASSUME OneWriter, SerialInv, [Next]_vars
  PROVE  [Durable!Next]_(Durable!vars)
<1> USE WriterAssumption
    DEF SerialInv, RaceInv, TypeInv, TypeOK, procVars, fileVars, Saving,
        OnDisk, StoreFile, Durable!vars, Durable!Next
<1>1. CASE LoadStore
  BY <1>1 DEF LoadStore, Durable!Restart
<1>2. CASE RefuseToStart
  BY <1>2 DEF RefuseToStart
<1>3. CASE Crash
  <2>1. \A i \in Op : i = live => content'[i] = content[i]
    <3>1. ASSUME NEW t \in Task, task[t].pc = "opened" PROVE task[t].fd # live
      BY <3>1 DEF LoneInv, FreshInv, None
    <3> QED BY <1>3, <3>1 DEF Crash
  <2> QED BY <1>3, <2>1 DEF Crash, Durable!Stop
<1>4. CASE Halted
  BY <1>4 DEF Halted, vars
<1>5. ASSUME NEW t \in Task, Mutate(t) PROVE Durable!Apply
  <2>1. nextOp \in Op
    BY <1>5, BeginOp DEF Mutate
  <2> QED BY <1>5, <2>1 DEF Mutate, Durable!Apply
<1>6. ASSUME NEW t \in Task, Snapshot(t) PROVE UNCHANGED Durable!vars
  BY <1>6 DEF Snapshot
<1>7. ASSUME NEW t \in Task, OpenTmp(t) PROVE UNCHANGED Durable!vars
  <2>1. live # None => content'[live] = content[live]
    BY <1>7 DEF OpenTmp, FreshInv, None
  <2> QED BY <1>7, <2>1 DEF OpenTmp
<1>8. ASSUME NEW t \in Task, WriteTmp(t) PROVE UNCHANGED Durable!vars
  <2>1. live # None => content'[live] = content[live]
    BY <1>8 DEF WriteTmp, LoneInv, FreshInv
  <2> QED BY <1>8, <2>1 DEF WriteTmp
<1>9. ASSUME NEW t \in Task, RenameTmp(t) PROVE Durable!Save
  <2>1. OnDisk' = mem
    BY <1>9, ContentForms DEF RenameTmp, LoneInv
  <2>2. phase \in {"boot", "up"} /\ phase' \in {"boot", "up"} /\ mem' = mem
    BY <1>9 DEF RenameTmp, Leave, PhaseInv, Task
  <2>3. \E answered \in {{}} \cup {{o} : o \in mem} : acked' = acked \cup answered
    <3>1. CASE task[t].here /\ t \in Writer
      <4>1. task[t].op \in mem /\ acked' = acked \cup {task[t].op}
        BY <1>9, <3>1 DEF RenameTmp
      <4> QED BY <4>1
    <3>2. CASE ~(task[t].here /\ t \in Writer)
      <4>1. acked' = acked \cup {}
        BY <1>9, <3>2 DEF RenameTmp
      <4> QED BY <4>1
    <3> QED BY <3>1, <3>2
  <2> QED BY <2>1, <2>2, <2>3 DEF Durable!Save
<1>10. ASSUME NEW t \in Task, RenameMissing(t) PROVE FALSE
  BY <1>10 DEF RenameMissing, LoneInv
<1>11. ASSUME NEW t \in Task, CallFails(t)
       PROVE  Durable!Stop \/ UNCHANGED Durable!vars
  <2>1. live # None => content'[live] = content[live]
    BY <1>11 DEF CallFails, LoneInv, FreshInv
  <2> QED BY <1>11, <2>1 DEF CallFails, Leave, PhaseInv, Task, Durable!Stop
<1>12. ASSUME NEW t \in Task, Disconnect(t) PROVE UNCHANGED Durable!vars
  BY <1>12 DEF Disconnect
<1>13. CASE UNCHANGED vars
  BY <1>13 DEF vars
<1> QED
  BY <1>1, <1>2, <1>3, <1>4, <1>5, <1>6, <1>7, <1>8, <1>9, <1>10, <1>11,
     <1>12, <1>13 DEF Next, Persist

(* With one request at a time, the file store is the abstract store: every *)
(* step of persist(), of start-up and of a crash is a step of DurableStore *)
(* or is invisible to callers.                                             *)
THEOREM SerialRefinement ==
  ASSUME OneWriter PROVE Spec => ImplementsDurableStore
<1>1. SerialInv /\ [Next]_vars => [Durable!Next]_(Durable!vars)
  BY DurableStep
<1> QED
  BY <1>1, DurableInit, SerialInvariant, PTL
  DEF Spec, ImplementsDurableStore, Durable!Spec
=============================================================================
