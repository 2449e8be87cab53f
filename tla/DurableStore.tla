----------------------------- MODULE DurableStore -----------------------------
(***************************************************************************)
(* What the file store promises to the handlers that call it                *)
(* (src/action-gateway/src/store.rs): a state in memory that operations    *)
(* change, a copy of it on disk that is replaced as a whole, an answer     *)
(* only for an operation that the copy holds, and a restart from the copy. *)
(***************************************************************************)
CONSTANT Op      \* the operations

VARIABLES
  up,      \* whether a process holds the state in memory
  mem,     \* the operations applied in memory
  disk,    \* the operations that the copy on disk holds
  acked    \* the operations answered with success

vars == <<up, mem, disk, acked>>

TypeOK ==
  /\ up \in BOOLEAN
  /\ mem \in SUBSET Op
  /\ disk \in SUBSET Op
  /\ acked \in SUBSET Op

Init == up = FALSE /\ mem = {} /\ disk = {} /\ acked = {}

Restart ==
  /\ ~up /\ up' = TRUE
  /\ mem' = disk
  /\ UNCHANGED <<disk, acked>>

Stop ==
  /\ up /\ up' = FALSE
  /\ mem' = {}
  /\ UNCHANGED <<disk, acked>>

Apply ==
  /\ up
  /\ \E o \in Op : mem' = mem \cup {o}
  /\ UNCHANGED <<up, disk, acked>>

(* The copy is replaced, and at most one operation is answered: none when  *)
(* its client is gone, or when the copy is made at start-up.               *)
Save ==
  /\ up
  /\ disk' = mem
  /\ \E answered \in {{}} \cup {{o} : o \in mem} : acked' = acked \cup answered
  /\ UNCHANGED <<up, mem>>

Next == Restart \/ Stop \/ Apply \/ Save

Spec == Init /\ [][Next]_vars

(* No answer is ever taken back, by a restart or by a later save. *)
AnswersKept == acked \subseteq disk

===============================================================================
