--------------------------- MODULE KubectlRunProofs ---------------------------
(***************************************************************************)
(* Proofs about KubectlRun for every limit, buffer and pipe size.          *)
(*                                                                         *)
(* The properties speak of a run that is over.  To hold then, they need to *)
(* know what each reader has done so far (Accounting), that a reader ends  *)
(* only when its stream can deliver nothing more (Exhausted), and where    *)
(* the handler is when kubectl runs (Supervised).                          *)
(***************************************************************************)
EXTENDS KubectlRun, Integers, TLAPS

USE KubectlAssumption

(* What has left the pipe is what the reader has seen, unless it failed. *)
Seen(s) == written[s] - pipe[s]

Accounting ==
  \A s \in Stream :
    /\ pipe[s] <= written[s]
    /\ reader[s] # "failed" =>
         /\ stored[s] = Least(Seen(s), MaxOutput)
         /\ truncated[s] <=> Seen(s) > MaxOutput

Exhausted ==
  \A s \in Stream : reader[s] = "done" => pipe[s] = 0 /\ ~Holds(s)

Supervised ==
  /\ pc = "start" => file = "none"
  /\ pc \in {"start", "spawn"} =>
       child = "none" /\ \A s \in Stream : reader[s] = "none"
  /\ pc \in {"join", "remove", "answered", "gone"} => child # "running"

Reported ==
  answer \in {"succeeded", "failed", "timeout"} =>
    /\ pc \in {"remove", "answered", "gone"}
    /\ answer = Status
    /\ \A s \in Stream : reader[s] = "done"

IInv == TypeOK /\ Accounting /\ Exhausted /\ Supervised /\ Reported /\ KubeconfigRemoved

LEMMA LeastOfNat ==
  ASSUME NEW m \in Nat, NEW n \in Nat
  PROVE  Least(m, n) \in Nat /\ Least(m, n) <= m /\ Least(m, n) <= n
BY DEF Least

LEMMA Starts == Init => IInv
<1> SUFFICES ASSUME Init PROVE IInv
  OBVIOUS
<1> USE DEF Init
<1>1. TypeOK
  <2>1. 0 \in 0..MaxWritten /\ 0 \in 0..PipeSize /\ 0 \in 0..MaxOutput
    OBVIOUS
  <2>2. timedOut \in BOOLEAN /\ careless \in BOOLEAN /\ truncated \in [Stream -> BOOLEAN]
    OBVIOUS
  <2> QED
    BY <2>1, <2>2 DEF TypeOK
<1>2. Accounting
  <2>1. \A s \in Stream : pipe[s] = 0 /\ written[s] = 0 /\ stored[s] = 0 /\ ~truncated[s]
    OBVIOUS
  <2>2. Least(0 - 0, MaxOutput) = 0 /\ ~(0 - 0 > MaxOutput)
    BY DEF Least
  <2> QED
    BY <2>1, <2>2 DEF Accounting, Seen
<1>3. Exhausted
  BY DEF Exhausted
<1> QED
  BY <1>1, <1>2, <1>3 DEF IInv, Supervised, Reported, KubeconfigRemoved

-----------------------------------------------------------------------------
(* The steps of a stream.  A write moves nothing that has been seen. *)
LEMMA WriteKeeps ==
  ASSUME IInv, NEW s \in Stream, Write(s)
  PROVE  IInv'
<1> USE DEF IInv, Write
<1>1. TypeOK'
  BY DEF TypeOK
<1>2. Accounting'
  <2> SUFFICES ASSUME NEW t \in Stream
               PROVE  /\ pipe'[t] <= written'[t]
                      /\ reader'[t] # "failed" =>
                           /\ stored'[t] = Least(written'[t] - pipe'[t], MaxOutput)
                           /\ truncated'[t] <=> written'[t] - pipe'[t] > MaxOutput
    BY DEF Accounting, Seen
  <2>1. pipe[t] \in Nat /\ written[t] \in Nat
    BY DEF TypeOK
  <2>2. pipe'[t] <= written'[t] /\ written'[t] - pipe'[t] = written[t] - pipe[t]
    BY <2>1 DEF TypeOK, Accounting
  <2> QED
    BY <2>2 DEF Accounting, Seen
<1>3. Exhausted'
  BY DEF TypeOK, Exhausted, Holds
<1> QED
  BY <1>1, <1>2, <1>3 DEF Supervised, Reported, Status, KubeconfigRemoved

(* A read of n bytes keeps as many as the limit still allows. *)
LEMMA ReadKeeps ==
  ASSUME IInv, NEW s \in Stream, Read(s)
  PROVE  IInv'
<1> USE DEF IInv
<1>1. PICK n \in 1..Least(Buffer, pipe[s]) :
        /\ pipe' = [pipe EXCEPT ![s] = pipe[s] - n]
        /\ stored' = [stored EXCEPT ![s] = stored[s] + Least(MaxOutput - stored[s], n)]
        /\ truncated' = [truncated EXCEPT ![s] =
                           truncated[s] \/ Least(MaxOutput - stored[s], n) < n]
  BY DEF Read
<1>2. /\ pipe[s] \in Nat /\ written[s] \in Nat /\ stored[s] \in 0..MaxOutput
      /\ pipe[s] <= PipeSize
  BY DEF TypeOK
<1>3. n \in Nat /\ n >= 1 /\ n <= pipe[s]
  BY <1>2, LeastOfNat DEF Least
<1>4. /\ pipe[s] - n \in 0..PipeSize
      /\ stored[s] + Least(MaxOutput - stored[s], n) \in 0..MaxOutput
  BY <1>2, <1>3 DEF Least
<1>5. UNCHANGED <<pc, file, child, heirs, written, reader, timedOut, answer, careless>>
  BY DEF Read, outside
<1>6. TypeOK'
  BY <1>1, <1>4, <1>5 DEF TypeOK
<1>7. Accounting'
  <2> SUFFICES ASSUME NEW t \in Stream
               PROVE  /\ pipe'[t] <= written'[t]
                      /\ reader'[t] # "failed" =>
                           /\ stored'[t] = Least(written'[t] - pipe'[t], MaxOutput)
                           /\ truncated'[t] <=> written'[t] - pipe'[t] > MaxOutput
    BY DEF Accounting, Seen
  <2>1. CASE t # s
    BY <2>1, <1>1, <1>5 DEF Accounting, Seen, TypeOK
  <2>2. CASE t = s
    <3>1. /\ pipe'[s] = pipe[s] - n /\ written'[s] = written[s]
          /\ stored'[s] = stored[s] + Least(MaxOutput - stored[s], n)
          /\ truncated'[s] <=> (truncated[s] \/ Least(MaxOutput - stored[s], n) < n)
      BY <1>1, <1>5 DEF TypeOK
    <3>2. /\ pipe[s] <= written[s]
          /\ stored[s] = Least(written[s] - pipe[s], MaxOutput)
          /\ truncated[s] <=> written[s] - pipe[s] > MaxOutput
      BY DEF Accounting, Seen, Read
    <3>3. stored'[s] = Least(written'[s] - pipe'[s], MaxOutput)
      BY <3>1, <3>2, <1>2, <1>3 DEF Least
    <3>4. Least(MaxOutput - stored[s], n) < n <=> stored[s] + n > MaxOutput
      BY <1>2, <1>3 DEF Least
    <3>5. truncated'[s] <=> written'[s] - pipe'[s] > MaxOutput
      BY <3>1, <3>2, <3>4, <1>2, <1>3 DEF Least
    <3> QED
      BY <2>2, <3>1, <3>2, <3>3, <3>5, <1>2, <1>3
  <2> QED
    BY <2>1, <2>2
<1>8. Exhausted'
  BY <1>1, <1>2, <1>3, <1>5 DEF TypeOK, Exhausted, Holds, Read
<1> QED
  BY <1>5, <1>6, <1>7, <1>8 DEF Supervised, Reported, Status, KubeconfigRemoved

LEMMA ReadEndKeeps ==
  ASSUME IInv, NEW s \in Stream, ReadEnd(s)
  PROVE  IInv'
<1> USE DEF IInv, ReadEnd, outside
<1>1. TypeOK'
  BY DEF TypeOK
<1>2. Accounting'
  BY DEF Accounting, Seen
<1>3. Exhausted'
  BY DEF TypeOK, Exhausted, Holds
<1>4. Reported'
  BY DEF TypeOK, Reported, Status
<1> QED
  BY <1>1, <1>2, <1>3, <1>4 DEF Supervised, KubeconfigRemoved

(* The pipe of a reader that failed is closed. *)
LEMMA ReadFailsKeeps ==
  ASSUME IInv, NEW s \in Stream, ReadFails(s)
  PROVE  IInv'
<1> USE DEF IInv, ReadFails, outside
<1>1. TypeOK'
  BY DEF TypeOK
<1>2. Accounting'
  <2> SUFFICES ASSUME NEW t \in Stream
               PROVE  /\ pipe'[t] <= written'[t]
                      /\ reader'[t] # "failed" =>
                           /\ stored'[t] = Least(written'[t] - pipe'[t], MaxOutput)
                           /\ truncated'[t] <=> written'[t] - pipe'[t] > MaxOutput
    BY DEF Accounting, Seen
  <2>1. CASE t # s
    BY <2>1 DEF Accounting, Seen, TypeOK
  <2>2. CASE t = s
    BY <2>2 DEF TypeOK
  <2> QED
    BY <2>1, <2>2
<1>3. Exhausted'
  BY DEF TypeOK, Exhausted, Holds
<1>4. Reported'
  BY DEF TypeOK, Reported, Status
<1> QED
  BY <1>1, <1>2, <1>3, <1>4 DEF Supervised, KubeconfigRemoved

LEMMA HeirEndKeeps ==
  ASSUME IInv, NEW s \in Stream, HeirEnds(s)
  PROVE  IInv'
<1> USE DEF IInv, HeirEnds, readers
<1>1. TypeOK'
  BY DEF TypeOK
<1>2. Accounting'
  BY DEF Accounting, Seen
<1>3. Exhausted'
  BY DEF Exhausted, Holds
<1> QED
  BY <1>1, <1>2, <1>3 DEF Supervised, Reported, Status, KubeconfigRemoved

-----------------------------------------------------------------------------
(* The readers are not disturbed by the end of kubectl: while it runs none *)
(* of them is done.                                                        *)
LEMMA ChildEndKeeps ==
  ASSUME IInv, child = "running", NEW how \in {"succeeded", "failed", "killed"},
         ChildEnds(how), UNCHANGED readers
  PROVE  Accounting' /\ Exhausted'
<1>1. Accounting'
  BY DEF IInv, Accounting, Seen, ChildEnds, readers
<1>2. \A s \in Stream : reader[s] # "done"
  BY DEF IInv, Exhausted, Holds
<1> QED
  BY <1>1, <1>2 DEF Exhausted, readers

LEMMA ExitKeeps ==
  ASSUME IInv, Exit
  PROVE  IInv'
<1>1. PICK how \in {"succeeded", "failed"} : ChildEnds(how)
  BY DEF Exit
<1>2. Accounting' /\ Exhausted'
  BY <1>1, ChildEndKeeps DEF Exit
<1>3. TypeOK'
  BY <1>1 DEF IInv, TypeOK, Exit, ChildEnds, readers
<1>4. Reported'
  BY DEF IInv, Supervised, Reported, Exit, readers
<1> QED
  BY <1>1, <1>2, <1>3, <1>4 DEF IInv, Supervised, KubeconfigRemoved, Exit, ChildEnds

(* The handler's steps that leave kubectl and the readers alone. *)
LEMMA QuietStepKeeps ==
  ASSUME IInv,
         \/ LackConfig \/ UsePath \/ WriteConfig \/ WriteConfigFails \/ SpawnFails \/ Waited
         \/ Timeout \/ Join \/ JoinFails \/ Remove \/ RemoveFails
  PROVE  IInv'
<1> USE DEF IInv, At, outside, readers, LackConfig, UsePath, WriteConfig,
            WriteConfigFails, SpawnFails, Waited, Timeout, Join, JoinFails, Remove, RemoveFails
<1>1. TypeOK'
  BY DEF TypeOK, Status
<1>2. Accounting' /\ Exhausted'
  BY DEF Accounting, Seen, Exhausted, Holds
<1>3. Supervised'
  BY DEF Supervised, TypeOK
<1>4. Reported'
  BY DEF Reported, Status
<1>5. KubeconfigRemoved'
  BY DEF KubeconfigRemoved, Supervised
<1> QED
  BY <1>1, <1>2, <1>3, <1>4, <1>5

LEMMA SpawnKeeps ==
  ASSUME IInv, Spawn
  PROVE  IInv'
<1> USE DEF IInv, Spawn, At
<1>1. TypeOK'
  BY DEF TypeOK
<1>2. Accounting' /\ Exhausted'
  <2>1. /\ reader' = [s \in Stream |-> "reading"] /\ \A s \in Stream : reader[s] = "none"
        /\ UNCHANGED <<written, pipe, stored, truncated>>
    BY DEF Supervised
  <2> QED
    BY <2>1 DEF Accounting, Seen, Exhausted
<1> QED
  BY <1>1, <1>2 DEF Supervised, Reported, KubeconfigRemoved

(* The handler's steps that end kubectl if it still runs. *)
LEMMA EndingStepKeeps ==
  ASSUME IInv, WaitFails \/ Kill \/ Disconnect
  PROVE  IInv'
<1> USE DEF WaitFails, Kill, Disconnect, At
<1>1. CASE child = "running"
  <2>1. ChildEnds("killed") /\ UNCHANGED readers
    BY <1>1
  <2>2. Accounting' /\ Exhausted'
    BY <1>1, <2>1, ChildEndKeeps
  <2>3. TypeOK'
    BY <2>1 DEF IInv, TypeOK, ChildEnds, readers
  <2>4. Supervised' /\ Reported'
    BY <1>1, <2>1 DEF IInv, Supervised, Reported, ChildEnds
  <2> QED
    BY <2>2, <2>3, <2>4 DEF IInv, KubeconfigRemoved
<1>2. CASE child # "running"
  <2>1. UNCHANGED outside /\ UNCHANGED readers
    BY <1>2
  <2>2. Accounting' /\ Exhausted'
    BY <2>1 DEF IInv, Accounting, Seen, Exhausted, Holds, outside, readers
  <2>3. TypeOK'
    BY <2>1 DEF IInv, TypeOK, outside, readers
  <2>4. Supervised'
    BY <1>2, <2>1 DEF IInv, Supervised, outside
  <2>5. Reported'
    BY <2>1 DEF IInv, Reported, Status, outside, readers
  <2> QED
    BY <2>2, <2>3, <2>4, <2>5 DEF IInv, KubeconfigRemoved
<1> QED
  BY <1>1, <1>2

LEMMA Keeps == IInv /\ [Next]_vars => IInv'
<1> SUFFICES ASSUME IInv, [Next]_vars PROVE IInv'
  OBVIOUS
<1>1. CASE Handle
  <2>1. CASE WaitFails \/ Kill
    BY <2>1, EndingStepKeeps
  <2>2. CASE Spawn
    BY <2>2, SpawnKeeps
  <2> QED
    BY <1>1, <2>1, <2>2, QuietStepKeeps DEF Handle
<1>2. CASE Disconnect
  BY <1>2, EndingStepKeeps
<1>3. CASE Exit
  BY <1>3, ExitKeeps
<1>4. ASSUME NEW s \in Stream,
             Write(s) \/ HeirEnds(s) \/ Read(s) \/ ReadEnd(s) \/ ReadFails(s)
      PROVE  IInv'
  BY <1>4, WriteKeeps, HeirEndKeeps, ReadKeeps, ReadEndKeeps, ReadFailsKeeps
<1>5. CASE UNCHANGED vars
  BY <1>5 DEF vars, outside, readers, IInv, TypeOK, Accounting, Seen, Exhausted, Holds,
              Supervised, Reported, Status, KubeconfigRemoved
<1> QED
  BY <1>1, <1>2, <1>3, <1>4, <1>5 DEF Next, Settled

LEMMA Inductive == Spec => []IInv
BY Starts, Keeps, PTL DEF Spec

-----------------------------------------------------------------------------
(* Every run stays within its types and its limits: no reader keeps more   *)
(* than MaxOutput bytes, however its reads and the writes interleave.      *)
THEOREM TypeCorrect == Spec => []TypeOK
<1>1. IInv => TypeOK
  BY DEF IInv
<1> QED
  BY <1>1, Inductive, PTL

(* What is reported of a stream is its beginning up to the limit, and      *)
(* truncated says whether more was written: at the end the pipe is empty   *)
(* and nobody can write, so what was seen is what was written.             *)
THEOREM OutputHonest == Spec => []OutputIsHonest
<1>1. IInv => OutputIsHonest
  <2> SUFFICES ASSUME IInv, answer \in {"succeeded", "failed", "timeout"}, NEW s \in Stream
               PROVE  /\ stored[s] = Least(written[s], MaxOutput)
                      /\ truncated[s] <=> written[s] > MaxOutput
    BY DEF OutputIsHonest
  <2>1. pipe[s] = 0
    BY DEF IInv, Reported, Exhausted
  <2>2. Seen(s) = written[s]
    BY <2>1 DEF Seen, IInv, TypeOK
  <2>3. reader[s] # "failed"
    BY DEF IInv, Reported
  <2> QED
    BY <2>2, <2>3 DEF IInv, Accounting
<1> QED
  BY <1>1, Inductive, PTL

(* A success is reported only of a run that ended by itself, in time and   *)
(* with code 0, whichever of exit and time limit the handler saw first.    *)
THEOREM SuccessTimely == Spec => []SuccessIsTimely
<1>1. IInv => SuccessIsTimely
  BY DEF IInv, SuccessIsTimely, Reported, Status
<1> QED
  BY <1>1, Inductive, PTL

(* kubectl does not outlive its request, at whichever step it ends.        *)
THEOREM NoOrphans == Spec => []NoOrphan
<1>1. IInv => NoOrphan
  BY DEF IInv, NoOrphan, Supervised
<1> QED
  BY <1>1, Inductive, PTL

(* An answered request has left no kubeconfig behind, unless a call on the *)
(* file itself failed.                                                     *)
THEOREM KubeconfigGone == Spec => []KubeconfigRemoved
<1>1. IInv => KubeconfigRemoved
  BY DEF IInv
<1> QED
  BY <1>1, Inductive, PTL

=============================================================================
