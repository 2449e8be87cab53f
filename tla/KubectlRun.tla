------------------------------ MODULE KubectlRun ------------------------------
(***************************************************************************)
(* One run of kubectl: execute_kubectl_read_for_source and what it calls,  *)
(* in src/action-gateway/src/actions.rs.  The kubeconfig of the source may *)
(* be written to a temporary file; kubectl is started with a time limit;   *)
(* two tasks of their own read its output, and keep no more of it than the *)
(* policy allows.  kubectl may itself start processes (credential plugins) *)
(* that inherit its output and outlive it.                                 *)
(*                                                                         *)
(* Output is counted in bytes: what a stream delivers, it delivers in      *)
(* order, so a count says which part of it was kept.                       *)
(***************************************************************************)
EXTENDS Naturals

CONSTANTS
  MaxOutput,  \* max_output_bytes
  Buffer,     \* bytes that one read may return: 8192 in the code
  PipeSize,   \* bytes that the kernel keeps of a stream
  MaxWritten  \* bound: bytes written to a stream

ASSUME KubectlAssumption ==
  /\ MaxOutput \in Nat /\ MaxWritten \in Nat
  /\ Buffer \in Nat \ {0} /\ PipeSize \in Nat \ {0}

Stream == {"stdout", "stderr"}

VARIABLES
  pc,         \* the handler
  file,       \* the temporary kubeconfig: none, partial, written
  child,      \* kubectl: none, running, succeeded, failed, killed
  heirs,      \* streams held open by processes that kubectl left behind
  written,    \* bytes written to each stream
  pipe,       \* bytes in each pipe
  reader,     \* the reading tasks: none, reading, done, failed
  stored,     \* bytes that each reader has kept
  truncated,  \* what each reader says of its stream
  timedOut,   \* the time limit passed first
  answer,     \* the status that is reported
  careless    \* history: a call on the temporary file failed

outside == <<child, heirs, written>>
readers == <<pipe, reader, stored, truncated>>
vars == <<pc, file, outside, readers, timedOut, answer, careless>>

Init ==
  /\ pc = "start" /\ file = "none" /\ child = "none" /\ heirs = {}
  /\ written = [s \in Stream |-> 0] /\ pipe = [s \in Stream |-> 0]
  /\ reader = [s \in Stream |-> "none"]
  /\ stored = [s \in Stream |-> 0] /\ truncated = [s \in Stream |-> FALSE]
  /\ timedOut = FALSE /\ answer = "none" /\ careless = FALSE

Least(m, n) == IF m < n THEN m ELSE n

-----------------------------------------------------------------------------
(* kubectl and the processes it leaves behind *)

Holds(s) == child = "running" \/ s \in heirs

Write(s) ==
  /\ Holds(s) /\ reader[s] # "failed"
  /\ pipe[s] < PipeSize /\ written[s] < MaxWritten
  /\ written' = [written EXCEPT ![s] = written[s] + 1]
  /\ pipe' = [pipe EXCEPT ![s] = pipe[s] + 1]
  /\ UNCHANGED <<pc, file, child, heirs, reader, stored, truncated, timedOut,
                 answer, careless>>

ChildEnds(how) ==
  /\ child' = how
  /\ heirs' \in SUBSET Stream
  /\ UNCHANGED written

Exit ==
  /\ child = "running"
  /\ ChildEnds("succeeded") \/ ChildEnds("failed")
  /\ UNCHANGED <<pc, file, readers, timedOut, answer, careless>>

HeirEnds(s) ==
  /\ s \in heirs /\ heirs' = heirs \ {s}
  /\ UNCHANGED <<pc, file, child, written, readers, timedOut, answer, careless>>

-----------------------------------------------------------------------------
(* read_stream_limited, a task of its own for each stream *)

(* Mutants: the loop breaks off at the limit, or counts an exact fit as    *)
(* too much.                                                               *)
ReadBreaksOff(s) ==
  /\ reader[s] = "reading" /\ pipe[s] > 0
  /\ pipe' = [pipe EXCEPT ![s] = pipe[s] - 1]
  /\ stored' = [stored EXCEPT ![s] = Least(stored[s] + 1, MaxOutput)]
  /\ reader' = [reader EXCEPT ![s] = IF stored[s] + 1 < MaxOutput THEN "reading" ELSE "done"]
  /\ UNCHANGED <<pc, file, outside, truncated, timedOut, answer, careless>>

ReadFits(s) ==
  /\ reader[s] = "reading" /\ pipe[s] > 0
  /\ \E n \in 1..Least(Buffer, pipe[s]) :
       LET kept == Least(MaxOutput - stored[s], n) IN
       /\ pipe' = [pipe EXCEPT ![s] = pipe[s] - n]
       /\ stored' = [stored EXCEPT ![s] = stored[s] + kept]
       /\ truncated' = [truncated EXCEPT ![s] = stored[s] + n >= MaxOutput]
  /\ UNCHANGED <<pc, file, outside, reader, timedOut, answer, careless>>

(* Above the limit the loop goes on reading, and drops what it reads.      *)
Read(s) ==
  /\ reader[s] = "reading" /\ pipe[s] > 0
  /\ \E n \in 1..Least(Buffer, pipe[s]) :
       LET kept == Least(MaxOutput - stored[s], n) IN
       /\ pipe' = [pipe EXCEPT ![s] = pipe[s] - n]
       /\ stored' = [stored EXCEPT ![s] = stored[s] + kept]
       /\ truncated' = [truncated EXCEPT ![s] = truncated[s] \/ kept < n]
  /\ UNCHANGED <<pc, file, outside, reader, timedOut, answer, careless>>

(* A read returns nothing when the pipe is empty and nobody holds it.      *)
ReadEnd(s) ==
  /\ reader[s] = "reading" /\ pipe[s] = 0 /\ ~Holds(s)
  /\ reader' = [reader EXCEPT ![s] = "done"]
  /\ UNCHANGED <<pc, file, outside, pipe, stored, truncated, timedOut, answer,
                 careless>>

(* The task ends with an error, and with it the reading end of the pipe. *)
ReadFails(s) ==
  /\ reader[s] = "reading"
  /\ reader' = [reader EXCEPT ![s] = "failed"]
  /\ pipe' = [pipe EXCEPT ![s] = 0]
  /\ UNCHANGED <<pc, file, outside, stored, truncated, timedOut, answer, careless>>

-----------------------------------------------------------------------------
(* The handler *)

At(here) == pc = here

(* The source record is missing or has neither a kubeconfig nor a path. *)
LackConfig ==
  /\ At("start") /\ pc' = "answered" /\ answer' = "error"
  /\ UNCHANGED <<file, outside, readers, timedOut, careless>>

UsePath ==
  /\ At("start") /\ pc' = "spawn"
  /\ UNCHANGED <<file, outside, readers, timedOut, answer, careless>>

WriteConfig ==
  /\ At("start") /\ pc' = "spawn" /\ file' = "written"
  /\ UNCHANGED <<outside, readers, timedOut, answer, careless>>

(* An early return: what was written of the file stays. *)
WriteConfigFails ==
  /\ At("start") /\ pc' = "answered" /\ answer' = "error"
  /\ file' \in {"none", "partial"} /\ careless' = TRUE
  /\ UNCHANGED <<outside, readers, timedOut>>

Spawn ==
  /\ At("spawn") /\ pc' = "waiting"
  /\ child' = "running" /\ reader' = [s \in Stream |-> "reading"]
  /\ UNCHANGED <<file, heirs, written, pipe, stored, truncated, timedOut, answer,
                 careless>>

SpawnFails ==
  /\ At("spawn") /\ pc' = "remove" /\ answer' = "error"
  /\ UNCHANGED <<file, outside, readers, timedOut, careless>>

(* kubectl is killed when the early return drops it. *)
WaitFails ==
  /\ At("waiting") /\ pc' = "remove" /\ answer' = "error"
  /\ IF child = "running" THEN ChildEnds("killed") ELSE UNCHANGED outside
  /\ UNCHANGED <<file, readers, timedOut, careless>>

Waited ==
  /\ At("waiting") /\ child # "running" /\ pc' = "join"
  /\ UNCHANGED <<file, outside, readers, timedOut, answer, careless>>

Timeout ==
  /\ At("waiting") /\ child = "running" /\ pc' = "kill" /\ timedOut' = TRUE
  /\ UNCHANGED <<file, outside, readers, answer, careless>>

(* Mutant: the time limit kills nothing. *)
KillNothing ==
  /\ At("kill") /\ pc' = "join"
  /\ UNCHANGED <<file, outside, readers, timedOut, answer, careless>>

(* kubectl may have ended by itself when the signal is sent. *)
Kill ==
  /\ At("kill") /\ pc' = "join"
  /\ IF child = "running" THEN ChildEnds("killed") ELSE UNCHANGED outside
  /\ UNCHANGED <<file, readers, timedOut, answer, careless>>

(* Mutant: the exit status alone decides. *)
StatusOfExit == IF child = "succeeded" THEN "succeeded" ELSE "failed"

Status ==
  IF timedOut THEN "timeout"
  ELSE IF child = "succeeded" THEN "succeeded" ELSE "failed"

Join ==
  /\ At("join") /\ \A s \in Stream : reader[s] = "done"
  /\ pc' = "remove" /\ answer' = Status
  /\ UNCHANGED <<file, outside, readers, timedOut, careless>>

(* stdout is joined first; whoever reads stderr by then is left alone. *)
JoinFails ==
  /\ At("join") /\ pc' = "remove" /\ answer' = "error"
  /\ \/ reader["stdout"] = "failed"
     \/ reader["stdout"] = "done" /\ reader["stderr"] = "failed"
  /\ UNCHANGED <<file, outside, readers, timedOut, careless>>

(* Mutant: a run that timed out returns before the removal. *)
RemoveUnlessTimeout ==
  /\ At("remove") /\ pc' = "answered"
  /\ file' = IF timedOut THEN file ELSE "none"
  /\ UNCHANGED <<outside, readers, timedOut, answer, careless>>

Remove ==
  /\ At("remove") /\ pc' = "answered" /\ file' = "none"
  /\ UNCHANGED <<outside, readers, timedOut, answer, careless>>

RemoveFails ==
  /\ At("remove") /\ file = "written" /\ pc' = "answered" /\ careless' = TRUE
  /\ UNCHANGED <<file, outside, readers, timedOut, answer>>

(* Mutant: without kill_on_drop. *)
DisconnectSpares ==
  /\ pc \notin {"answered", "gone"} /\ pc' = "gone"
  /\ UNCHANGED <<file, outside, readers, timedOut, answer, careless>>

(* The client goes away and the handler is dropped where it waits.  kubectl *)
(* is killed on drop, the readers go on, and nobody removes the file; a    *)
(* write of it under way may still finish.                                 *)
Disconnect ==
  /\ pc \notin {"answered", "gone"} /\ pc' = "gone"
  /\ IF child = "running" THEN ChildEnds("killed") ELSE UNCHANGED outside
  /\ file' \in IF At("start") THEN {"none", "partial", "written"} ELSE {file}
  /\ UNCHANGED <<readers, timedOut, answer, careless>>

Handle ==
  \/ LackConfig \/ UsePath \/ WriteConfig \/ WriteConfigFails
  \/ Spawn \/ SpawnFails
  \/ WaitFails \/ Waited \/ Timeout \/ Kill \/ Join \/ JoinFails
  \/ Remove \/ RemoveFails

Settled ==
  /\ pc \in {"answered", "gone"} /\ heirs = {}
  /\ \A s \in Stream : reader[s] # "reading"
  /\ UNCHANGED vars

Next ==
  \/ Handle \/ Disconnect \/ Exit \/ Settled
  \/ \E s \in Stream : Write(s) \/ HeirEnds(s) \/ Read(s) \/ ReadEnd(s) \/ ReadFails(s)

Spec == Init /\ [][Next]_vars

(* The runtime polls the handler and the readers, and the clock runs.      *)
(* Nothing makes kubectl, what it left behind, or the client do anything.  *)
FairSpec ==
  /\ Spec /\ WF_vars(Handle)
  /\ \A s \in Stream : WF_vars(Read(s)) /\ WF_vars(ReadEnd(s))

-----------------------------------------------------------------------------
TypeOK ==
  /\ pc \in {"start", "spawn", "waiting", "kill", "join", "remove", "answered", "gone"}
  /\ file \in {"none", "partial", "written"}
  /\ child \in {"none", "running", "succeeded", "failed", "killed"}
  /\ heirs \subseteq Stream
  /\ written \in [Stream -> 0..MaxWritten]
  /\ pipe \in [Stream -> 0..PipeSize]
  /\ reader \in [Stream -> {"none", "reading", "done", "failed"}]
  /\ stored \in [Stream -> 0..MaxOutput]
  /\ truncated \in [Stream -> BOOLEAN]
  /\ timedOut \in BOOLEAN /\ careless \in BOOLEAN
  /\ answer \in {"none", "error", "succeeded", "failed", "timeout"}

(* What is reported of a stream is its beginning, as much as the limit     *)
(* allows, and truncated says exactly whether something is missing, also   *)
(* when the output ends at the limit.                                      *)
OutputIsHonest ==
  answer \in {"succeeded", "failed", "timeout"} =>
    \A s \in Stream :
      /\ stored[s] = Least(written[s], MaxOutput)
      /\ truncated[s] <=> written[s] > MaxOutput

(* Only a run that kubectl ended by itself, within the time limit and with *)
(* code 0, is reported as a success.                                       *)
SuccessIsTimely == answer = "succeeded" => child = "succeeded" /\ ~timedOut

(* kubectl does not outlive its request, however the request ends.         *)
NoOrphan == pc \in {"answered", "gone"} => child # "running"

(* The kubeconfig does not outlive an answered request, unless a call on   *)
(* the file failed.                                                        *)
KubeconfigRemoved == pc = "answered" => file = "none" \/ careless

(* The limit on the output never stops kubectl: a full pipe is emptied.    *)
PipesDrain ==
  \A s \in Stream : pipe[s] = PipeSize ~> pipe[s] < PipeSize

(* The time limit bounds the request as far as the gateway can: it is      *)
(* answered if what kubectl left behind lets go of the output.             *)
AnsweredOnceAlone ==
  <>[](heirs = {}) => <>(pc \in {"answered", "gone"})

=============================================================================
