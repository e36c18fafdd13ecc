------------------------------- MODULE Runner -------------------------------
(***************************************************************************)
(* Runner.run: a child process, one thread per pipe that drains it, and    *)
(* the caller, who waits with a timeout, terminates, waits for a grace     *)
(* period, kills, and joins the threads before it reads what they          *)
(* captured.  The child may be blocked on a full pipe, ignore SIGTERM, or  *)
(* leave a descendant behind that keeps the pipes open.                    *)
(***************************************************************************)
EXTENDS Naturals

CONSTANTS
  Streams,      \* stdout and stderr
  Capacity,     \* what a pipe holds, in chunks
  MaxChunks,    \* bound: how much is written to each stream
  Faults        \* what this instance admits

FaultKinds == {"read", "descendant"}

ASSUME CapacityAssumption == Capacity \in Nat \ {0} /\ MaxChunks \in Nat
ASSUME FaultAssumption == Faults \subseteq FaultKinds

VARIABLES
  main,         \* where the caller is
  termination,  \* what its evidence will say
  child,        \* the process
  exit,         \* how it ended: by itself or by a signal
  signals,      \* the signals it was sent
  heirs,        \* the pipes that a descendant of it holds open
  written,      \* chunks written to each stream
  pipe,         \* chunks in each pipe
  drain,        \* where the thread of each stream is
  captured,     \* chunks in each buffer
  returned      \* the buffers at the return of run

process == <<child, exit, signals, heirs>>
streams == <<written, pipe, drain, captured>>
vars == <<main, termination, process, streams, returned>>

Places == {"spawn", "wait", "terminate", "grace", "kill", "reap", "join", "done"}
Terminations == {"completed", "terminated", "killed", "spawn_failed"}
Nothing == [s \in Streams |-> 0]

Init ==
  /\ main = "spawn" /\ termination = "completed"
  /\ child = "none" /\ exit = "none" /\ signals = {} /\ heirs = {}
  /\ written = Nothing /\ pipe = Nothing /\ captured = Nothing /\ returned = Nothing
  /\ drain = [s \in Streams |-> "off"]

-----------------------------------------------------------------------------
(* The caller. *)

\* Mutant: the pipes are read once the child is over.
DrainLater == [s \in Streams |-> "off"]
\* Both threads are started before the first wait.
DrainFrom == [s \in Streams |-> "reading"]

\* popen, and what it may raise.
Spawn ==
  /\ main = "spawn"
  /\ \/ /\ main' = "wait" /\ child' = "alive" /\ drain' = DrainFrom
        /\ UNCHANGED termination
     \/ /\ main' = "done" /\ termination' = "spawn_failed"
        /\ UNCHANGED <<child, drain>>
  /\ UNCHANGED <<exit, signals, heirs, written, pipe, captured, returned>>

\* wait returns with the exit code: what the evidence says depends on which.
Reap(from, verdict) ==
  /\ main = from /\ child = "zombie"
  /\ child' = "reaped" /\ main' = "join" /\ termination' = verdict
  /\ UNCHANGED <<exit, signals, heirs, streams, returned>>

\* wait raises TimeoutExpired; the child may end by itself before the next step.
Expire(from, to) ==
  /\ main = from /\ child = "alive"
  /\ main' = to
  /\ UNCHANGED <<termination, process, streams, returned>>

\* terminate and kill look whether the child is alive and send a signal.
Signal(from, to, signal) ==
  /\ main = from /\ main' = to
  /\ signals' = IF child = "alive" THEN signals \cup {signal} ELSE signals
  /\ UNCHANGED <<termination, child, exit, heirs, streams, returned>>

\* Mutants: the last signal can be ignored too; nobody waits after it; the buffers
\* are read without joining the threads.
LastSignalPolite == "SIGTERM"
AfterKillJoin == "join"
NotJoined == TRUE
LastSignal == "SIGKILL"
\* The child is waited for once more, without a timeout.
AfterKill == "reap"
\* join returns when the threads are over.
Joined == \A s \in Streams : drain[s] \in {"eof", "error"}

Return ==
  /\ main = "join" /\ Joined
  /\ main' = "done" /\ returned' = captured
  /\ UNCHANGED <<termination, process, streams>>

Main ==
  \/ Spawn
  \/ Reap("wait", "completed") \/ Expire("wait", "terminate")
  \/ Signal("terminate", "grace", "SIGTERM")
  \/ Reap("grace", "terminated") \/ Expire("grace", "kill")
  \/ Signal("kill", AfterKill, LastSignal)
  \/ Reap("reap", "killed")
  \/ Return

-----------------------------------------------------------------------------
(* The threads. *)

\* Mutant: the thread does not wait for data.
ReadAhead(s) ==
  /\ drain[s] = "reading"
  /\ pipe' = [pipe EXCEPT ![s] = @ - 1]
  /\ captured' = [captured EXCEPT ![s] = @ + 1]
  /\ UNCHANGED <<main, termination, process, written, drain, returned>>

Read(s) ==
  /\ drain[s] = "reading" /\ pipe[s] > 0
  /\ pipe' = [pipe EXCEPT ![s] = @ - 1]
  /\ captured' = [captured EXCEPT ![s] = @ + 1]
  /\ UNCHANGED <<main, termination, process, written, drain, returned>>

\* A stream ends when it is empty and no process holds its other end.
EndOfStream(s) ==
  /\ drain[s] = "reading" /\ pipe[s] = 0
  /\ child # "alive" /\ s \notin heirs
  /\ drain' = [drain EXCEPT ![s] = "eof"]
  /\ UNCHANGED <<main, termination, process, written, pipe, captured, returned>>

\* The error is recorded; nobody reads this pipe any more.
ReadError(s) ==
  /\ "read" \in Faults
  /\ drain[s] = "reading"
  /\ drain' = [drain EXCEPT ![s] = "error"]
  /\ UNCHANGED <<main, termination, process, written, pipe, captured, returned>>

Drain(s) == Read(s) \/ EndOfStream(s) \/ ReadError(s)

-----------------------------------------------------------------------------
(* The child and a descendant that inherited its pipes. *)

Write(s) ==
  /\ child = "alive" \/ s \in heirs
  /\ pipe[s] < Capacity /\ written[s] < MaxChunks
  /\ pipe' = [pipe EXCEPT ![s] = @ + 1]
  /\ written' = [written EXCEPT ![s] = @ + 1]
  /\ UNCHANGED <<main, termination, process, drain, captured, returned>>

Fork ==
  /\ "descendant" \in Faults
  /\ child = "alive" /\ heirs # Streams
  /\ heirs' = Streams
  /\ UNCHANGED <<main, termination, child, exit, signals, streams, returned>>

DescendantCloses(s) ==
  /\ s \in heirs
  /\ heirs' = heirs \ {s}
  /\ UNCHANGED <<main, termination, child, exit, signals, streams, returned>>

\* By itself, at any time; by SIGTERM, if it does not ignore it.
End ==
  /\ child = "alive"
  /\ child' = "zombie"
  /\ exit' \in {"own"} \cup (IF signals = {} THEN {} ELSE {"signal"})
  /\ UNCHANGED <<main, termination, signals, heirs, streams, returned>>

\* SIGKILL cannot be ignored.
Killed ==
  /\ "SIGKILL" \in signals
  /\ child = "alive"
  /\ child' = "zombie" /\ exit' = "signal"
  /\ UNCHANGED <<main, termination, signals, heirs, streams, returned>>

-----------------------------------------------------------------------------
Next ==
  \/ Main
  \/ \E s \in Streams : Drain(s) \/ Write(s) \/ DescendantCloses(s)
  \/ Fork \/ End \/ Killed

Spec == Init /\ [][Next]_vars

\* Threads are scheduled, a timeout expires, and SIGKILL is delivered.  The child
\* and its descendants owe nothing: they may hang for ever.
FairSpec ==
  /\ Spec
  /\ WF_vars(Main)
  /\ \A s \in Streams : WF_vars(Drain(s))
  /\ WF_vars(Killed)

-----------------------------------------------------------------------------
(* Properties. *)

\* Each variable has its type; a pipe never holds more than its capacity.
TypeOK ==
  /\ main \in Places /\ termination \in Terminations
  /\ child \in {"none", "alive", "zombie", "reaped"}
  /\ exit \in {"none", "own", "signal"}
  /\ signals \subseteq {"SIGTERM", "SIGKILL"} /\ heirs \subseteq Streams
  /\ written \in [Streams -> 0 .. MaxChunks] /\ pipe \in [Streams -> 0 .. Capacity]
  /\ drain \in [Streams -> {"off", "reading", "eof", "error"}]
  /\ captured \in [Streams -> Nat] /\ returned \in [Streams -> Nat]

\* run returns with all that was written, in whatever order the child, its
\* descendants, the threads and the signals took turns, except to a stream whose
\* reading failed.
OutputIsComplete ==
  main = "done" => \A s \in Streams : drain[s] # "error" => returned[s] = written[s]

\* When run returns no child of it is left behind, and if it says that the job
\* completed, the job was never signalled.
NothingLeftBehind ==
  main = "done" =>
    /\ child = IF termination = "spawn_failed" THEN "none" ELSE "reaped"
    /\ termination = "completed" => signals = {} /\ exit = "own"

\* run returns, whatever the child does, unless a descendant holds a pipe open for
\* ever: the threads are joined without a timeout.
RunReturns == <>(main = "done" \/ (child = "reaped" /\ heirs # {}))

\* A child is never blocked for ever on a full pipe while its output can be read:
\* without threads that read while the caller waits, it would be timed out.
PipesAreDrained ==
  \A s \in Streams : pipe[s] = Capacity ~> pipe[s] < Capacity \/ drain[s] = "error"
=============================================================================
