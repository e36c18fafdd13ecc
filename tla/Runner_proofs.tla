---------------------------- MODULE Runner_proofs ----------------------------
(***************************************************************************)
(* Proofs about Runner, for any streams, capacity and amount of output:    *)
(* what run returns is complete, and no child is left behind.              *)
(***************************************************************************)
EXTENDS Runner, TLAPS

\* Every chunk is in the pipe or in the buffer.
Conserved == \A s \in Streams : written[s] = captured[s] + pipe[s]

\* A stream that ended is empty and has no writer, and a thread runs only while
\* there was a child.
Ended ==
  \A s \in Streams :
    /\ drain[s] = "eof" => pipe[s] = 0 /\ s \notin heirs /\ child \in {"zombie", "reaped"}
    /\ child = "none" => drain[s] = "off" /\ written[s] = 0 /\ returned[s] = 0

\* The buffers at the return are those of threads that are over.
Returned ==
  main = "done" => \A s \in Streams :
    /\ child = "none" \/ drain[s] \in {"eof", "error"}
    /\ drain[s] # "error" => returned[s] = captured[s]

\* How the child ended, and what the caller knows of it.
Evidence ==
  /\ exit = "signal" => signals # {}
  /\ child \in {"zombie", "reaped"} => exit \in {"own", "signal"}
  /\ child = "none" => main \in {"spawn", "done"} /\ heirs = {}
  /\ main = "spawn" => child = "none" /\ termination = "completed"
  /\ main \in {"spawn", "wait", "terminate"} => signals = {}
  /\ main \in {"join", "done"} =>
       /\ child = IF termination = "spawn_failed" THEN "none" ELSE "reaped"
       /\ termination = "completed" => signals = {} /\ exit = "own"
  /\ main \notin {"join", "done"} => termination = "completed" /\ child # "reaped"

\* The inductive invariant.
IInv == TypeOK /\ Conserved /\ Ended /\ Returned /\ Evidence

USE DEF process, streams, vars

LEMMA InitIInv == Init => IInv
BY CapacityAssumption
   DEF Init, IInv, TypeOK, Conserved, Ended, Returned, Evidence, Nothing, Places, Terminations

LEMMA TypeStep == TypeOK /\ [Next]_vars => TypeOK'
<1> SUFFICES ASSUME TypeOK, [Next]_vars PROVE TypeOK'
  OBVIOUS
<1> USE CapacityAssumption DEF TypeOK, Places, Terminations
<1>1. CASE Main
  BY <1>1 DEF Main, Spawn, Reap, Expire, Signal, Return, DrainFrom, LastSignal, AfterKill
<1>2. ASSUME NEW s \in Streams, Drain(s) PROVE TypeOK'
  <2>1. CASE Read(s)
    <3>1. pipe[s] - 1 \in 0 .. Capacity /\ captured[s] + 1 \in Nat
      BY <2>1 DEF Read
    <3> QED
      BY <2>1, <3>1 DEF Read
  <2>2. CASE EndOfStream(s) \/ ReadError(s)
    BY <2>2 DEF EndOfStream, ReadError
  <2> QED
    BY <1>2, <2>1, <2>2 DEF Drain
<1>3. ASSUME NEW s \in Streams, Write(s) PROVE TypeOK'
  BY <1>3 DEF Write
<1>4. ASSUME NEW s \in Streams, DescendantCloses(s) PROVE TypeOK'
  BY <1>4 DEF DescendantCloses
<1>5. CASE Fork \/ End \/ Killed \/ UNCHANGED vars
  BY <1>5 DEF Fork, End, Killed
<1> QED
  BY <1>1, <1>2, <1>3, <1>4, <1>5 DEF Next

LEMMA ConservedStep == IInv /\ [Next]_vars => Conserved'
<1> SUFFICES ASSUME IInv, [Next]_vars PROVE Conserved'
  OBVIOUS
<1> USE CapacityAssumption DEF IInv, TypeOK, Conserved
<1>1. CASE Main
  BY <1>1 DEF Main, Spawn, Reap, Expire, Signal, Return
<1>2. ASSUME NEW s \in Streams, Drain(s) PROVE Conserved'
  BY <1>2 DEF Drain, Read, EndOfStream, ReadError
<1>3. ASSUME NEW s \in Streams, Write(s) PROVE Conserved'
  BY <1>3 DEF Write
<1>4. ASSUME NEW s \in Streams, DescendantCloses(s) PROVE Conserved'
  BY <1>4 DEF DescendantCloses
<1>5. CASE Fork \/ End \/ Killed \/ UNCHANGED vars
  BY <1>5 DEF Fork, End, Killed
<1> QED
  BY <1>1, <1>2, <1>3, <1>4, <1>5 DEF Next

LEMMA EndedStep == IInv /\ [Next]_vars => Ended'
<1> SUFFICES ASSUME IInv, [Next]_vars PROVE Ended'
  OBVIOUS
<1> USE CapacityAssumption DEF IInv, TypeOK, Ended, Evidence
<1>1. CASE Main
  BY <1>1 DEF Main, Spawn, Reap, Expire, Signal, Return, DrainFrom
<1>2. ASSUME NEW s \in Streams, Drain(s) PROVE Ended'
  BY <1>2 DEF Drain, Read, EndOfStream, ReadError
<1>3. ASSUME NEW s \in Streams, Write(s) PROVE Ended'
  BY <1>3 DEF Write
<1>4. ASSUME NEW s \in Streams, DescendantCloses(s) PROVE Ended'
  BY <1>4 DEF DescendantCloses
<1>5. CASE Fork \/ End \/ Killed \/ UNCHANGED vars
  BY <1>5 DEF Fork, End, Killed
<1> QED
  BY <1>1, <1>2, <1>3, <1>4, <1>5 DEF Next

LEMMA ReturnedStep == IInv /\ [Next]_vars => Returned'
<1> SUFFICES ASSUME IInv, [Next]_vars PROVE Returned'
  OBVIOUS
<1> USE CapacityAssumption DEF IInv, TypeOK, Returned
<1>1. CASE Main
  <2>1. CASE Return
    BY <2>1 DEF Return, Joined
  <2>2. CASE Spawn
    BY <2>2 DEF Spawn, Conserved, Ended, Evidence
  <2>3. CASE main' # "done"
    BY <2>3
  <2> QED
    BY <1>1, <2>1, <2>2, <2>3 DEF Main, Reap, Expire, Signal, AfterKill
<1>2. ASSUME NEW s \in Streams, Drain(s) PROVE Returned'
  BY <1>2 DEF Drain, Read, EndOfStream, ReadError, Ended
<1>3. ASSUME NEW s \in Streams, Write(s) PROVE Returned'
  BY <1>3 DEF Write
<1>4. ASSUME NEW s \in Streams, DescendantCloses(s) PROVE Returned'
  BY <1>4 DEF DescendantCloses
<1>5. CASE Fork \/ End \/ Killed \/ UNCHANGED vars
  BY <1>5 DEF Fork, End, Killed
<1> QED
  BY <1>1, <1>2, <1>3, <1>4, <1>5 DEF Next

LEMMA EvidenceStep == IInv /\ [Next]_vars => Evidence'
<1> SUFFICES ASSUME IInv, [Next]_vars PROVE Evidence'
  OBVIOUS
<1> USE DEF IInv, TypeOK, Evidence, Places, Terminations
<1>1. CASE Main
  <2>1. CASE Spawn
    BY <2>1 DEF Spawn
  <2>2. ASSUME NEW from, NEW verdict, Reap(from, verdict), from \in {"wait", "grace", "reap"},
               verdict = "completed" <=> from = "wait", verdict \in {"completed", "terminated", "killed"}
        PROVE  Evidence'
    BY <2>2 DEF Reap
  <2>3. CASE Expire("wait", "terminate") \/ Expire("grace", "kill")
    BY <2>3 DEF Expire
  <2>4. CASE Signal("terminate", "grace", "SIGTERM") \/ Signal("kill", AfterKill, LastSignal)
    BY <2>4 DEF Signal, AfterKill, LastSignal
  <2>5. CASE Return
    BY <2>5 DEF Return
  <2> QED
    BY <1>1, <2>1, <2>2, <2>3, <2>4, <2>5 DEF Main
<1>2. ASSUME NEW s \in Streams, Drain(s) PROVE Evidence'
  BY <1>2 DEF Drain, Read, EndOfStream, ReadError
<1>3. ASSUME NEW s \in Streams, Write(s) PROVE Evidence'
  BY <1>3 DEF Write
<1>4. ASSUME NEW s \in Streams, DescendantCloses(s) PROVE Evidence'
  BY <1>4 DEF DescendantCloses
<1>5. CASE Fork \/ End \/ Killed \/ UNCHANGED vars
  BY <1>5 DEF Fork, End, Killed
<1> QED
  BY <1>1, <1>2, <1>3, <1>4, <1>5 DEF Next

\* The inductive invariant of run: chunks are conserved, a stream that ended has no
\* writer, and the caller knows how the child ended.
THEOREM RunnerInvariant == Spec => []IInv
<1>1. IInv /\ [Next]_vars => IInv'
  BY TypeStep, ConservedStep, EndedStep, ReturnedStep, EvidenceStep DEF IInv
<1> QED
  BY <1>1, InitIInv, PTL DEF Spec

\* Every reachable state is well typed: the counters of the pipes stay in their bounds.
THEOREM TypeCorrect == Spec => []TypeOK
BY RunnerInvariant, PTL DEF IInv

\* run returns with all that was written to each stream it could read.
THEOREM OutputIsWhole == Spec => []OutputIsComplete
<1>1. IInv => OutputIsComplete
  BY DEF IInv, TypeOK, Conserved, Ended, Returned, OutputIsComplete
<1> QED
  BY <1>1, RunnerInvariant, PTL

\* When run returns its child was reaped, and a job that completed was never
\* signalled.
THEOREM NoChildIsLeft == Spec => []NothingLeftBehind
<1>1. IInv => NothingLeftBehind
  BY DEF IInv, Evidence, NothingLeftBehind
<1> QED
  BY <1>1, RunnerInvariant, PTL
=============================================================================
