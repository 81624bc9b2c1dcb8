---------------------------- MODULE ProbeRunner ----------------------------
(***************************************************************************)
(* The probe payload of one unit (src/charm/payload/probe_runner.py): the  *)
(* main thread runs the validators in phases, one thread each, under a     *)
(* deadline; a Cancellation shared by all carries the reason, the event    *)
(* the validators poll and the registry of the children to terminate.      *)
(*                                                                         *)
(* SIGTERM runs Cancellation.cancel on the main thread's own stack, between *)
(* any two of its steps, also while that thread is inside cancel or        *)
(* terminate_processes: frames holds the calls in progress, the topmost    *)
(* last, and only the topmost one runs.                                    *)
(*                                                                         *)
(* Each validator is the loop they all have: test the event, spawn a child,*)
(* register it, wait for it.  It has one child at a time.  The deadlines   *)
(* (probe-timeout, flush grace) may pass whenever they are tested.         *)
(***************************************************************************)
EXTENDS Naturals, Sequences, SequencesExt

CONSTANTS
  MaxSignals   \* bound: SIGTERMs received

ASSUME SignalsAssumption == MaxSignals \in Nat

VARIABLES
  main,      \* where run_probe is in the main thread
  phase,     \* index of the phase being run
  frames,    \* calls of cancel and terminate_processes on the main stack
  locked,    \* Cancellation._lock is held by one of those calls
  eventLocked, \* so is the lock inside threading.Event, which set() takes
  reason,    \* Cancellation.reason
  event,     \* Cancellation._event
  thread,    \* per validator, where its thread is
  child,     \* per validator, its current child process
  section,   \* per validator, its section's validator_status
  error,     \* per validator, whether it raised
  flushed,   \* per validator, the reason of the records it flushed, if any
  file,      \* the output file: "absent", "torn", or its document's status
  written,   \* the sections' statuses in that document
  signals    \* SIGTERMs so far

lockVars == <<locked, eventLocked>>
threadVars == <<thread, child, section, error, flushed>>
runnerVars == <<main, phase, frames, lockVars, reason, event, threadVars, file, written, signals>>

Phases == <<{"bond", "vlan"}, {"mtu"}, {"bgp"}>>
Validators == UNION {Phases[i] : i \in 1 .. Len(Phases)}
CrossRack == {"mtu", "bgp"}   \* skipped unless the node is its rack's representative
Interruptions == {"timeout", "cancelled"}
Ended == {"done", "raised", "unwritten", "killed"}
\* run_probe between signal.signal(SIGTERM, ...) and its finally clause.
Handling == {"check", "start", "wait", "finish", "flush", "restore"}

Started(v) == thread[v] # "off"
Alive(v) == thread[v] \notin {"off", "over"}
Calling == frames # <<>>

Cancel(r) == [at |-> "acquireReason", reason |-> r, victims |-> {}]
Terminate == [at |-> "acquireCopy", reason |-> "none", victims |-> {}]
-----------------------------------------------------------------------------
Init ==
  /\ main = "boot" /\ phase = 1
  /\ frames = <<>> /\ locked = FALSE /\ eventLocked = FALSE
  /\ reason = "none" /\ event = FALSE
  /\ thread = [v \in Validators |-> "off"]
  /\ child = [v \in Validators |-> "none"]
  /\ section = [v \in Validators |-> "not_started"]
  /\ error = [v \in Validators |-> FALSE]
  /\ flushed = [v \in Validators |-> "no"]
  /\ file = "absent"
  /\ written = [v \in Validators |-> "absent"]
  /\ signals = 0

-----------------------------------------------------------------------------
(* Cancellation: the topmost call on the main stack.                       *)

Top == Last(frames)
Goto(at) == frames' = Front(frames) \o <<[Top EXCEPT !.at = at]>>

\* with self._lock: the lock is not reentrant.
Acquire ==
  /\ Calling /\ Top.at \in {"acquireReason", "acquireCopy"}
  /\ ~locked
  /\ locked' = TRUE
  /\ Goto(IF Top.at = "acquireReason" THEN "reason" ELSE "copy")
  /\ UNCHANGED <<main, phase, eventLocked, reason, event, threadVars, file, written, signals>>

\* Faulty form: the last reason wins.
SetReasonAlways ==
  /\ Calling /\ Top.at = "reason"
  /\ reason' = Top.reason
  /\ locked' = FALSE
  /\ Goto("acquireEvent")
  /\ UNCHANGED <<main, phase, eventLocked, event, threadVars, file, written, signals>>

\* The first reason wins.
SetReason ==
  /\ Calling /\ Top.at = "reason"
  /\ reason' = IF reason = "none" THEN Top.reason ELSE reason
  /\ locked' = FALSE
  /\ Goto("acquireEvent")
  /\ UNCHANGED <<main, phase, eventLocked, event, threadVars, file, written, signals>>

\* self._event.set(): with self._cond, whose lock is not reentrant either, the
\* flag is set and the waiters are notified.  is_set takes no lock, and a
\* validator holds this one only for an instant, to look at the flag in wait.
AcquireEvent ==
  /\ Calling /\ Top.at = "acquireEvent"
  /\ ~eventLocked
  /\ eventLocked' = TRUE
  /\ Goto("set")
  /\ UNCHANGED <<main, phase, locked, reason, event, threadVars, file, written, signals>>

SetEvent ==
  /\ Calling /\ Top.at = "set"
  /\ event' = TRUE
  /\ Goto("notify")
  /\ UNCHANGED <<main, phase, lockVars, reason, threadVars, file, written, signals>>

ReleaseEvent ==
  /\ Calling /\ Top.at = "notify"
  /\ eventLocked' = FALSE
  /\ Goto("acquireCopy")
  /\ UNCHANGED <<main, phase, locked, reason, event, threadVars, file, written, signals>>

CopyRegistry ==
  /\ Calling /\ Top.at = "copy"
  /\ frames' = Front(frames) \o
       <<[Top EXCEPT !.at = "kill", !.victims = {v \in Validators : child[v] = "registered"}]>>
  /\ locked' = FALSE
  /\ UNCHANGED <<main, phase, eventLocked, reason, event, threadVars, file, written, signals>>

\* Terminates what is still running of the copy, and returns.
KillVictims ==
  /\ Calling /\ Top.at = "kill"
  /\ child' = [v \in Validators |->
       IF v \in Top.victims /\ child[v] = "registered" THEN "killed" ELSE child[v]]
  /\ frames' = Front(frames)
  /\ UNCHANGED <<main, phase, lockVars, reason, event, thread, section, error, flushed, file,
                 written, signals>>

CallStep ==
  \/ Acquire \/ SetReason \/ AcquireEvent \/ SetEvent \/ ReleaseEvent \/ CopyRegistry
  \/ KillVictims

-----------------------------------------------------------------------------
(* run_probe in the main thread, when no call is in progress on its stack. *)

\* The rendezvous is over, the SIGTERM handler is in place.
Install ==
  /\ main = "boot"
  /\ main' = "check"
  /\ UNCHANGED <<phase, frames, lockVars, reason, event, threadVars, file, written, signals>>

\* Faulty form: the loop goes on after a cancellation.
CheckPhaseBlindly ==
  /\ main = "check" /\ ~Calling
  /\ main' = IF phase > Len(Phases) THEN "finish" ELSE "start"
  /\ UNCHANGED <<phase, frames, lockVars, reason, event, threadVars, file, written, signals>>

\* Top of the loop over PHASES: leave it once cancelled or through.
CheckPhase ==
  /\ main = "check" /\ ~Calling
  /\ main' = IF event \/ phase > Len(Phases) THEN "finish" ELSE "start"
  /\ UNCHANGED <<phase, frames, lockVars, reason, event, threadVars, file, written, signals>>

\* Start the validators of the phase, cancelled in the meantime or not.
StartPhase ==
  /\ main = "start" /\ ~Calling
  /\ main' = "wait"
  /\ thread' = [v \in Validators |-> IF v \in Phases[phase] THEN "enter" ELSE thread[v]]
  /\ UNCHANGED <<phase, frames, lockVars, reason, event, child, section, error, flushed, file,
                 written, signals>>

\* _wait_for_phase returns: every thread of the phase is over, or the event is set.
PhaseEnds ==
  /\ main = "wait" /\ ~Calling
  /\ event \/ \A v \in Phases[phase] : ~Alive(v)
  /\ main' = "check"
  /\ phase' = phase + 1
  /\ UNCHANGED <<frames, lockVars, reason, event, threadVars, file, written, signals>>

\* Or its deadline passes: cancel("timeout") is called, then it returns.
Deadline ==
  /\ main = "wait" /\ ~Calling
  /\ ~event /\ \E v \in Phases[phase] : Alive(v)
  /\ frames' = <<Cancel("timeout")>>
  /\ main' = "check"
  /\ phase' = phase + 1
  /\ UNCHANGED <<lockVars, reason, event, threadVars, file, written, signals>>

\* if cancellation.is_set(): terminate_processes(), then _flush_interrupted.
Finish ==
  /\ main = "finish" /\ ~Calling
  /\ IF event
       THEN main' = "flush" /\ frames' = <<Terminate>>
       ELSE main' = "restore" /\ UNCHANGED frames
  /\ UNCHANGED <<phase, lockVars, reason, event, threadVars, file, written, signals>>

\* Faulty form: no grace period, every thread is joined.
FlushJoins ==
  /\ main = "flush" /\ ~Calling
  /\ \A v \in Validators : ~Alive(v)
  /\ main' = "restore"
  /\ UNCHANGED <<phase, frames, lockVars, reason, event, threadVars, file, written, signals>>

\* The started threads are over, or the grace period is.
FlushEnds ==
  /\ main = "flush" /\ ~Calling
  /\ main' = "restore"
  /\ UNCHANGED <<phase, frames, lockVars, reason, event, threadVars, file, written, signals>>

\* finally: the previous SIGTERM handler, the default one, is back.
Restore ==
  /\ main = "restore" /\ ~Calling
  /\ main' = "assemble"
  /\ UNCHANGED <<phase, frames, lockVars, reason, event, threadVars, file, written, signals>>

\* Faulty form: the event is taken for a timeout.
OutcomeOfEvent == IF event THEN "timeout" ELSE "complete"
Outcome == IF reason = "none" THEN "complete" ELSE reason

\* Faulty form: a validator's error is swallowed.
AssembleRegardless ==
  /\ main = "assemble"
  /\ main' = "write"
  /\ section' = [v \in Validators |->
       IF ~Started(v) THEN "not_started"
       ELSE IF Alive(v) \/ section[v] = "not_started" THEN Outcome ELSE section[v]]
  /\ UNCHANGED <<phase, frames, lockVars, reason, event, thread, child, error, flushed, file,
                 written, signals>>

\* A validator's error without cancellation is raised; else every section
\* without a status of its own gets the probe's.
Assemble ==
  /\ main = "assemble"
  /\ IF reason = "none" /\ \E v \in Validators : error[v]
       THEN main' = "raised" /\ UNCHANGED section
       ELSE /\ main' = "write"
            /\ section' = [v \in Validators |->
                 IF ~Started(v) THEN "not_started"
                 ELSE IF Alive(v) \/ section[v] = "not_started" THEN Outcome ELSE section[v]]
  /\ UNCHANGED <<phase, frames, lockVars, reason, event, thread, child, error, flushed, file,
                 written, signals>>

\* write_output.  A section is dumped as it is then, its status, which its
\* validator sets last, first.  Threads still alive die with the process.
WriteOutput ==
  /\ main = "write"
  /\ main' = "done"
  /\ file' = Outcome
  /\ written' = section
  /\ thread' = [v \in Validators |-> IF Started(v) THEN "over" ELSE "off"]
  /\ UNCHANGED <<phase, frames, lockVars, reason, event, child, section, error, flushed, signals>>

\* Or it raises: the document is not valid, or cannot be written, or not whole.
WriteFails ==
  /\ main = "write"
  /\ main' = "unwritten"
  /\ file' \in {"absent", "torn"}
  /\ thread' = [v \in Validators |-> IF Started(v) THEN "over" ELSE "off"]
  /\ UNCHANGED <<phase, frames, lockVars, reason, event, child, section, error, flushed, written,
                 signals>>

MainStep ==
  \/ CallStep \/ Install \/ CheckPhase \/ StartPhase \/ PhaseEnds \/ Deadline \/ Finish \/ FlushEnds
  \/ Restore \/ Assemble \/ WriteOutput \/ WriteFails

\* SIGTERM: cancel("cancelled") on top of whatever the main thread is doing;
\* outside the handler's reach it kills the process, perhaps in mid-write.
Sigterm ==
  /\ main \notin Ended
  /\ signals < MaxSignals
  /\ signals' = signals + 1
  /\ IF main \in Handling
       THEN /\ frames' = Append(frames, Cancel("cancelled"))
            /\ UNCHANGED <<main, thread, file>>
       ELSE /\ main' = "killed"
            /\ file' \in IF main = "write" THEN {"absent", "torn"} ELSE {"absent"}
            /\ thread' = [v \in Validators |-> IF Started(v) THEN "over" ELSE "off"]
            /\ UNCHANGED frames
  /\ UNCHANGED <<phase, lockVars, reason, event, child, section, error, flushed, written>>

-----------------------------------------------------------------------------
(* A validator's thread.                                                   *)

Thread(v, from, to) == thread[v] = from /\ thread' = [thread EXCEPT ![v] = to]
MainUnchanged ==
  UNCHANGED <<main, phase, frames, lockVars, reason, event, file, written, signals>>

\* Faulty form: a skip status the schema does not know.
EnterMislabelled(v) ==
  /\ \/ Thread(v, "enter", "loop") /\ UNCHANGED section
     \/ /\ v \in CrossRack
        /\ Thread(v, "enter", "over")
        /\ section' = [section EXCEPT ![v] = "not_representative"]
  /\ UNCHANGED <<child, error, flushed>> /\ MainUnchanged

\* The cross-rack validators do nothing on a node that is not its rack's
\* representative, or has no remote rack.
Enter(v) ==
  /\ \/ Thread(v, "enter", "loop") /\ UNCHANGED section
     \/ /\ v \in CrossRack
        /\ Thread(v, "enter", "over")
        /\ section' = [section EXCEPT ![v] = "skipped"]
  /\ UNCHANGED <<child, error, flushed>> /\ MainUnchanged

\* cancellation.is_set() between two items: flush the rest and return.
TestEvent(v) ==
  /\ IF event
       THEN /\ Thread(v, "loop", "over")
            /\ flushed' = [flushed EXCEPT ![v] = reason]
       ELSE Thread(v, "loop", "clear") /\ UNCHANGED flushed
  /\ UNCHANGED <<child, section, error>> /\ MainUnchanged

\* The last item is done.
Complete(v) ==
  /\ Thread(v, "loop", "over")
  /\ section' = [section EXCEPT ![v] = "complete"]
  /\ UNCHANGED <<child, error, flushed>> /\ MainUnchanged

Spawn(v) ==
  /\ Thread(v, "clear", "spawned")
  /\ child' = [child EXCEPT ![v] = "unregistered"]
  /\ UNCHANGED <<section, error, flushed>> /\ MainUnchanged

\* Faulty form: registering does not look at the event.
RegisterOnly(v) ==
  /\ ~locked
  /\ Thread(v, "spawned", "await")
  /\ child' = [child EXCEPT ![v] = "registered"]
  /\ UNCHANGED <<section, error, flushed>> /\ MainUnchanged

\* Cancellation.register: one critical section, which also learns whether
\* cancel came first.
Register(v) ==
  /\ ~locked
  /\ Thread(v, "spawned", IF event THEN "late" ELSE "await")
  /\ child' = [child EXCEPT ![v] = "registered"]
  /\ UNCHANGED <<section, error, flushed>> /\ MainUnchanged

\* It did: the process is killed here rather than leaked.
KillLate(v) ==
  /\ Thread(v, "late", "await")
  /\ child' = [child EXCEPT ![v] = "killed"]
  /\ UNCHANGED <<section, error, flushed>> /\ MainUnchanged

ChildExits(v) ==
  /\ Thread(v, "await", "loop")
  /\ child' = [child EXCEPT ![v] = "none"]
  /\ UNCHANGED <<section, error, flushed>> /\ MainUnchanged

\* Any command may be missing or its output unparsable.
Raise(v) ==
  /\ thread[v] \in {"enter", "clear"}
  /\ thread' = [thread EXCEPT ![v] = "over"]
  /\ error' = [error EXCEPT ![v] = TRUE]
  /\ UNCHANGED <<child, section, flushed>> /\ MainUnchanged

ValidatorStep(v) ==
  \/ Enter(v) \/ TestEvent(v) \/ Complete(v) \/ Spawn(v) \/ Register(v) \/ KillLate(v)
  \/ ChildExits(v) \/ Raise(v)

Next == MainStep \/ Sigterm \/ \E v \in Validators : ValidatorStep(v)

\* The main thread runs whenever it can; its deadlines pass.  A validator owes
\* nothing: it may sit in a command until its process is gone.
Spec == Init /\ [][Next]_runnerVars /\ WF_runnerVars(MainStep)

-----------------------------------------------------------------------------
TypeOK ==
  /\ main \in {"boot", "assemble", "write"} \cup Handling \cup Ended
  /\ phase \in 1 .. Len(Phases) + 1
  /\ frames \in Seq([at : {"acquireReason", "reason", "acquireEvent", "set", "notify",
                            "acquireCopy", "copy", "kill"},
                     reason : {"none"} \cup Interruptions, victims : SUBSET Validators])
  /\ locked \in BOOLEAN /\ eventLocked \in BOOLEAN /\ event \in BOOLEAN
  /\ reason \in {"none"} \cup Interruptions
  /\ thread \in [Validators -> {"off", "enter", "loop", "clear", "spawned", "late", "await", "over"}]
  /\ child \in [Validators -> {"none", "unregistered", "registered", "killed"}]
  /\ section \in [Validators -> {"not_started", "complete", "skipped"} \cup Interruptions]
  /\ error \in [Validators -> BOOLEAN]
  /\ flushed \in [Validators -> {"no"} \cup Interruptions]
  /\ file \in {"absent", "torn", "complete"} \cup Interruptions
  /\ written \in [Validators -> {"absent", "not_started", "complete", "skipped"} \cup Interruptions]
  /\ signals \in 0 .. MaxSignals

\* A document that calls the probe complete vouches for every section: each
\* validator ran to its end or skipped, none raised, none was cut short.  The
\* report takes such a document at its word.  An interrupted document vouches
\* for the sections that say so themselves, also when a validator outlives its
\* grace and ends between the assembly and the dump (probe_runner.py:204-218).
CompleteIsWhole ==
  /\ file = "complete" => \A v \in Validators : written[v] \in {"complete", "skipped"}
  /\ main = "done" => \A v \in Validators :
       written[v] \in {"complete", "skipped"} => ~error[v] /\ flushed[v] = "no"

\* The records an interrupted validator flushes bear the reason the document
\* ends up with: the reason is fixed before any validator can see the event,
\* and a later timeout or SIGTERM does not change it.
FlushedAgrees ==
  \A v \in Validators : flushed[v] # "no" =>
    /\ flushed[v] \in Interruptions
    /\ main = "done" => file = flushed[v]

\* Validators of different phases never probe at the same time, cancelled or
\* not: the two that send ICMP across racks would disturb each other
\* (probe_runner.py:43-45).
PhasesApart ==
  \A i, j \in 1 .. Len(Phases) : i # j =>
    ~((\E v \in Phases[i] : Alive(v)) /\ (\E w \in Phases[j] : Alive(w)))

\* After the termination pass no registered child is left running behind the
\* probe, however registering and cancelling interleave: only a child that
\* its own thread is about to kill remains (probe_runner.py:79-81).
NoLeakedChild ==
  event /\ ~Calling /\ main \in {"flush", "restore", "assemble", "write"} =>
    \A v \in Validators : child[v] = "registered" => thread[v] = "late"

\* The main thread waits for a lock it holds itself, further down its stack.
SelfDeadlock ==
  /\ Calling
  /\ \/ Top.at \in {"acquireReason", "acquireCopy"} /\ locked
     \/ Top.at = "acquireEvent" /\ eventLocked

\* The payload always comes to an end by itself, whatever the validators do,
\* unless SIGTERM arrives while the main thread holds the registry's lock, or
\* the event's own (probe_runner.py:83-92): that is all that can hang it.
EndsUnlessSelfDeadlock == <>(main \in Ended \/ SelfDeadlock)

\* The runner as its hook sees it: one reason, one ending, one whole document.
Promise == INSTANCE ProbeOutcome WITH
  Reasons <- Interruptions,
  ending <- CASE main = "done" -> "written" [] main = "raised" -> "failed"
              [] main \in {"unwritten", "killed"} -> main [] OTHER -> "running"
KeepsPromise == Promise!Spec

\* A SIGTERM that the probe handles makes it write its output, or fail in writing it
\* (probe_runner.py:23-24: "the SIGTERM requirement is that output is written
\* within 5 seconds").
SigtermWritesOutput == (signals > 0 /\ main \in Handling) ~>
  (file \in Interruptions \/ main = "unwritten")
=============================================================================
