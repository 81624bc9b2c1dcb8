------------------------- MODULE ProbeRunnerProofs -------------------------
(***************************************************************************)
(* Theorems about ProbeRunner, for any number of SIGTERMs and any depth of *)
(* interrupted calls on the main stack.                                    *)
(*                                                                         *)
(* The inductive invariant has four parts.  CallsInv: each call of cancel  *)
(* in progress finds the reason and the event as its own steps left them,  *)
(* however many handlers run on top of it.  ScheduleInv: only one phase is *)
(* alive at a time, and without an interruption every phase before the     *)
(* current one is over.  SectionsInv: what a validator's section says is   *)
(* how its thread ended.  KillersInv: a child that was registered before   *)
(* the event has, until it is killed, a call in progress that will see it. *)
(***************************************************************************)
EXTENDS ProbeRunner, SequenceTheorems, TLAPS

CallOK(f) ==
  /\ f.at \in {"acquireReason", "reason"} => f.reason \in Interruptions
  /\ f.at \in {"acquireEvent", "set"} => reason # "none"
  /\ f.at \in {"notify", "acquireCopy", "copy", "kill"} => event

CallsInv ==
  /\ \A i \in 1 .. Len(frames) : CallOK(frames[i])
  /\ event => reason # "none"
  /\ reason # "none" => event \/ Calling \/ main \in Ended
  /\ Calling => main \in Handling

\* Threads of a phase, and whether an interruption is on its way.
OffAll(i) == \A v \in Phases[i] : thread[v] = "off"
OverAll(i) == \A v \in Phases[i] : thread[v] = "over"
StartedAll(i) == \A v \in Phases[i] : Started(v)
Undisturbed == ~event /\ ~Calling

ScheduleInv ==
  /\ main = "boot" => phase = 1
  /\ main \in {"start", "wait"} => phase \in 1 .. 3
  /\ main = "flush" => event
  /\ main \in {"finish", "restore", "assemble", "write"} /\ Undisturbed => phase = 4
  /\ main \in Ended => \A v \in Validators : ~Alive(v)
  /\ main \notin Ended => \A i \in 1 .. 3 :
       /\ i > phase => OffAll(i)
       /\ i = phase => IF main = "wait" THEN StartedAll(i) ELSE OffAll(i)
       /\ i < phase => StartedAll(i)
       /\ i < phase - 1 => OverAll(i)
       /\ i = phase - 1 /\ (main \in {"start", "wait"} \/ Undisturbed) => OverAll(i)

Vouches(status) == status \in {"complete", "skipped"}
Whole(v) == ~error[v] /\ flushed[v] = "no"

SectionOK(v) ==
  /\ thread[v] # "over" => Whole(v)
  /\ thread[v] = "off" => section[v] = "not_started"
  /\ flushed[v] # "no" => flushed[v] = reason /\ reason # "none"
  /\ main \notin {"write"} \cup Ended =>
       /\ Alive(v) => section[v] = "not_started"
       /\ Vouches(section[v]) => Whole(v)
       /\ thread[v] = "over" /\ Whole(v) => Vouches(section[v])
  /\ main = "write" =>
       /\ Alive(v) => section[v] \in Interruptions
       /\ Vouches(section[v]) => Whole(v)
       /\ reason = "none" => Vouches(section[v])
  /\ main = "done" =>
       /\ Vouches(written[v]) => Whole(v)
       /\ reason = "none" => Vouches(written[v])

SectionsInv ==
  /\ \A v \in Validators : SectionOK(v)
  /\ main \notin Ended => file = "absent"
  /\ main = "done" => file = Outcome
  /\ main \in Ended \ {"done"} => file \in {"absent", "torn"}

\* A call in progress that will kill the child of v.
Kills(f, v) == f.at \in {"notify", "acquireCopy", "copy"} \/ (f.at = "kill" /\ v \in f.victims)

KillersInv ==
  main \notin Ended => \A v \in Validators : child[v] = "registered" =>
    /\ thread[v] \in {"late", "await"}
    /\ event /\ thread[v] = "await" => \E i \in 1 .. Len(frames) : Kills(frames[i], v)

-----------------------------------------------------------------------------
\* The four validators and their three phases, spelled out.
LEMMA PhaseFacts ==
  /\ Len(Phases) = 3
  /\ Phases[1] = {"bond", "vlan"} /\ Phases[2] = {"mtu"} /\ Phases[3] = {"bgp"}
  /\ Validators = {"bond", "vlan", "mtu", "bgp"}
<1>1. /\ Len(Phases) = 3
      /\ Phases[1] = {"bond", "vlan"} /\ Phases[2] = {"mtu"} /\ Phases[3] = {"bgp"}
  BY DEF Phases
<1>2. 1 .. 3 = {1, 2, 3}
  OBVIOUS
<1>. QED
  BY <1>1, <1>2 DEF Validators

\* Every validator is of exactly one phase.
LEMMA PhaseOf ==
  /\ \A v \in Validators : \E i \in 1 .. 3 : v \in Phases[i]
  /\ \A i \in 1 .. 3 : Phases[i] \subseteq Validators
  /\ \A i, j \in 1 .. 3 : i # j => Phases[i] \cap Phases[j] = {}
  BY PhaseFacts

\* A stack with at least one call: its top, and what is left below it.
LEMMA TopOfStack ==
  ASSUME NEW S, NEW s \in Seq(S), s # <<>>
  PROVE  /\ Len(s) \in Nat \ {0} /\ Last(s) \in S /\ Last(s) = s[Len(s)]
         /\ Front(s) \in Seq(S) /\ Len(Front(s)) = Len(s) - 1
         /\ \A i \in 1 .. Len(s) - 1 : Front(s)[i] = s[i]
<1>1. Len(s) \in Nat \ {0}
  BY EmptySeq
<1>2. \A i \in 1 .. Len(s) : s[i] \in S
  BY ElementOfSeq
<1>3. ASSUME NEW n \in Nat, \A i \in 1 .. n : s[i] \in S
      PROVE  /\ SubSeq(s, 1, n) \in Seq(S) /\ Len(SubSeq(s, 1, n)) = n
             /\ \A i \in 1 .. n : SubSeq(s, 1, n)[i] = s[i]
  BY <1>3, SubSeqProperties
<1>4. Len(s) - 1 \in Nat /\ \A i \in 1 .. Len(s) - 1 : s[i] \in S
  BY <1>1, <1>2
<1>5. /\ SubSeq(s, 1, Len(s) - 1) \in Seq(S) /\ Len(SubSeq(s, 1, Len(s) - 1)) = Len(s) - 1
      /\ \A i \in 1 .. Len(s) - 1 : SubSeq(s, 1, Len(s) - 1)[i] = s[i]
  BY <1>3, <1>4
<1>6. Front(s) = SubSeq(s, 1, Len(s) - 1) /\ Last(s) = s[Len(s)]
  BY DEF Front, Last
<1>. QED
  BY <1>1, <1>2, <1>5, <1>6

\* Replacing the topmost call leaves the others as they were.
LEMMA ReplaceTop ==
  ASSUME NEW S, NEW s \in Seq(S), s # <<>>, NEW x \in S
  PROVE  LET t == Front(s) \o <<x>>
         IN  /\ t \in Seq(S) /\ Len(t) = Len(s) /\ t # <<>> /\ t[Len(s)] = x
             /\ \A i \in 1 .. Len(s) - 1 : t[i] = s[i]
<1>1. /\ Len(s) \in Nat \ {0}
      /\ Front(s) \in Seq(S) /\ Len(Front(s)) = Len(s) - 1
      /\ \A i \in 1 .. Len(s) - 1 : Front(s)[i] = s[i]
  BY TopOfStack
<1>2. <<x>> \in Seq(S) /\ Len(<<x>>) = 1 /\ <<x>>[1] = x
  OBVIOUS
<1>3. /\ Front(s) \o <<x>> \in Seq(S)
      /\ Len(Front(s) \o <<x>>) = Len(s)
      /\ \A i \in 1 .. Len(s) : (Front(s) \o <<x>>)[i] =
           IF i <= Len(s) - 1 THEN Front(s)[i] ELSE <<x>>[i - (Len(s) - 1)]
  BY <1>1, <1>2, ConcatProperties
<1>. QED
  BY <1>1, <1>2, <1>3, EmptySeq

-----------------------------------------------------------------------------
\* Type correctness.
Calls == [at : {"acquireReason", "reason", "acquireEvent", "set", "notify", "acquireCopy", "copy",
                "kill"},
          reason : {"none"} \cup Interruptions, victims : SUBSET Validators]

\* Within the loop over PHASES there is a phase to run.
PhaseBound == main \in {"start", "wait"} => phase \in 1 .. 3
TypeInv == TypeOK /\ PhaseBound /\ CallsInv

\* Nothing has started, no call is in progress.
LEMMA InitType == Init => TypeInv
<1> SUFFICES ASSUME Init PROVE TypeInv
  OBVIOUS
<1>1. frames \in Seq(Calls)
  BY EmptySeq DEF Init
<1>2. phase \in 1 .. Len(Phases) + 1
  BY PhaseFacts DEF Init
<1>3. locked \in BOOLEAN /\ eventLocked \in BOOLEAN /\ event \in BOOLEAN
  BY DEF Init
<1>4. signals \in 0 .. MaxSignals
  BY SignalsAssumption DEF Init
<1>. QED
  BY <1>1, <1>2, <1>3, <1>4 DEF Init, TypeInv, TypeOK, PhaseBound, CallsInv, Calling, Calls

\* A step of a call in progress leaves the calls below it as they were.
LEMMA CallSteps ==
  ASSUME TypeOK, CallStep
  PROVE  /\ frames # <<>> /\ Len(frames) \in Nat \ {0} /\ Top = frames[Len(frames)] /\ Top \in Calls
         /\ frames' \in Seq(Calls)
         /\ Len(frames') = IF Top.at = "kill" THEN Len(frames) - 1 ELSE Len(frames)
         /\ \A i \in 1 .. Len(frames) - 1 : frames'[i] = frames[i]
         /\ Acquire => frames'[Len(frames)] =
              [Top EXCEPT !.at = IF Top.at = "acquireReason" THEN "reason" ELSE "copy"]
         /\ SetReason => frames'[Len(frames)] = [Top EXCEPT !.at = "acquireEvent"]
         /\ AcquireEvent => frames'[Len(frames)] = [Top EXCEPT !.at = "set"]
         /\ SetEvent => frames'[Len(frames)] = [Top EXCEPT !.at = "notify"]
         /\ ReleaseEvent => frames'[Len(frames)] = [Top EXCEPT !.at = "acquireCopy"]
         /\ CopyRegistry => frames'[Len(frames)] =
              [Top EXCEPT !.at = "kill", !.victims = {v \in Validators : child[v] = "registered"}]
<1>1. frames \in Seq(Calls) /\ frames # <<>>
  BY DEF TypeOK, Calls, CallStep, Acquire, SetReason, AcquireEvent, SetEvent, ReleaseEvent, CopyRegistry,
         KillVictims, Calling
<1>2. /\ Len(frames) \in Nat \ {0} /\ Top \in Calls /\ Top = frames[Len(frames)]
      /\ Front(frames) \in Seq(Calls) /\ Len(Front(frames)) = Len(frames) - 1
      /\ \A i \in 1 .. Len(frames) - 1 : Front(frames)[i] = frames[i]
  BY <1>1, TopOfStack DEF Top
<1>3. ASSUME NEW x \in Calls, frames' = Front(frames) \o <<x>>
      PROVE  /\ frames' \in Seq(Calls) /\ Len(frames') = Len(frames)
             /\ \A i \in 1 .. Len(frames) - 1 : frames'[i] = frames[i]
             /\ frames'[Len(frames)] = x
  BY <1>1, <1>3, ReplaceTop
<1>4. CASE Acquire
  <2>1. [Top EXCEPT !.at = IF Top.at = "acquireReason" THEN "reason" ELSE "copy"] \in Calls
    BY <1>2 DEF Calls
  <2>. QED
    BY <1>1, <1>2, <1>3, <1>4, <2>1
    DEF Acquire, Goto, SetReason, AcquireEvent, SetEvent, ReleaseEvent, CopyRegistry, KillVictims
<1>5. CASE SetReason
  <2>1. [Top EXCEPT !.at = "acquireEvent"] \in Calls
    BY <1>2 DEF Calls
  <2>. QED
    BY <1>1, <1>2, <1>3, <1>5, <2>1
    DEF Acquire, Goto, SetReason, AcquireEvent, SetEvent, ReleaseEvent, CopyRegistry, KillVictims
<1>6. CASE AcquireEvent
  <2>1. [Top EXCEPT !.at = "set"] \in Calls
    BY <1>2 DEF Calls
  <2>. QED
    BY <1>1, <1>2, <1>3, <1>6, <2>1
    DEF Acquire, Goto, SetReason, AcquireEvent, SetEvent, ReleaseEvent, CopyRegistry, KillVictims
<1>7. CASE SetEvent
  <2>1. [Top EXCEPT !.at = "notify"] \in Calls
    BY <1>2 DEF Calls
  <2>. QED
    BY <1>1, <1>2, <1>3, <1>7, <2>1
    DEF Acquire, Goto, SetReason, AcquireEvent, SetEvent, ReleaseEvent, CopyRegistry, KillVictims
<1>8. CASE ReleaseEvent
  <2>1. [Top EXCEPT !.at = "acquireCopy"] \in Calls
    BY <1>2 DEF Calls
  <2>. QED
    BY <1>1, <1>2, <1>3, <1>8, <2>1
    DEF Acquire, Goto, SetReason, AcquireEvent, SetEvent, ReleaseEvent, CopyRegistry, KillVictims
<1>9. CASE CopyRegistry
  <2>1. [Top EXCEPT !.at = "kill", !.victims = {v \in Validators : child[v] = "registered"}] \in Calls
    BY <1>2 DEF Calls
  <2>. QED
    BY <1>1, <1>2, <1>3, <1>9, <2>1
    DEF Acquire, SetReason, AcquireEvent, SetEvent, ReleaseEvent, CopyRegistry, KillVictims
<1>10. CASE KillVictims
  BY <1>1, <1>2, <1>10
  DEF Acquire, SetReason, AcquireEvent, SetEvent, ReleaseEvent, CopyRegistry, KillVictims
<1>. QED
  BY <1>4, <1>5, <1>6, <1>7, <1>8, <1>9, <1>10 DEF CallStep

\* Every step keeps the types: the phase stays in range by CheckPhase's guard,
\* and what a validator flushes is a reason because the event implies one.
LEMMA NextType == TypeInv /\ [Next]_runnerVars => TypeOK' /\ PhaseBound'
<1> SUFFICES ASSUME TypeOK, PhaseBound, event => reason # "none", [Next]_runnerVars
             PROVE  TypeOK' /\ PhaseBound'
  BY DEF TypeInv, CallsInv
<1> USE DEF PhaseBound, threadVars, lockVars
<1>0. frames \in Seq(Calls)
  BY DEF TypeOK, Calls
<1>1. CASE UNCHANGED runnerVars
  BY <1>1 DEF runnerVars, threadVars, lockVars, TypeOK
<1>2. CASE CallStep
  <2>1. frames' \in Seq(Calls) /\ Top \in Calls
    BY <1>2, CallSteps
  <2>. QED
    BY <1>2, <2>1
    DEF CallStep, TypeOK, Acquire, SetReason, AcquireEvent, SetEvent, ReleaseEvent, CopyRegistry,
        KillVictims, threadVars, Calls
<1>3. CASE Install \/ CheckPhase \/ PhaseEnds \/ FlushEnds \/ Restore
  <2>1. phase' \in 1 .. Len(Phases) + 1
    BY <1>3, PhaseFacts
    DEF TypeOK, Install, CheckPhase, PhaseEnds, FlushEnds, Restore, Handling, Ended
  <2>. QED
    BY <1>3, <2>1, PhaseFacts
    DEF TypeOK, Install, CheckPhase, PhaseEnds, FlushEnds, Restore, threadVars, Handling
<1>4. CASE StartPhase
  BY <1>4 DEF TypeOK, StartPhase, Handling
<1>5. CASE Deadline
  <2>1. phase' \in 1 .. Len(Phases) + 1
    BY <1>5, PhaseFacts DEF TypeOK, Deadline
  <2>2. Cancel("timeout") \in Calls
    BY DEF Cancel, Calls, Interruptions
  <2>3. \A x \in Calls : <<x>> \in Seq(Calls)
    OBVIOUS
  <2>4. frames' \in Seq(Calls)
    BY <1>5, <2>2, <2>3 DEF Deadline
  <2>. QED
    BY <1>5, <2>1, <2>4 DEF TypeOK, Deadline, threadVars, Handling, Calls
<1>6. CASE Finish
  <2>1. Terminate \in Calls
    BY DEF Terminate, Calls
  <2>3. \A x \in Calls : <<x>> \in Seq(Calls)
    OBVIOUS
  <2>2. frames' \in Seq(Calls)
    BY <1>0, <1>6, <2>1, <2>3 DEF Finish
  <2>. QED
    BY <1>6, <2>2 DEF TypeOK, Finish, threadVars, Handling, Calls
<1>7. CASE Assemble
  <2>1. Outcome \in {"complete"} \cup Interruptions
    BY DEF Outcome, TypeOK
  <2>. QED
    BY <1>7, <2>1 DEF TypeOK, Assemble, Ended
<1>8. CASE WriteOutput
  <2>1. Outcome \in {"complete"} \cup Interruptions
    BY DEF Outcome, TypeOK
  <2>. QED
    BY <1>8, <2>1 DEF TypeOK, WriteOutput, Ended
<1>11. CASE WriteFails
  BY <1>11 DEF TypeOK, WriteFails, Ended
<1>9. CASE Sigterm
  <2>1. Cancel("cancelled") \in Calls
    BY DEF Cancel, Calls, Interruptions
  <2>2. frames' \in Seq(Calls)
    BY <1>0, <1>9, <2>1, AppendProperties DEF Sigterm
  <2>3. signals' \in 0 .. MaxSignals
    BY <1>9, SignalsAssumption DEF Sigterm, TypeOK
  <2>. QED
    BY <1>9, <2>2, <2>3 DEF TypeOK, Sigterm, Ended, Calls
<1>10. ASSUME NEW v \in Validators, ValidatorStep(v) PROVE TypeOK' /\ PhaseBound'
  <2>1. frames' \in Seq(Calls)
    BY <1>0, <1>10
    DEF ValidatorStep, Enter, TestEvent, Complete, Spawn, Register, KillLate, ChildExits, Raise,
        MainUnchanged
  <2>2. CASE Enter(v)
    BY <2>1, <2>2 DEF TypeOK, Enter, MainUnchanged, Thread, Calls
  <2>3. CASE TestEvent(v)
    BY <2>1, <2>3 DEF TypeOK, TestEvent, MainUnchanged, Thread, Calls
  <2>4. CASE Complete(v)
    BY <2>1, <2>4 DEF TypeOK, Complete, MainUnchanged, Thread, Calls
  <2>5. CASE Spawn(v)
    BY <2>1, <2>5 DEF TypeOK, Spawn, MainUnchanged, Thread, Calls
  <2>6. CASE Register(v)
    BY <2>1, <2>6 DEF TypeOK, Register, MainUnchanged, Thread, Calls
  <2>7. CASE KillLate(v)
    BY <2>1, <2>7 DEF TypeOK, KillLate, MainUnchanged, Thread, Calls
  <2>8. CASE ChildExits(v)
    BY <2>1, <2>8 DEF TypeOK, ChildExits, MainUnchanged, Thread, Calls
  <2>9. CASE Raise(v)
    BY <2>1, <2>9 DEF TypeOK, Raise, MainUnchanged, Thread, Calls
  <2>. QED
    BY <1>10, <2>2, <2>3, <2>4, <2>5, <2>6, <2>7, <2>8, <2>9 DEF ValidatorStep
<1>. QED
  BY <1>1, <1>2, <1>3, <1>4, <1>5, <1>6, <1>7, <1>8, <1>9, <1>10, <1>11
  DEF Next, MainStep

\* What the calls in progress rely on is left in place by every other step.
LEMMA NextCalls == TypeInv /\ [Next]_runnerVars => CallsInv'
<1> SUFFICES ASSUME TypeOK, CallsInv, [Next]_runnerVars PROVE CallsInv'
  BY DEF TypeInv
<1> USE DEF CallOK
<1>0. frames \in Seq(Calls) /\ (Calling => Len(frames) \in Nat \ {0})
  BY EmptySeq DEF TypeOK, Calls, Calling
<1>1. ASSUME UNCHANGED <<frames, reason, event>>,
             (Calling => main \in Handling) => (Calling => main' \in Handling),
             main \in Ended => main' \in Ended
      PROVE  CallsInv'
  BY <1>1 DEF CallsInv, Calling
<1>2. CASE UNCHANGED runnerVars
  BY <1>1, <1>2 DEF runnerVars, threadVars, lockVars
<1>3. CASE CallStep
  <2>0. Calling /\ main' = main /\ (event => event')
    <3>1. Calling /\ main' = main
      BY <1>3 DEF CallStep, Acquire, SetReason, AcquireEvent, SetEvent, ReleaseEvent, CopyRegistry,
         KillVictims
    <3>2. event' = event \/ event' = TRUE
      BY <1>3 DEF CallStep, Acquire, SetReason, AcquireEvent, SetEvent, ReleaseEvent, CopyRegistry,
         KillVictims
    <3>. QED
      BY <3>1, <3>2
  <2>1. /\ Calling /\ main' = main /\ Len(frames) \in Nat \ {0}
        /\ Top = frames[Len(frames)] /\ Top \in Calls /\ CallOK(Top)
        /\ \A i \in 1 .. Len(frames) - 1 : frames'[i] = frames[i] /\ CallOK(frames[i])
    <3>1. /\ Len(frames) \in Nat \ {0} /\ Top = frames[Len(frames)] /\ Top \in Calls
          /\ \A i \in 1 .. Len(frames) - 1 : frames'[i] = frames[i]
      BY <1>3, CallSteps
    <3>2. \A i \in 1 .. Len(frames) : CallOK(frames[i])
      BY DEF CallsInv
    <3>. QED
      BY <2>0, <3>1, <3>2
  <2>2. main \in Handling /\ main \notin Ended
    BY <2>1 DEF CallsInv, Handling, Ended
  <2>3. /\ Len(frames') = IF Top.at = "kill" THEN Len(frames) - 1 ELSE Len(frames)
        /\ (reason # "none" => reason' # "none") /\ (event => event')
    <3>1. Len(frames') = IF Top.at = "kill" THEN Len(frames) - 1 ELSE Len(frames)
      BY <1>3, CallSteps
    <3>2. reason # "none" => reason' # "none"
      BY <1>3 DEF CallStep, Acquire, SetReason, AcquireEvent, SetEvent, ReleaseEvent, CopyRegistry,
         KillVictims
    <3>. QED
      BY <2>0, <3>1, <3>2
  <2>4. \A i \in 1 .. Len(frames) - 1 : CallOK(frames[i])'
    BY <2>1, <2>3
  <2>5. CASE Acquire
    <3>1. frames'[Len(frames)] =
            [Top EXCEPT !.at = IF Top.at = "acquireReason" THEN "reason" ELSE "copy"]
      BY <1>3, <2>5, CallSteps
    <3>. QED
      BY <2>1, <2>2, <2>3, <2>4, <2>5, <3>1 DEF Acquire, CallsInv, Calls, Calling
  <2>6. CASE SetReason
    <3>1. frames'[Len(frames)] = [Top EXCEPT !.at = "acquireEvent"]
      BY <1>3, <2>6, CallSteps
    <3>2. reason' # "none"
      BY <2>1, <2>6 DEF SetReason, Interruptions
    <3>. QED
      BY <2>1, <2>2, <2>3, <2>4, <2>6, <3>1, <3>2 DEF SetReason, CallsInv, Calls, Calling
  <2>10. CASE AcquireEvent
    <3>1. frames'[Len(frames)] = [Top EXCEPT !.at = "set"]
      BY <1>3, <2>10, CallSteps
    <3>. QED
      BY <2>1, <2>2, <2>3, <2>4, <2>10, <3>1 DEF AcquireEvent, CallsInv, Calls, Calling
  <2>7. CASE SetEvent
    <3>1. frames'[Len(frames)] = [Top EXCEPT !.at = "notify"]
      BY <1>3, <2>7, CallSteps
    <3>. QED
      BY <2>1, <2>2, <2>3, <2>4, <2>7, <3>1 DEF SetEvent, CallsInv, Calls, Calling
  <2>11. CASE ReleaseEvent
    <3>1. frames'[Len(frames)] = [Top EXCEPT !.at = "acquireCopy"]
      BY <1>3, <2>11, CallSteps
    <3>. QED
      BY <2>1, <2>2, <2>3, <2>4, <2>11, <3>1 DEF ReleaseEvent, CallsInv, Calls, Calling
  <2>8. CASE CopyRegistry
    <3>1. frames'[Len(frames)] =
            [Top EXCEPT !.at = "kill", !.victims = {v \in Validators : child[v] = "registered"}]
      BY <1>3, <2>8, CallSteps
    <3>2. frames'[Len(frames)].at = "kill" /\ event /\ Len(frames') = Len(frames)
      BY <2>1, <2>3, <2>8, <3>1 DEF CopyRegistry, Calls
    <3>3. event'
      BY <2>0, <3>2
    <3>. QED
      BY <2>0, <2>1, <2>2, <2>3, <2>4, <3>2, <3>3 DEF CallsInv, Calling
  <2>9. CASE KillVictims
    BY <2>1, <2>2, <2>3, <2>4, <2>9 DEF KillVictims, CallsInv, Calling
  <2>. QED
    BY <1>3, <2>5, <2>6, <2>7, <2>8, <2>9, <2>10, <2>11 DEF CallStep
<1>4. CASE Install \/ CheckPhase \/ StartPhase \/ PhaseEnds \/ FlushEnds
  BY <1>1, <1>4 DEF Install, CheckPhase, StartPhase, PhaseEnds, FlushEnds, Handling, Ended
<1>5. CASE Restore \/ Assemble \/ WriteOutput \/ WriteFails
  <2>1. ~Calling
    BY <1>5 DEF CallsInv, Restore, Assemble, WriteOutput, WriteFails, Handling
  <2>. QED
    BY <1>1, <1>5, <2>1 DEF Restore, Assemble, WriteOutput, WriteFails, Handling, Ended, threadVars
<1>6. CASE Deadline
  <2>1. frames' = <<Cancel("timeout")>> /\ Len(frames') = 1 /\ frames'[1] = Cancel("timeout")
    BY <1>6 DEF Deadline
  <2>. QED
    BY <1>6, <2>1 DEF Deadline, CallsInv, Cancel, Interruptions, Calling, Handling
<1>7. CASE Finish
  <2>1. CASE event
    <3>1. frames' = <<Terminate>> /\ Len(frames') = 1 /\ frames'[1] = Terminate
      BY <1>7, <2>1 DEF Finish
    <3>. QED
      BY <1>7, <2>1, <3>1 DEF Finish, CallsInv, Terminate, Calling, Handling
  <2>2. CASE ~event
    BY <1>1, <1>7, <2>2 DEF Finish, Handling, Ended
  <2>. QED
    BY <2>1, <2>2
<1>8. CASE Sigterm
  <2>1. CASE main \in Handling
    <3>1. Cancel("cancelled") \in Calls
      BY DEF Cancel, Calls, Interruptions
    <3>2. /\ Len(frames') = Len(frames) + 1
          /\ \A i \in 1 .. Len(frames) : frames'[i] = frames[i]
          /\ frames'[Len(frames) + 1] = Cancel("cancelled")
      BY <1>0, <1>8, <2>1, <3>1, AppendProperties DEF Sigterm
    <3>3. Len(frames) \in Nat
      BY <1>0, LenProperties
    <3>. QED
      BY <1>8, <2>1, <3>2, <3>3 DEF Sigterm, CallsInv, Cancel, Interruptions, Calling
  <2>2. CASE main \notin Handling
    BY <1>8, <2>2 DEF Sigterm, CallsInv, Calling, Ended
  <2>. QED
    BY <2>1, <2>2
<1>9. ASSUME NEW v \in Validators, ValidatorStep(v) PROVE CallsInv'
  BY <1>1, <1>9
  DEF ValidatorStep, Enter, TestEvent, Complete, Spawn, Register, KillLate, ChildExits, Raise,
      MainUnchanged
<1>. QED
  BY <1>2, <1>3, <1>4, <1>5, <1>6, <1>7, <1>8, <1>9 DEF Next, MainStep

\* The runner's state is always of its type, however deep the calls nest.
THEOREM RunnerTypeCorrect == Spec => []TypeOK
<1>1. TypeInv => TypeOK
  BY DEF TypeInv
<1>2. TypeInv /\ [Next]_runnerVars => TypeInv'
  BY NextType, NextCalls DEF TypeInv
<1>. QED
  BY <1>1, <1>2, InitType, PTL DEF Spec
-----------------------------------------------------------------------------
\* The schedule of the phases.

\* A thread that has started does not go back to "off", and one that is over
\* stays so.
LEMMA ValidatorThreads ==
  ASSUME TypeOK, NEW v \in Validators, ValidatorStep(v)
  PROVE  /\ thread[v] \notin {"off", "over"} /\ thread'[v] # "off"
         /\ \A w \in Validators \ {v} : thread'[w] = thread[w]
         /\ MainUnchanged
  BY DEF TypeOK, ValidatorStep, Enter, TestEvent, Complete, Spawn, Register, KillLate, ChildExits,
         Raise, Thread

\* A call in progress leaves threads and phase alone, keeps the event and the
\* reason once they are set, and does not return before the event is set.
LEMMA CallsDisturb ==
  ASSUME TypeInv, CallStep
  PROVE  /\ UNCHANGED <<main, phase, thread, section, error, flushed, file, written>>
         /\ Calling /\ (event => event') /\ (reason # "none" => reason' = reason)
         /\ ~Undisturbed'
<1>1. UNCHANGED <<main, phase, thread, section, error, flushed, file, written>>
  BY DEF CallStep, Acquire, SetReason, AcquireEvent, SetEvent, ReleaseEvent, CopyRegistry,
         KillVictims, threadVars
<1>2. Calling /\ (reason # "none" => reason' = reason)
  BY DEF CallStep, Acquire, SetReason, AcquireEvent, SetEvent, ReleaseEvent, CopyRegistry,
         KillVictims
<1>3. event' = event \/ event' = TRUE
  BY DEF CallStep, Acquire, SetReason, AcquireEvent, SetEvent, ReleaseEvent, CopyRegistry,
         KillVictims
<1>4. ~Undisturbed'
  <2>1. /\ Len(frames) \in Nat \ {0} /\ Top = frames[Len(frames)] /\ frames' \in Seq(Calls)
        /\ Len(frames') = IF Top.at = "kill" THEN Len(frames) - 1 ELSE Len(frames)
    BY CallSteps DEF TypeInv
  <2>2. CallOK(Top)
    BY <2>1 DEF TypeInv, CallsInv
  <2>3. Top.at = "kill" => event'
    BY <2>2, <1>3 DEF CallOK
  <2>4. Top.at # "kill" => Calling'
    BY <2>1 DEF Calling
  <2>. QED
    BY <2>3, <2>4 DEF Undisturbed
<1>. QED
  BY <1>1, <1>2, <1>3, <1>4

\* Every validator is off.
LEMMA InitSchedule == Init => ScheduleInv
  BY PhaseOf DEF Init, ScheduleInv, OffAll, Ended

\* The loop starts a phase only when nothing has interrupted it so far, so the
\* phase before is over; an interruption lets it pass no other phase.
LEMMA NextSchedule == TypeInv /\ ScheduleInv /\ [Next]_runnerVars => ScheduleInv'
<1> SUFFICES ASSUME TypeInv, ScheduleInv, [Next]_runnerVars PROVE ScheduleInv'
  OBVIOUS
<1>0. /\ phase \in 1 .. 4 /\ (main \in {"start", "wait"} => phase \in 1 .. 3)
      /\ main \in {"boot", "assemble", "write"} \cup Handling \cup Ended
  BY PhaseFacts DEF TypeInv, TypeOK, PhaseBound
\* Steps that stay in place and move no thread across "off" or "over".
<1>1. ASSUME UNCHANGED <<main, phase>>, event => event', Undisturbed' => Undisturbed,
             \A v \in Validators : /\ thread[v] = "off" <=> thread'[v] = "off"
                                   /\ thread[v] = "over" => thread'[v] = "over"
      PROVE  ScheduleInv'
  <2>1. \A i \in 1 .. 3 : /\ OffAll(i) => OffAll(i)'
                          /\ StartedAll(i) => StartedAll(i)'
                          /\ OverAll(i) => OverAll(i)'
    BY <1>1, PhaseOf DEF OffAll, StartedAll, OverAll, Started
  <2>2. \A v \in Validators : ~Alive(v) => ~Alive(v)'
    BY <1>1 DEF Alive
  <2>3. main' = main /\ phase' = phase /\ (main = "flush" => event')
    BY <1>1 DEF ScheduleInv
  <2>4. main' \in Ended => \A v \in Validators : ~Alive(v)'
    BY <2>2, <2>3 DEF ScheduleInv
  <2>5. main' \notin Ended => \A i \in 1 .. 3 :
          /\ i > phase' => OffAll(i)'
          /\ i = phase' => IF main' = "wait" THEN StartedAll(i)' ELSE OffAll(i)'
          /\ i < phase' => StartedAll(i)'
          /\ i < phase' - 1 => OverAll(i)'
          /\ i = phase' - 1 /\ (main' \in {"start", "wait"} \/ Undisturbed') => OverAll(i)'
    BY <1>0, <1>1, <2>1, <2>3 DEF ScheduleInv
  <2>. QED
    BY <1>1, <2>3, <2>4, <2>5 DEF ScheduleInv
<1>2. CASE UNCHANGED runnerVars
  <2>1. UNCHANGED <<main, phase, event, frames, thread>>
    BY <1>2 DEF runnerVars, threadVars, lockVars
  <2>. QED
    BY <1>1, <2>1 DEF Undisturbed, Calling
<1>3. CASE CallStep
  BY <1>1, <1>3, CallsDisturb
<1>4. ASSUME NEW v \in Validators, ValidatorStep(v) PROVE ScheduleInv'
  <2>1. /\ thread[v] \notin {"off", "over"} /\ thread'[v] # "off"
        /\ \A w \in Validators \ {v} : thread'[w] = thread[w]
        /\ UNCHANGED <<main, phase, event, frames>>
    BY <1>4, ValidatorThreads DEF TypeInv, MainUnchanged
  <2>. QED
    BY <1>1, <2>1 DEF Undisturbed, Calling
\* Steps of run_probe: no thread moves but at StartPhase and at the end.
<1>5. ASSUME UNCHANGED thread PROVE \A i \in 1 .. 3 :
        OffAll(i)' = OffAll(i) /\ StartedAll(i)' = StartedAll(i) /\ OverAll(i)' = OverAll(i)
  BY <1>5 DEF OffAll, StartedAll, OverAll, Started
<1>6. CASE Install
  <2>1. UNCHANGED <<thread, phase>> /\ main = "boot" /\ main' = "check"
    BY <1>6 DEF Install, threadVars
  <2>. QED
    BY <1>0, <1>5, <2>1 DEF ScheduleInv, Ended
<1>7. CASE CheckPhase
  <2>1. /\ UNCHANGED <<thread, phase, event, frames>> /\ main = "check" /\ ~Calling
        /\ main' = IF event \/ phase > 3 THEN "finish" ELSE "start"
    BY <1>7, PhaseFacts DEF CheckPhase, threadVars
  <2>2. Undisturbed' = ~event
    BY <2>1 DEF Undisturbed, Calling
  <2>. QED
    BY <1>0, <1>5, <2>1, <2>2 DEF ScheduleInv, Ended, Undisturbed
<1>8. CASE StartPhase
  <2>1. /\ UNCHANGED <<phase, event, frames>> /\ main = "start" /\ main' = "wait"
        /\ \A v \in Validators :
             thread'[v] = IF v \in Phases[phase] THEN "enter" ELSE thread[v]
    BY <1>8 DEF StartPhase
  <2>2. \A i \in 1 .. 3 : i # phase => /\ OffAll(i) => OffAll(i)'
                                       /\ StartedAll(i) => StartedAll(i)'
                                       /\ OverAll(i) => OverAll(i)'
    BY <1>0, <2>1, PhaseOf DEF OffAll, StartedAll, OverAll, Started
  <2>3. StartedAll(phase)'
    BY <1>0, <2>1, PhaseOf DEF StartedAll, Started
  <2>. QED
    BY <1>0, <2>1, <2>2, <2>3 DEF ScheduleInv, Ended
<1>9. CASE PhaseEnds \/ Deadline
  <2>1. /\ UNCHANGED thread /\ main = "wait" /\ main' = "check" /\ phase' = phase + 1
        /\ Undisturbed' => \A v \in Phases[phase] : ~Alive(v)
    <3>1. CASE PhaseEnds
      BY <3>1 DEF PhaseEnds, threadVars, Undisturbed
    <3>2. CASE Deadline
      <4>1. frames' = <<Cancel("timeout")>>
        BY <3>2 DEF Deadline
      <4>. QED
        BY <3>2, <4>1 DEF Deadline, threadVars, Undisturbed, Calling
    <3>. QED
      BY <1>9, <3>1, <3>2
  <2>2. Undisturbed' => OverAll(phase)
    BY <1>0, <2>1 DEF ScheduleInv, StartedAll, OverAll, Started, Alive, Ended
  <2>. QED
    BY <1>0, <1>5, <2>1, <2>2 DEF ScheduleInv, Ended
<1>10. CASE Finish
  <2>1. UNCHANGED <<thread, phase>> /\ main = "finish" /\ event' = event
    BY <1>10 DEF Finish, threadVars
  <2>2. CASE event
    <3>1. main' = "flush" /\ ~Undisturbed'
      BY <1>10, <2>2 DEF Finish, Undisturbed
    <3>. QED
      BY <1>0, <1>5, <2>1, <2>2, <3>1 DEF ScheduleInv, Ended
  <2>3. CASE ~event
    <3>1. main' = "restore" /\ Undisturbed
      BY <1>10, <2>3 DEF Finish, Undisturbed
    <3>. QED
      BY <1>0, <1>5, <2>1, <3>1 DEF ScheduleInv, Ended
  <2>. QED
    BY <2>2, <2>3
<1>11. CASE FlushEnds \/ Restore
  <2>1. /\ UNCHANGED <<thread, phase>> /\ (Undisturbed' => Undisturbed)
        /\ \/ main = "flush" /\ main' = "restore"
           \/ main = "restore" /\ main' = "assemble"
    BY <1>11 DEF FlushEnds, Restore, threadVars, Undisturbed, Calling
  <2>2. main = "flush" => ~Undisturbed
    BY DEF ScheduleInv, Undisturbed
  <2>. QED
    BY <1>0, <1>5, <2>1, <2>2 DEF ScheduleInv, Ended
<1>12. CASE Assemble
  <2>1. /\ UNCHANGED <<thread, phase>> /\ main = "assemble" /\ (Undisturbed' => Undisturbed)
        /\ main' = "write" \/ (main' = "raised" /\ reason = "none")
    BY <1>12 DEF Assemble, Undisturbed, Calling
  <2>2. CASE main' = "write"
    BY <1>0, <1>5, <2>1, <2>2 DEF ScheduleInv, Ended
  <2>3. CASE main' = "raised"
    <3>1. Undisturbed
      BY <2>1, <2>3 DEF Undisturbed, TypeInv, CallsInv, Handling
    <3>2. \A i \in 1 .. 3 : OverAll(i)
      BY <1>0, <2>1, <3>1 DEF ScheduleInv, Ended
    <3>3. \A v \in Validators : ~Alive(v)'
      BY <2>1, <3>2, PhaseOf DEF OverAll, Alive
    <3>. QED
      BY <2>3, <3>3 DEF ScheduleInv, Ended
  <2>. QED
    BY <2>1, <2>2, <2>3
<1>13. CASE WriteOutput \/ WriteFails
  <2>1. main' \in {"done", "unwritten"} /\ \A v \in Validators : ~Alive(v)'
    BY <1>13 DEF WriteOutput, WriteFails, Alive
  <2>. QED
    BY <2>1 DEF ScheduleInv, Ended
<1>14. CASE Sigterm
  <2>1. CASE main \in Handling
    <3>1. Cancel("cancelled") \in Calls /\ frames \in Seq(Calls)
      BY DEF TypeInv, TypeOK, Cancel, Calls, Interruptions
    <3>2. Calling' /\ UNCHANGED <<main, phase, thread, event>>
      BY <1>14, <2>1, <3>1, AppendProperties DEF Sigterm, Calling
    <3>. QED
      BY <1>1, <3>2 DEF Undisturbed
  <2>2. CASE main \notin Handling
    <3>1. main' = "killed" /\ \A v \in Validators : ~Alive(v)'
      BY <1>14, <2>2 DEF Sigterm, Alive
    <3>. QED
      BY <3>1 DEF ScheduleInv, Ended
  <2>. QED
    BY <2>1, <2>2
<1>. QED
  BY <1>2, <1>3, <1>4, <1>6, <1>7, <1>8, <1>9, <1>10, <1>11, <1>12, <1>13, <1>14
  DEF Next, MainStep
-----------------------------------------------------------------------------
\* The sections.
LEMMA InitSections == Init => SectionsInv
  BY DEF Init, SectionsInv, SectionOK, Whole, Vouches, Ended, Alive

\* What is known of the reason at the assembly: without one nothing disturbed
\* the schedule, and every validator is over.
LEMMA UninterruptedIsOver ==
  ASSUME TypeInv, ScheduleInv, main = "assemble", reason = "none"
  PROVE  \A v \in Validators : thread[v] = "over"
<1>1. Undisturbed
  BY DEF TypeInv, CallsInv, Undisturbed, Handling
<1>2. \A i \in 1 .. 3 : OverAll(i)
  BY <1>1 DEF ScheduleInv, Ended
<1>. QED
  BY <1>2, PhaseOf DEF OverAll

\* Each status a section takes is the one its thread has earned.
LEMMA NextSections == TypeInv /\ ScheduleInv /\ SectionsInv /\ [Next]_runnerVars => SectionsInv'
<1> SUFFICES ASSUME TypeInv, ScheduleInv, SectionsInv, [Next]_runnerVars PROVE SectionsInv'
  OBVIOUS
<1>0. \A v \in Validators : SectionOK(v)
  BY DEF SectionsInv
\* Steps of the main thread that touch neither sections nor file.
<1>1. ASSUME UNCHANGED <<thread, section, error, flushed, file, written>>,
             reason # "none" => reason' = reason,
             main \notin {"write"} \cup Ended, main' \notin {"write"} \cup Ended
      PROVE  SectionsInv'
  <2>1. \A v \in Validators : (Alive(v) <=> Alive(v)') /\ (Whole(v) <=> Whole(v)')
    BY <1>1 DEF Alive, Whole
  <2>2. \A v \in Validators : SectionOK(v)'
    BY <1>0, <1>1, <2>1 DEF SectionOK, Ended
  <2>. QED
    BY <1>1, <2>2 DEF SectionsInv, Ended
<1>2. CASE UNCHANGED runnerVars
  <2>1. UNCHANGED <<main, reason, thread, section, error, flushed, file, written>>
    BY <1>2 DEF runnerVars, threadVars, lockVars
  <2>2. \A v \in Validators : (Alive(v) <=> Alive(v)') /\ (Whole(v) <=> Whole(v)')
    BY <2>1 DEF Alive, Whole
  <2>3. \A v \in Validators : SectionOK(v)'
    BY <1>0, <2>1, <2>2 DEF SectionOK
  <2>. QED
    BY <2>1, <2>3 DEF SectionsInv, Outcome
<1>3. CASE CallStep
  <2>1. main \in Handling
    BY <1>3, CallsDisturb DEF TypeInv, CallsInv
  <2>. QED
    BY <1>1, <1>3, <2>1, CallsDisturb DEF Handling, Ended
<1>4. CASE Install \/ CheckPhase \/ PhaseEnds \/ Deadline \/ Finish \/ FlushEnds \/ Restore
  <2>1. UNCHANGED <<reason, thread, section, error, flushed, file, written>>
    BY <1>4 DEF Install, CheckPhase, PhaseEnds, Deadline, Finish, FlushEnds, Restore, threadVars
  <2>2. main \notin {"write"} \cup Ended /\ main' \notin {"write"} \cup Ended
    BY <1>4 DEF Install, CheckPhase, PhaseEnds, Deadline, Finish, FlushEnds, Restore, Ended
  <2>. QED
    BY <1>1, <2>1, <2>2
<1>5. CASE StartPhase
  <2>1. /\ UNCHANGED <<reason, section, error, flushed, file, written>>
        /\ main = "start" /\ main' = "wait"
        /\ \A v \in Validators : thread'[v] = IF v \in Phases[phase] THEN "enter" ELSE thread[v]
    BY <1>5 DEF StartPhase
  <2>2. \A v \in Validators : v \in Phases[phase] => thread[v] = "off"
    BY <2>1 DEF TypeInv, PhaseBound, ScheduleInv, OffAll, Ended
  <2>3. ASSUME NEW v \in Validators PROVE SectionOK(v)'
    <3>1. CASE v \in Phases[phase]
      <4>1. Whole(v) /\ Whole(v)' /\ section[v] = "not_started"
        BY <1>0, <2>1, <2>2, <3>1 DEF SectionOK, Whole
      <4>. QED
        BY <1>0, <2>1, <3>1, <4>1 DEF SectionOK, Alive, Vouches, Whole, Ended
    <3>2. CASE v \notin Phases[phase]
      <4>1. (Alive(v) <=> Alive(v)') /\ (Whole(v) <=> Whole(v)') /\ thread'[v] = thread[v]
        BY <2>1, <3>2 DEF Alive, Whole
      <4>. QED
        BY <1>0, <2>1, <4>1 DEF SectionOK, Ended
    <3>. QED
      BY <3>1, <3>2
  <2>. QED
    BY <2>1, <2>3 DEF SectionsInv, Ended
<1>6. CASE Assemble
  <2>0. main = "assemble" /\ UNCHANGED <<reason, thread, error, flushed, file, written>>
    BY <1>6 DEF Assemble
  <2>1. \A v \in Validators : (Alive(v) <=> Alive(v)') /\ (Whole(v) <=> Whole(v)')
    BY <2>0 DEF Alive, Whole
  <2>2. CASE main' = "raised"
    <3>1. UNCHANGED section
      BY <1>6, <2>2 DEF Assemble
    <3>2. \A v \in Validators : SectionOK(v)'
      BY <1>0, <2>0, <2>1, <2>2, <3>1 DEF SectionOK, Ended
    <3>. QED
      BY <2>0, <2>2, <3>2 DEF SectionsInv, Ended
  <2>3. CASE main' # "raised"
    <3>1. /\ main' = "write"
          /\ reason = "none" => \A v \in Validators : ~error[v]
          /\ \A v \in Validators : section'[v] =
               IF ~Started(v) THEN "not_started"
               ELSE IF Alive(v) \/ section[v] = "not_started" THEN Outcome ELSE section[v]
      BY <1>6, <2>3 DEF Assemble
    <3>2. ASSUME NEW v \in Validators PROVE SectionOK(v)'
      <4>1. reason = "none" => thread[v] = "over"
        BY <2>0, UninterruptedIsOver
      <4>2. reason = "none" => Whole(v)
        BY <1>0, <3>1 DEF SectionOK, Whole
      <4>3. reason = "none" => section'[v] = section[v] /\ Vouches(section[v])
        BY <1>0, <2>0, <3>1, <4>1, <4>2 DEF SectionOK, Started, Alive, Vouches, Ended
      <4>4. reason # "none" => Outcome \in Interruptions /\ Outcome = reason
        BY DEF Outcome, TypeInv, TypeOK
      <4>5. Alive(v) => section'[v] \in Interruptions
        BY <3>1, <4>1, <4>4 DEF Alive, Started
      <4>6. Vouches(section'[v]) => Whole(v)
        <5>1. CASE reason = "none"
          BY <4>2, <5>1
        <5>2. CASE reason # "none"
          <6>1. Vouches(section'[v]) => section'[v] = section[v] /\ Vouches(section[v])
            BY <3>1, <4>4, <5>2 DEF Vouches, Interruptions
          <6>. QED
            BY <1>0, <2>0, <6>1 DEF SectionOK, Ended
        <5>. QED
          BY <5>1, <5>2
      <4>7. reason = "none" => Vouches(section'[v])
        BY <4>3
      <4>8. thread'[v] = "off" => section'[v] = "not_started"
        BY <2>0, <3>1 DEF Started
      <4>9. /\ thread'[v] # "over" => Whole(v)'
            /\ flushed'[v] # "no" => flushed'[v] = reason' /\ reason' # "none"
        BY <1>0, <2>0, <2>1 DEF SectionOK
      <4>. QED
        BY <2>0, <2>1, <3>1, <4>5, <4>6, <4>7, <4>8, <4>9 DEF SectionOK
    <3>. QED
      BY <2>0, <3>1, <3>2 DEF SectionsInv, Ended
  <2>. QED
    BY <2>2, <2>3
<1>7. CASE WriteOutput
  <2>1. /\ main = "write" /\ main' = "done" /\ file' = Outcome /\ written' = section
        /\ UNCHANGED <<reason, section, error, flushed>>
        /\ \A v \in Validators : thread'[v] = IF Started(v) THEN "over" ELSE "off"
    BY <1>7 DEF WriteOutput
  <2>2. ASSUME NEW v \in Validators PROVE SectionOK(v)'
    <3>1. Whole(v) <=> Whole(v)'
      BY <2>1 DEF Whole
    <3>. QED
      BY <1>0, <2>1, <3>1 DEF SectionOK, Started, Ended
  <2>. QED
    BY <2>1, <2>2 DEF SectionsInv, Ended, Outcome
<1>8. CASE Sigterm \/ WriteFails
  <2>1. CASE Sigterm /\ main \in Handling
    BY <1>1, <2>1 DEF Sigterm, Handling, Ended
  <2>2. CASE WriteFails \/ (Sigterm /\ main \notin Handling)
    <3>1. /\ main \notin Ended /\ main' \in {"unwritten", "killed"}
          /\ UNCHANGED <<reason, section, error, flushed>>
          /\ file' \in {"absent", "torn"}
          /\ \A v \in Validators : thread'[v] = IF Started(v) THEN "over" ELSE "off"
      BY <2>2 DEF Sigterm, WriteFails, Ended
    <3>2. ASSUME NEW v \in Validators PROVE SectionOK(v)'
      <4>1. Whole(v) <=> Whole(v)'
        BY <3>1 DEF Whole
      <4>. QED
        BY <1>0, <3>1, <4>1 DEF SectionOK, Started, Ended
    <3>. QED
      BY <3>1, <3>2 DEF SectionsInv, Ended
  <2>. QED
    BY <1>8, <2>1, <2>2
<1>9. ASSUME NEW v \in Validators, ValidatorStep(v) PROVE SectionsInv'
  <2>0. UNCHANGED <<main, reason, file, written>> /\ Alive(v) /\ main \notin Ended
    BY <1>9, ValidatorThreads DEF TypeInv, MainUnchanged, Alive, ScheduleInv
  <2>1. SectionOK(v) /\ Whole(v)
    BY <1>0, <2>0 DEF SectionOK, Alive
  <2>2. ASSUME NEW w \in Validators \ {v} PROVE SectionOK(w)'
    <3>1. /\ thread'[w] = thread[w] /\ section'[w] = section[w]
          /\ error'[w] = error[w] /\ flushed'[w] = flushed[w]
      BY <1>9
      DEF ValidatorStep, Enter, TestEvent, Complete, Spawn, Register, KillLate, ChildExits, Raise,
          Thread, TypeInv, TypeOK
    <3>2. (Alive(w) <=> Alive(w)') /\ (Whole(w) <=> Whole(w)') /\ SectionOK(w)
      BY <1>0, <3>1 DEF Alive, Whole
    <3>. QED
      BY <2>0, <3>1, <3>2 DEF SectionOK
  \* The thread lives on, or ends with the status of one that did all its work.
  <2>3. ASSUME UNCHANGED <<section, error, flushed>>, thread'[v] \notin {"off", "over"}
        PROVE  SectionOK(v)'
    <3>1. Alive(v)' /\ Whole(v)'
      BY <2>1, <2>3 DEF Alive, Whole
    <3>. QED
      BY <2>0, <2>1, <2>3, <3>1 DEF SectionOK
  <2>4. ASSUME UNCHANGED <<error, flushed>>, thread'[v] = "over", Vouches(section'[v])
        PROVE  SectionOK(v)'
    <3>1. ~Alive(v)' /\ Whole(v)'
      BY <2>1, <2>4 DEF Alive, Whole
    <3>. QED
      BY <2>0, <2>1, <2>4, <3>1 DEF SectionOK, Whole, Ended
  \* Or it is cut short, and then its section does not vouch for it.
  <2>5. ASSUME UNCHANGED section, thread'[v] = "over", ~Whole(v)',
               flushed'[v] # "no" => flushed'[v] = reason /\ reason # "none"
        PROVE  SectionOK(v)'
    <3>1. ~Alive(v)' /\ ~Vouches(section[v])
      BY <2>0, <2>1, <2>5 DEF Alive, SectionOK, Vouches, Interruptions, Ended
    <3>. QED
      BY <2>0, <2>1, <2>5, <3>1 DEF SectionOK, Ended
  <2>. SUFFICES SectionOK(v)'
    BY <2>0, <2>2 DEF SectionsInv, Outcome
  <2>6. CASE Enter(v)
    <3>1. \/ UNCHANGED <<section, error, flushed>> /\ thread'[v] = "loop"
          \/ UNCHANGED <<error, flushed>> /\ thread'[v] = "over" /\ section'[v] = "skipped"
      BY <2>6 DEF Enter, Thread, TypeInv, TypeOK
    <3>. QED
      BY <2>3, <2>4, <3>1 DEF Vouches
  <2>7. CASE TestEvent(v)
    <3>1. CASE event
      <4>1. /\ UNCHANGED section /\ thread'[v] = "over"
            /\ flushed'[v] = reason /\ reason \in Interruptions
        BY <2>7, <3>1 DEF TestEvent, Thread, TypeInv, TypeOK, CallsInv
      <4>2. reason # "none" /\ ~Whole(v)'
        BY <4>1 DEF Whole, Interruptions
      <4>. QED
        BY <2>5, <4>1, <4>2
    <3>2. CASE ~event
      BY <2>3, <2>7, <3>2 DEF TestEvent, Thread, TypeInv, TypeOK
    <3>. QED
      BY <3>1, <3>2
  <2>8. CASE Complete(v)
    <3>1. UNCHANGED <<error, flushed>> /\ thread'[v] = "over" /\ section'[v] = "complete"
      BY <2>8 DEF Complete, Thread, TypeInv, TypeOK
    <3>. QED
      BY <2>4, <3>1 DEF Vouches
  <2>9. CASE Spawn(v) \/ Register(v) \/ KillLate(v) \/ ChildExits(v)
    <3>1. UNCHANGED <<section, error, flushed>> /\ thread'[v] \notin {"off", "over"}
      BY <2>9 DEF Spawn, Register, KillLate, ChildExits, Thread, TypeInv, TypeOK
    <3>. QED
      BY <2>3, <3>1
  <2>10. CASE Raise(v)
    <3>1. UNCHANGED <<section, flushed>> /\ thread'[v] = "over" /\ error'[v] = TRUE
      BY <2>10 DEF Raise, TypeInv, TypeOK
    <3>2. ~Whole(v)'
      BY <3>1 DEF Whole
    <3>3. flushed'[v] # "no" => flushed'[v] = reason /\ reason # "none"
      BY <2>1, <3>1 DEF SectionOK
    <3>. QED
      BY <2>5, <3>1, <3>2, <3>3
  <2>. QED
    BY <1>9, <2>6, <2>7, <2>8, <2>9, <2>10 DEF ValidatorStep
<1>. QED
  BY <1>2, <1>3, <1>4, <1>5, <1>6, <1>7, <1>8, <1>9 DEF Next, MainStep
-----------------------------------------------------------------------------
\* The children.
LEMMA InitKillers == Init => KillersInv
  BY DEF Init, KillersInv

\* A call that was to kill a child does so before it returns, and a child that
\* registers after the event is killed by its own thread.
LEMMA NextKillers == TypeInv /\ ScheduleInv /\ KillersInv /\ [Next]_runnerVars => KillersInv'
<1> SUFFICES ASSUME TypeInv, ScheduleInv, KillersInv, [Next]_runnerVars,
                    main' \notin Ended,
                    NEW v \in Validators, child'[v] = "registered"
             PROVE  /\ thread'[v] \in {"late", "await"}
                    /\ event' /\ thread'[v] = "await" =>
                         \E i \in 1 .. Len(frames') : Kills(frames'[i], v)
  BY DEF KillersInv
<1> DEFINE Killed == \E i \in 1 .. Len(frames) : Kills(frames[i], v)
           Safe == /\ thread[v] \in {"late", "await"}
                   /\ event /\ thread[v] = "await" => Killed
<1>0. /\ main \notin Ended /\ child[v] = "registered" => Safe
      /\ frames \in Seq(Calls) /\ Len(frames) \in Nat
  BY LenProperties DEF KillersInv, TypeInv, TypeOK, Calls
<1>1. ASSUME UNCHANGED <<event, frames>>, child'[v] = child[v], thread'[v] = thread[v],
             main \notin Ended
      PROVE  Safe'
  BY <1>0, <1>1
<1>2. CASE UNCHANGED runnerVars
  BY <1>1, <1>2 DEF runnerVars, threadVars, lockVars
<1>3. CASE CallStep
  <2>0. UNCHANGED thread /\ main \notin Ended /\ Calling
    BY <1>3, CallsDisturb
  <2>1. /\ Len(frames) \in Nat \ {0} /\ Top = frames[Len(frames)] /\ Top \in Calls
        /\ Len(frames') = IF Top.at = "kill" THEN Len(frames) - 1 ELSE Len(frames)
        /\ \A i \in 1 .. Len(frames) - 1 : frames'[i] = frames[i]
    BY <1>3, CallSteps DEF TypeInv
  <2>2. CASE Acquire
    <3>1. UNCHANGED <<child, event>> /\ Top.at \in {"acquireReason", "acquireCopy"}
      BY <2>2 DEF Acquire, threadVars
    <3>2. frames'[Len(frames)] =
            [Top EXCEPT !.at = IF Top.at = "acquireReason" THEN "reason" ELSE "copy"]
      BY <1>3, <2>2, CallSteps DEF TypeInv
    <3>3. Kills(Top, v) => Kills(frames'[Len(frames)], v)
      BY <2>1, <3>1, <3>2 DEF Kills, Calls
    <3>4. Len(frames') = Len(frames)
      BY <2>1, <3>1
    <3>5. Killed => Killed'
      BY <2>1, <3>3, <3>4
    <3>. QED
      BY <1>0, <2>0, <3>1, <3>5
  <2>3. CASE SetReason
    <3>1. UNCHANGED <<child, event>> /\ Top.at = "reason"
      BY <2>3 DEF SetReason, threadVars
    <3>2. ~Kills(Top, v) /\ Len(frames') = Len(frames)
      BY <2>1, <3>1 DEF Kills
    <3>3. Killed => Killed'
      BY <2>1, <3>2
    <3>. QED
      BY <1>0, <2>0, <3>1, <3>3
  <2>7. CASE AcquireEvent
    <3>1. UNCHANGED <<child, event>> /\ Top.at = "acquireEvent"
      BY <2>7 DEF AcquireEvent, threadVars
    <3>2. ~Kills(Top, v) /\ Len(frames') = Len(frames)
      BY <2>1, <3>1 DEF Kills
    <3>3. Killed => Killed'
      BY <2>1, <3>2
    <3>. QED
      BY <1>0, <2>0, <3>1, <3>3
  <2>4. CASE SetEvent
    <3>1. UNCHANGED child /\ Top.at = "set"
      BY <2>4 DEF SetEvent, threadVars
    <3>2. frames'[Len(frames)] = [Top EXCEPT !.at = "notify"]
      BY <1>3, <2>4, CallSteps DEF TypeInv
    <3>3. Kills(frames'[Len(frames)], v) /\ Len(frames') = Len(frames)
      BY <2>1, <3>1, <3>2 DEF Kills, Calls
    <3>4. Killed'
      BY <2>1, <3>3
    <3>. QED
      BY <1>0, <2>0, <3>1, <3>4
  <2>8. CASE ReleaseEvent
    <3>1. UNCHANGED child /\ Top.at = "notify"
      BY <2>8 DEF ReleaseEvent, threadVars
    <3>2. frames'[Len(frames)] = [Top EXCEPT !.at = "acquireCopy"]
      BY <1>3, <2>8, CallSteps DEF TypeInv
    <3>3. Kills(frames'[Len(frames)], v) /\ Len(frames') = Len(frames)
      BY <2>1, <3>1, <3>2 DEF Kills, Calls
    <3>4. Killed'
      BY <2>1, <3>3
    <3>. QED
      BY <1>0, <2>0, <3>1, <3>4
  <2>5. CASE CopyRegistry
    <3>1. UNCHANGED child /\ Top.at = "copy"
      BY <2>5 DEF CopyRegistry, threadVars
    <3>2. frames'[Len(frames)] =
            [Top EXCEPT !.at = "kill", !.victims = {w \in Validators : child[w] = "registered"}]
      BY <1>3, <2>5, CallSteps DEF TypeInv
    <3>3. frames'[Len(frames)].at = "kill" /\ v \in frames'[Len(frames)].victims
      BY <2>1, <3>1, <3>2 DEF Calls
    <3>4. Killed'
      BY <2>1, <3>1, <3>3 DEF Kills
    <3>. QED
      BY <1>0, <2>0, <3>1, <3>4
  <2>6. CASE KillVictims
    <3>1. /\ Top.at = "kill" /\ UNCHANGED event
          /\ child'[v] = IF v \in Top.victims /\ child[v] = "registered"
                           THEN "killed" ELSE child[v]
      BY <2>6 DEF KillVictims
    <3>2. child[v] = "registered" /\ ~Kills(Top, v)
      BY <3>1 DEF Kills
    <3>3. Len(frames') = Len(frames) - 1
      BY <2>1, <3>1
    <3>4. Killed => Killed'
      BY <2>1, <3>2, <3>3
    <3>. QED
      BY <1>0, <2>0, <3>1, <3>2, <3>4
  <2>. QED
    BY <1>3, <2>2, <2>3, <2>4, <2>5, <2>6, <2>7, <2>8 DEF CallStep
<1>4. CASE Install \/ CheckPhase \/ PhaseEnds \/ FlushEnds \/ Restore \/ Assemble
  BY <1>1, <1>4
  DEF Install, CheckPhase, PhaseEnds, FlushEnds, Restore, Assemble, threadVars, Ended
<1>5. CASE StartPhase
  <2>1. /\ UNCHANGED <<child, event, frames>> /\ main = "start"
        /\ thread'[v] = IF v \in Phases[phase] THEN "enter" ELSE thread[v]
    BY <1>5 DEF StartPhase
  <2>2. v \in Phases[phase] => thread[v] = "off"
    BY <2>1 DEF TypeInv, PhaseBound, ScheduleInv, OffAll, Ended
  <2>. QED
    BY <1>0, <1>1, <2>1, <2>2 DEF Ended
<1>6. CASE Deadline
  <2>1. UNCHANGED <<child, event, thread>> /\ ~event /\ main \notin Ended
    BY <1>6 DEF Deadline, threadVars, Ended
  <2>. QED
    BY <1>0, <2>1
<1>7. CASE Finish
  <2>1. UNCHANGED <<child, event, thread>> /\ main \notin Ended
    BY <1>7 DEF Finish, threadVars, Ended
  <2>2. CASE event
    <3>1. frames' = <<Terminate>>
      BY <1>7, <2>2 DEF Finish
    <3>2. Len(frames') = 1 /\ frames'[1] = Terminate
      BY <3>1
    <3>3. Kills(frames'[1], v)
      BY <3>2 DEF Kills, Terminate
    <3>. QED
      BY <1>0, <2>1, <3>2, <3>3
  <2>3. CASE ~event
    BY <1>0, <2>1, <2>3
  <2>. QED
    BY <2>2, <2>3
<1>8. CASE WriteOutput \/ WriteFails
  BY <1>8 DEF WriteOutput, WriteFails, Ended
<1>9. CASE Sigterm
  <2>1. main \in Handling /\ frames' = Append(frames, Cancel("cancelled"))
        /\ UNCHANGED <<child, event, thread>> /\ main \notin Ended
    BY <1>9 DEF Sigterm, Ended
  <2>2. Cancel("cancelled") \in Calls
    BY DEF Cancel, Calls, Interruptions
  <2>3. Len(frames') = Len(frames) + 1 /\ \A i \in 1 .. Len(frames) : frames'[i] = frames[i]
    BY <1>0, <2>1, <2>2, AppendProperties
  <2>4. Killed => Killed'
    BY <1>0, <2>3
  <2>. QED
    BY <1>0, <2>1, <2>4
<1>10. ASSUME NEW w \in Validators, ValidatorStep(w) PROVE Safe'
  <2>0. UNCHANGED <<main, event, frames>> /\ main \notin Ended
    BY <1>10, ValidatorThreads DEF TypeInv, MainUnchanged
  <2>1. CASE w # v
    <3>1. child'[v] = child[v] /\ thread'[v] = thread[v]
      BY <1>10, <2>1
      DEF ValidatorStep, Enter, TestEvent, Complete, Spawn, Register, KillLate, ChildExits, Raise,
          Thread, TypeInv, TypeOK
    <3>. QED
      BY <1>1, <2>0, <3>1
  <2>2. CASE w = v
    <3>1. CASE Enter(v) \/ TestEvent(v) \/ Complete(v) \/ Raise(v)
      <4>1. child'[v] = child[v] /\ thread[v] \notin {"late", "await"}
        BY <3>1 DEF Enter, TestEvent, Complete, Raise, Thread
      <4>. QED
        BY <1>0, <2>0, <4>1
    <3>2. CASE Spawn(v) \/ KillLate(v) \/ ChildExits(v)
      <4>1. child'[v] # "registered"
        BY <3>2 DEF Spawn, KillLate, ChildExits, TypeInv, TypeOK
      <4>. QED
        BY <4>1
    <3>3. CASE Register(v)
      <4>1. thread'[v] = IF event THEN "late" ELSE "await"
        BY <3>3 DEF Register, Thread, TypeInv, TypeOK
      <4>. QED
        BY <2>0, <4>1
    <3>. QED
      BY <1>10, <2>2, <3>1, <3>2, <3>3 DEF ValidatorStep
  <2>. QED
    BY <2>1, <2>2
<1>11. CASE \E w \in Validators : ValidatorStep(w)
  BY <1>10, <1>11
<1>. QED
  BY <1>2, <1>3, <1>4, <1>5, <1>6, <1>7, <1>8, <1>9, <1>11 DEF Next, MainStep
-----------------------------------------------------------------------------
RunnerInv == TypeInv /\ ScheduleInv /\ SectionsInv /\ KillersInv

\* The invariant holds throughout.
LEMMA RunnerInvariant == Spec => []RunnerInv
<1>1. Init => RunnerInv
  BY InitType, InitSchedule, InitSections, InitKillers DEF RunnerInv
<1>2. RunnerInv /\ [Next]_runnerVars => RunnerInv'
  BY NextType, NextCalls, NextSchedule, NextSections, NextKillers DEF RunnerInv, TypeInv
<1>. QED
  BY <1>1, <1>2, PTL DEF Spec

\* A document that calls the probe complete vouches for every section, and a
\* section that says it is whole comes from a validator that ran to its end:
\* what the report takes at its word, however many SIGTERMs arrive
\* (probe_runner.py:204-218).
THEOREM DocumentVouches == Spec => []CompleteIsWhole
<1>1. RunnerInv => CompleteIsWhole
  <2> SUFFICES ASSUME RunnerInv PROVE CompleteIsWhole
    OBVIOUS
  <2>1. ASSUME file = "complete" PROVE main = "done" /\ reason = "none"
    BY <2>1 DEF RunnerInv, SectionsInv, TypeInv, TypeOK, Outcome, Interruptions, Ended
  <2>. QED
    BY <2>1 DEF RunnerInv, SectionsInv, SectionOK, Vouches, Whole, CompleteIsWhole
<1>. QED
  BY <1>1, RunnerInvariant, PTL

\* What a validator flushes when it is interrupted bears the reason the
\* document ends up with: the first call of cancel fixes it before the event
\* is set, and no later timeout or SIGTERM changes it.
THEOREM FirstReasonWins == Spec => []FlushedAgrees
<1>1. RunnerInv => FlushedAgrees
  BY DEF RunnerInv, SectionsInv, SectionOK, TypeInv, TypeOK, Outcome, FlushedAgrees
<1>. QED
  BY <1>1, RunnerInvariant, PTL

\* Validators of different phases never probe at the same time, cancelled or
\* not (probe_runner.py:43-45).
THEOREM PhasesDoNotOverlap == Spec => []PhasesApart
<1>1. RunnerInv => PhasesApart
  <2> SUFFICES ASSUME RunnerInv, NEW i \in 1 .. 3, NEW j \in 1 .. 3, i < j,
                      NEW v \in Phases[i], Alive(v), NEW w \in Phases[j], Alive(w)
               PROVE  FALSE
    BY PhaseFacts DEF PhasesApart
  <2>1. v \in Validators /\ main \notin Ended
    BY PhaseOf DEF RunnerInv, ScheduleInv
  <2>2. j <= phase /\ i >= phase - 1 /\ phase \in 1 .. 4
    BY <2>1, PhaseFacts
    DEF RunnerInv, TypeInv, TypeOK, ScheduleInv, OffAll, OverAll, Alive
  <2>3. j = phase /\ i = phase - 1
    BY <2>2
  <2>4. main = "wait"
    BY <2>1, <2>3 DEF RunnerInv, ScheduleInv, OffAll, Alive
  <2>. QED
    BY <2>1, <2>3, <2>4 DEF RunnerInv, ScheduleInv, OverAll, Alive
<1>. QED
  BY <1>1, RunnerInvariant, PTL

\* After the termination pass no registered child is left running behind the
\* probe, but one that its own thread is about to kill, however registering
\* and cancelling interleave (probe_runner.py:79-81).
THEOREM NoChildIsLeaked == Spec => []NoLeakedChild
<1>1. RunnerInv => NoLeakedChild
  BY DEF RunnerInv, KillersInv, NoLeakedChild, Calling, Ended
<1>. QED
  BY <1>1, RunnerInvariant, PTL

\* The runner as its hook sees it keeps the promise of ProbeOutcome: it is
\* interrupted at most once, for one reason, and ends by writing one whole
\* document with that reason, by failing loudly when it was not interrupted, or
\* by failing to write or being killed.  The step that sets the reason, the two
\* ends of the write, the raise and the fatal SIGTERM are the promise's steps;
\* every other one is a stutter.
THEOREM RunnerImplements == Spec => KeepsPromise
<1> DEFINE Ending == CASE main = "done" -> "written" [] main = "raised" -> "failed"
                       [] main \in {"unwritten", "killed"} -> main [] OTHER -> "running"
<1>1. Init => Promise!Init
  BY DEF Init, Promise!Init
<1>2. RunnerInv /\ [Next]_runnerVars => [Promise!Next]_Promise!outcomeVars
  <2> SUFFICES ASSUME RunnerInv, [Next]_runnerVars
               PROVE  Promise!Next \/ UNCHANGED <<reason, Ending, file>>
    BY DEF Promise!outcomeVars
  <2>0. /\ main \notin Ended => Ending = "running" /\ file = "absent"
        /\ reason \in {"none"} \cup Interruptions
    BY DEF RunnerInv, SectionsInv, Ended, TypeInv, TypeOK
  <2>1. CASE UNCHANGED runnerVars
    BY <2>1 DEF runnerVars, threadVars, lockVars
  \* Steps that end nothing and interrupt nothing.
  <2>2. ASSUME UNCHANGED <<reason, file>>, main \notin Ended, main' \notin Ended
        PROVE  UNCHANGED <<reason, Ending, file>>
    BY <2>2 DEF Ended
  <2>3. CASE CallStep
    <3>1. main \in Handling /\ UNCHANGED <<main, file>>
      BY <2>3, CallsDisturb DEF RunnerInv, TypeInv, CallsInv
    <3>2. CASE UNCHANGED reason
      BY <3>1, <3>2
    <3>3. CASE reason' # reason
      <4>1. SetReason
        BY <2>3, <3>3
        DEF CallStep, Acquire, AcquireEvent, SetEvent, ReleaseEvent, CopyRegistry, KillVictims
      <4>2. Top.reason \in Interruptions
        <5>1. Top = frames[Len(frames)] /\ Len(frames) \in Nat \ {0}
          BY <2>3, CallSteps DEF RunnerInv, TypeInv
        <5>. QED
          BY <4>1, <5>1 DEF SetReason, RunnerInv, TypeInv, CallsInv, CallOK
      <4>3. reason = "none" /\ reason' = Top.reason
        BY <3>3, <4>1 DEF SetReason
      <4>4. Ending = "running" /\ Ending' = "running"
        BY <3>1 DEF Handling
      <4>5. Promise!Interrupt(Top.reason)
        BY <3>1, <4>3, <4>4 DEF Promise!Interrupt
      <4>. QED
        BY <4>2, <4>5 DEF Promise!Next
    <3>. QED
      BY <3>2, <3>3
  <2>4. CASE Install \/ CheckPhase \/ StartPhase \/ PhaseEnds \/ Deadline \/ Finish \/ FlushEnds \/ Restore
    <3>1. UNCHANGED <<reason, file>> /\ main \notin Ended /\ main' \notin Ended
      BY <2>4 DEF Install, CheckPhase, StartPhase, PhaseEnds, Deadline, Finish, FlushEnds, Restore, Ended
    <3>. QED
      BY <2>2, <3>1
  <2>5. CASE Assemble
    <3>0. UNCHANGED <<reason, file>> /\ main = "assemble"
      BY <2>5 DEF Assemble
    <3>1. CASE main' = "raised"
      <4>1. reason = "none"
        BY <2>5, <3>1 DEF Assemble
      <4>2. Ending = "running" /\ Ending' = "failed"
        BY <3>0, <3>1
      <4>3. Promise!Fail
        BY <3>0, <4>1, <4>2 DEF Promise!Fail
      <4>. QED
        BY <4>3 DEF Promise!Next
    <3>2. CASE main' # "raised"
      <4>1. main' = "write"
        BY <2>5, <3>2 DEF Assemble
      <4>. QED
        BY <2>2, <3>0, <4>1 DEF Ended
    <3>. QED
      BY <3>1, <3>2
  <2>6. CASE WriteOutput
    <3>1. main = "write" /\ main' = "done" /\ file' = Outcome /\ UNCHANGED reason
      BY <2>6 DEF WriteOutput
    <3>2. Ending = "running" /\ Ending' = "written"
      BY <3>1
    <3>3. Promise!Write
      BY <3>1, <3>2 DEF Promise!Write, Outcome
    <3>. QED
      BY <3>3 DEF Promise!Next
  <2>7. CASE Sigterm \/ WriteFails
    <3>1. CASE Sigterm /\ main \in Handling
      <4>1. UNCHANGED <<main, reason, file>>
        BY <3>1 DEF Sigterm
      <4>. QED
        BY <4>1
    <3>2. CASE WriteFails \/ (Sigterm /\ main \notin Handling)
      <4>1. /\ main \notin Ended /\ main' \in {"unwritten", "killed"} /\ UNCHANGED reason
            /\ file' \in {"absent", "torn"}
        BY <3>2 DEF Sigterm, WriteFails, Ended
      <4>2. Ending = "running" /\ Ending' = main'
        BY <2>0, <4>1
      <4>3. Promise!Break(main')
        BY <4>1, <4>2 DEF Promise!Break
      <4>. QED
        BY <4>1, <4>3 DEF Promise!Next
    <3>. QED
      BY <2>7, <3>1, <3>2
  <2>8. CASE \E v \in Validators : ValidatorStep(v)
    <3>1. UNCHANGED <<main, reason, file>>
      BY <2>8
      DEF ValidatorStep, Enter, TestEvent, Complete, Spawn, Register, KillLate, ChildExits, Raise,
          MainUnchanged
    <3>. QED
      BY <3>1
  <2>. QED
    BY <2>1, <2>3, <2>4, <2>5, <2>6, <2>7, <2>8 DEF Next, MainStep
<1>. QED
  BY <1>1, <1>2, RunnerInvariant, PTL DEF Spec, KeepsPromise, Promise!Spec
=============================================================================
