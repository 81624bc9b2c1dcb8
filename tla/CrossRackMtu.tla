---------------------------- MODULE CrossRackMtu ----------------------------
(***************************************************************************)
(* Two representatives measure the path MTU between their racks, each in   *)
(* its direction, and the report compares them.  The first one has bonds:  *)
(* its payload listens on them (phase 1) before it measures (phase 2), and *)
(* an interruption in phase 1 leaves no measurement.  Machines share       *)
(* nothing while they probe, so they are taken one after the other; what a *)
(* machine has recorded is kept until the report.                          *)
(***************************************************************************)
EXTENDS PathMtu

CONSTANTS Bonds, MembersOf, Switches

ASSUME MembersAssumption ==
  /\ DOMAIN MembersOf = Bonds /\ \A b \in Bonds : IsFiniteSet(MembersOf[b])
  /\ \A b, c \in Bonds : b # c => MembersOf[b] \cap MembersOf[c] = {}

VARIABLES
  bondMode, lacpActive, port, heard, captureStage, bondRecords, bondFindings,
  side,       \* who probes: "bonded", then "plain", then the "report"
  verdict,    \* what phase 1 of the side found
  documents,  \* the documents collected
  report      \* exit code, asymmetry warning, directions not measured

Bond == INSTANCE BondCapture

bondState == <<bondMode, lacpActive, port, heard, captureStage, bondRecords, bondFindings>>
vars == <<mtuVars, bondState, side, verdict, documents, report>>

Sides == {"bonded", "plain"}
\* Whether phase 1 has findings, and, for the properties, whether the bonds
\* are in order.
NoFinding == [failed |-> FALSE, sound |-> TRUE]
NoReport == [exitCode |-> 3, asymmetry |-> FALSE, unmeasured |-> {}]
Missing == [collected |-> FALSE]
\* The document, and, for the properties, the path it is about.
Document ==
  [collected |-> TRUE, partial |-> interrupted, failed |-> verdict.failed,
   result |-> result, sound |-> verdict.sound,
   actual |-> ActualMtu, plainPath |-> ReportsAreLast]

RepInit ==
  /\ Bond!BondInit
  /\ NotMeasuring
  /\ interrupted = FALSE /\ stage = "phase1"
  /\ side = "bonded" /\ verdict = NoFinding
  /\ documents = [s \in Sides |-> Missing] /\ report = NoReport

Phase1Step ==
  /\ side = "bonded" /\ stage = "phase1"
  /\ Bond!BondNext
  /\ UNCHANGED <<mtuVars, side, verdict, documents, report>>

\* Phase 1 has ended; the wiring of the bonds is not looked at again, and is
\* replaced by one fixed wiring.  run_probe starts phase 2, or goes to the
\* output without it.
Phase1Ends ==
  /\ stage = "phase1" /\ side # "report"
  /\ side = "bonded" => captureStage \in {"complete", "flushed"}
  /\ IF interrupted THEN stage' = "done" /\ UNCHANGED <<pathVars, interrupted, searchVars, result>>
                    ELSE BeginMeasurement
  /\ verdict' = IF side = "bonded"
                  THEN [failed |-> bondFindings # {},
                        sound |-> \A b \in Bonds : Bond!BondIsSound(b)]
                  ELSE NoFinding
  /\ Bond!Forget
  /\ UNCHANGED <<side, documents, report>>

Phase2Step ==
  /\ MeasureStep
  /\ UNCHANGED <<bondState, side, verdict, documents, report>>

\* Cancellation.cancel, in either phase.
Interrupted ==
  /\ side # "report" /\ Interrupt
  /\ UNCHANGED <<bondState, side, verdict, documents, report>>

\* The document is written, and collected or not; the other machine's turn.
WriteOutput ==
  /\ stage = "done" /\ side \in Sides
  /\ \E d \in {Document, Missing} : documents' = [documents EXCEPT ![side] = d]
  /\ side' = IF side = "bonded" THEN "plain" ELSE "report"
  /\ EndMeasurement /\ interrupted' = FALSE /\ stage' = "phase1"
  /\ verdict' = NoFinding
  /\ UNCHANGED <<bondState, report>>

\* _classify_mtu: directions with a record of a measurement.
Observed == {s \in Sides : documents[s].collected /\ documents[s].result.status = "success"}
Unmeasured ==
  {s \in Sides : ~documents[s].collected \/ documents[s].result.status \in {"none", "interrupted"}}

\* Faulty form, for mutation: records of any status are compared.
AsymmetricAnyStatus ==
  /\ \A s \in Sides : documents[s].collected
  /\ documents["bonded"].result.mtu # documents["plain"].result.mtu
Asymmetric ==
  /\ Observed = Sides
  /\ documents["bonded"].result.mtu # documents["plain"].result.mtu

\* Faulty form: a document that says timeout or cancelled is a document.
IncompleteMissing == {s \in Sides : ~documents[s].collected}
Incomplete == {s \in Sides : ~documents[s].collected \/ documents[s].partial}
Failed == {s \in Sides : documents[s].collected /\ documents[s].failed}

GenerateReport ==
  /\ side = "report" /\ report = NoReport
  /\ report' = [exitCode |-> CASE Failed # {} -> 1
                             [] Failed = {} /\ (Asymmetric \/ Unmeasured \cup Incomplete # {}) -> 2
                             [] OTHER -> 0,
                asymmetry |-> Asymmetric,
                unmeasured |-> Unmeasured]
  /\ UNCHANGED <<mtuVars, bondState, side, verdict, documents>>

RepNext ==
  Phase1Step \/ Phase1Ends \/ Phase2Step \/ Interrupted \/ WriteOutput \/ GenerateReport
RepSpec == RepInit /\ [][RepNext]_vars

-----------------------------------------------------------------------------
Distance(a, b) == IF a > b THEN a - b ELSE b - a
Difference(field) == Distance(documents["bonded"][field], documents["plain"][field])
ReportedDifference == Distance(documents["bonded"].result.mtu, documents["plain"].result.mtu)
Whole == \A s \in Sides : documents[s].collected /\ ~documents[s].partial
PlainPaths == \A s \in Sides : documents[s].plainPath

RepTypeOK ==
  /\ MtuTypeOK
  /\ Bond!BondTypeOK
  /\ side \in Sides \cup {"report"}
  /\ report.exitCode \in 0 .. 3 /\ report.unmeasured \subseteq Sides

\* A bond finding is true of the cabling: a mode mismatch names a bond whose
\* ends do not agree on LACP, an asymmetric cable one whose ports belong to
\* two switches.  A capture cut short finds nothing: members not heard yet
\* are not taken for silent ones (bond_validator.py:197-204).
BondFindingIsTrue ==
  \A f \in bondFindings :
    IF f[1] = "bond-mode-mismatch" THEN Bond!ModesDisagree(f[2]) ELSE ~Bond!OneSwitch(f[2])

\* What the report says of the two machines is true.  Exit code 0 vouches for
\* them: nothing was cut short or lost, the bonds agree with their switches in
\* mode and are cabled to one, and two measured directions carry the same
\* packets up to the search's resolution.  And an asymmetry warning of at
\* least that resolution between two whole documents is about directions that
\* do carry different packets (report_generator.py:374-425, 614-620).
ReportIsTrue ==
  /\ report.exitCode = 0 =>
       /\ Whole /\ \A s \in Sides : documents[s].sound
       /\ Observed = Sides /\ PlainPaths => Difference("actual") < Resolution
  /\ report.asymmetry /\ Whole /\ PlainPaths /\ ReportedDifference >= Resolution =>
       Difference("actual") > 0
=============================================================================
