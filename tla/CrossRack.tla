----------------------------- MODULE CrossRack -----------------------------
(***************************************************************************)
(* Cross-rack reachability, from the wire to the exit code: the payload of *)
(* each rack's representative probes the other racks                       *)
(* (src/charm/payload/bgp_inference.py), and the report                    *)
(* (src/cli/report_generator.py) reconciles the two directions of each     *)
(* link before it blames anyone.                                           *)
(*                                                                         *)
(* What the network does is fixed at the start: which machines answer on   *)
(* the data fabric, and which rack pairs are cut.  The probe may be        *)
(* interrupted at any moment (probe-timeout, SIGTERM): from then on every  *)
(* child it has is killed, and every child it starts is killed as soon as  *)
(* it is registered, which the probe cannot tell from no answer.           *)
(* Representatives share nothing while they probe, so they take turns.     *)
(***************************************************************************)
EXTENDS Representatives, SequencesExt

CONSTANTS
  MaxTroubles,     \* bound: machines silent or sick and links cut, together
  MaxInterrupted   \* bound: representatives whose probe is interrupted

ASSUME BoundsAssumption == MaxTroubles \in Nat /\ MaxInterrupted \in Nat
ASSUME RacksAssumption == Cardinality(DataRacks) > 1

VARIABLES
  up,          \* machines that answer on the data fabric
  cut,         \* links on which nothing passes
  sick,        \* machines with a definitive bond or VLAN finding
  rack,        \* rack whose representative is probing
  at,          \* where its bgp_inference.run is
  left,        \* its remote racks, the current one and those after it
  interrupted, \* racks whose probe was interrupted
  paths,       \* the records written: directed path -> outcome
  report       \* the report, once generated

truthVars == <<up, cut, sick>>
crossVars == <<truthVars, rack, at, left, interrupted, paths, report>>

Outcomes == {"none", "representative", "fallback", "inferred", "inconclusive", "interrupted"}
NoReport == [exit |-> 3]

Speaker == [r \in DataRacks |-> Representative(r)]
Speakers == {Speaker[r] : r \in DataRacks}
Remote == Min(left)
Path == <<rack, Remote>>
Interrupted == rack \in interrupted
\* An echo request from the probing representative to m is answered.
Answers(m) ==
  /\ ~Interrupted
  /\ Speaker[rack] \in up /\ m \in up
  /\ {rack, RackOf[m]} \notin cut

Init ==
  /\ up \in SUBSET Nodes
  /\ cut \in SUBSET Links
  /\ sick \in SUBSET Speakers
  /\ Cardinality(Nodes \ up) + Cardinality(cut) + Cardinality(sick) <= MaxTroubles
  /\ rack = Min(DataRacks)
  /\ at = "loop"
  /\ left = RemoteRacks(rack)
  /\ interrupted = {}
  /\ paths = [p \in Paths |-> "none"]
  /\ report = NoReport

Record(outcome) ==
  /\ paths' = [paths EXCEPT ![Path] = outcome]
  /\ left' = left \ {Remote}
  /\ at' = "loop"

\* Top of the loop over remote racks, when it ends: interrupted, it records
\* the reason for the rest.
EndOfLoop ==
  /\ at = "loop" /\ (left = {} \/ Interrupted)
  /\ at' = "over" /\ left' = {}
  /\ paths' = [p \in DOMAIN paths |->
       IF p[1] = rack /\ p[2] \in left THEN "interrupted" ELSE paths[p]]
  /\ UNCHANGED <<truthVars, rack, interrupted, report>>

NextRemote ==
  /\ at = "loop" /\ left # {} /\ ~Interrupted
  /\ at' = "representative"
  /\ UNCHANGED <<truthVars, rack, left, interrupted, paths, report>>

PingRepresentative ==
  LET target == Speaker[Remote]
      fallback == FallbackTarget(Remote)
  IN /\ at = "representative"
     /\ IF Answers(target)
          THEN Record("representative")
          ELSE /\ at' = IF fallback # NoNode THEN "fallback" ELSE "traceroute"
               /\ UNCHANGED <<paths, left>>
     /\ UNCHANGED <<truthVars, rack, interrupted, report>>

PingFallback ==
  /\ at = "fallback"
  /\ IF Answers(FallbackTarget(Remote))
       THEN Record("fallback")
       ELSE at' = "traceroute" /\ UNCHANGED <<paths, left>>
  /\ UNCHANGED <<truthVars, rack, interrupted, report>>

\* Faulty form, for mutation: a child started after the interruption lives on.
StartTracerouteUnkilled ==
  /\ at = "traceroute"
  /\ at' = "hops" /\ UNCHANGED <<paths, left>>
  /\ UNCHANGED <<truthVars, rack, interrupted, report>>
\* Started after the interruption, traceroute is killed as it is registered
\* and has no hop to show.
StartTraceroute ==
  /\ at = "traceroute"
  /\ IF Interrupted
       THEN Record("inconclusive")
       ELSE at' = "hops" /\ UNCHANGED <<paths, left>>
  /\ UNCHANGED <<truthVars, rack, interrupted, report>>

\* Hops that answer place the failure (gateway, target subnet, in between):
\* an inferred finding; none answer: an inconclusive one.  Killed on the way,
\* traceroute leaves the hops it had.
TracerouteEnds ==
  /\ at = "hops"
  /\ \E outcome \in {"inferred", "inconclusive"} : Record(outcome)
  /\ UNCHANGED <<truthVars, rack, interrupted, report>>

Interrupt ==
  /\ at # "over" /\ ~Interrupted
  /\ Cardinality(interrupted) < MaxInterrupted
  /\ interrupted' = interrupted \cup {rack}
  /\ UNCHANGED <<truthVars, rack, at, left, paths, report>>

\* The flush grace ends first: the document has the records written so far.
GraceEnds ==
  /\ Interrupted /\ at # "over"
  /\ at' = "over" /\ left' = {}
  /\ UNCHANGED <<truthVars, rack, interrupted, paths, report>>

\* The next rack's representative probes.
NextRack ==
  LET rest == {r \in DataRacks : r > rack}
  IN /\ at = "over" /\ rest # {}
     /\ rack' = Min(rest)
     /\ left' = RemoteRacks(rack')
     /\ at' = "loop"
     /\ UNCHANGED <<truthVars, interrupted, paths, report>>

-----------------------------------------------------------------------------
(* The report on the documents of the machines in docs (by_sid).           *)

Unhealthy(docs, m) == m \in docs /\ m \in sick

\* Faulty form, for mutation: no answer from anyone passes for a success.
VerdictTrusting(docs, p) ==
  IF Unhealthy(docs, Speaker[p[1]]) THEN "gated"
  ELSE CASE paths[p] = "fallback" -> "fallback"
         [] paths[p] = "inferred" -> "failure"
         [] OTHER -> "success"
\* _bgp_verdict of the path p.
Verdict(docs, p) ==
  IF Unhealthy(docs, Speaker[p[1]]) THEN "gated"
  ELSE IF Speaker[p[1]] \notin docs \/ paths[p] = "none" THEN "missing"
  ELSE CASE paths[p] = "representative" -> "success"
         [] paths[p] = "fallback" -> "fallback"
         [] paths[p] = "inferred" -> "failure"
         [] OTHER -> "inconclusive"

\* _reconcile_bgp_link, for all links at once; v maps each path to its verdict.
Healthy(v) == {p \in Paths : v[p] \in {"success", "fallback"}}
Failing(v) == {p \in Paths : v[p] = "failure"}
FailingAlone(v) == {p \in Paths : v[p] = "failure" /\ v[Reverse(p)] # "failure"}

\* Faulty form: one failing direction is enough.
BlamedEitherSide(v) == {{p[1], p[2]} : p \in Failing(v)}
\* Both directions fail: the fabric between the racks.
Blamed(v) == {{p[1], p[2]} : p \in Failing(v) \ FailingAlone(v)}

\* One direction fails: toward an unhealthy target, against a healthy reverse,
\* or unconfirmed.
TargetUnhealthy(docs, v) == {p \in FailingAlone(v) : Unhealthy(docs, Speaker[p[2]])}
Directional(docs, v) ==
  {p \in FailingAlone(v) \ TargetUnhealthy(docs, v) : Reverse(p) \in Healthy(v)}

Unconfirmed(docs, v) ==
  FailingAlone(v) \ (TargetUnhealthy(docs, v) \cup Directional(docs, v))

\* Faulty form: only the paths that were probed are noted.
IndeterminateProbed(v, spokenFor) ==
  {p \in Paths : v[p] = "inconclusive" /\ Reverse(p) \notin spokenFor}
\* A path without a verdict is noted, unless what is said of its failing
\* reverse stands for it.
Indeterminate(v, spokenFor) ==
  {p \in Paths : v[p] \in {"inconclusive", "missing", "gated"} /\ Reverse(p) \notin spokenFor}

\* Faulty form: the warning names the probing representative.
UnreachableSource(v) == {Speaker[p[1]] : p \in {q \in Paths : v[q] = "fallback"}}
\* Representatives whose fallback answered in their place.
Unreachable(v) == {Speaker[p[2]] : p \in {q \in Paths : v[q] = "fallback"}}

\* exit_code of a report, by whether it has definitive failures, or others.
ExitCode(definitive, others) == IF definitive THEN 1 ELSE IF others THEN 2 ELSE 0

\* generate_report over the documents of docs; a representative without one is
\* a missing node, an interrupted probe is noted, and the documents of the
\* other machines are there and say nothing.
GenerateReport(docs) ==
  LET v == [p \in Paths |-> Verdict(docs, p)]
      targets == TargetUnhealthy(docs, v)
      unconfirmed == Unconfirmed(docs, v)
      warnings == targets \cup Directional(docs, v)
      inconclusive == Indeterminate(v, targets \cup unconfirmed) \cup unconfirmed
      incomplete == {m \in docs : RackOf[m] \in interrupted}
      others == \/ Blamed(v) # {} \/ warnings # {} \/ Unreachable(v) # {}
                \/ inconclusive # {} \/ docs # Speakers \/ incomplete # {}
  IN /\ at = "over" /\ \A r \in DataRacks : r <= rack
     /\ report = NoReport
     /\ report' = [exit |-> ExitCode(docs \cap sick # {}, others),
                   docs |-> docs, passed |-> Healthy(v), inferred |-> Blamed(v),
                   warnings |-> warnings, unreachable |-> Unreachable(v),
                   inconclusive |-> inconclusive]
     /\ UNCHANGED <<truthVars, rack, at, left, interrupted, paths>>

Next ==
  \/ EndOfLoop \/ NextRemote \/ PingRepresentative \/ PingFallback
  \/ StartTraceroute \/ TracerouteEnds \/ Interrupt \/ GraceEnds \/ NextRack
  \/ \E docs \in SUBSET Speakers : GenerateReport(docs)

Spec == Init /\ [][Next]_crossVars
Reported == report # NoReport

-----------------------------------------------------------------------------
TypeOK ==
  /\ up \subseteq Nodes /\ sick \subseteq Speakers
  /\ cut \subseteq Links
  /\ rack \in DataRacks /\ interrupted \subseteq DataRacks
  /\ at \in {"loop", "representative", "fallback", "traceroute", "hops", "over"}
  /\ left \subseteq DataRacks \ {rack}
  /\ paths \in [Paths -> Outcomes]
  /\ Reported => report.exit \in 0 .. 2

\* Exit code 0 vouches for the network: every representative
\* reported, every rack pair is open and every representative answers, whatever was interrupted,
\* fell back, or never reported (report_generator.py:614-620).
CleanMeansOpen ==
  Reported /\ report.exit = 0 =>
    /\ report.docs = Speakers /\ cut = {}
    /\ \A r \in DataRacks : Speaker[r] \in up

\* A link blamed on the fabric is cut, or has machines behind it that do not
\* answer, and more than one if its racks have fallbacks: the fallback and the
\* reverse direction must tell the two apart, and a child killed by an
\* interruption must not count for either (report_generator.py:187-188).
OneHostIsNotTheFabric ==
  Reported => \A l \in report.inferred :
    LET silent == {m \in Nodes \ up : RackOf[m] \in l}
    IN \/ l \in cut
       \/ /\ silent # {}
          /\ (\A r \in l : FallbackTarget(r) # NoNode) => Cardinality(silent) > 1

\* No link of the topology drops out of the report: both directions passed, or
\* something is said about one of them.
LinkAccounted ==
  Reported => \A p \in Paths :
    \/ p \in report.passed /\ Reverse(p) \in report.passed
    \/ {p[1], p[2]} \in report.inferred
    \/ {p, Reverse(p)} \cap (report.warnings \cup report.inconclusive) # {}

\* A representative reported unreachable because its fallback answered really
\* does not answer, also when the probe was interrupted on the way.
UnreachableIsTrue ==
  Reported => \A m \in report.unreachable : m \notin up
=============================================================================
