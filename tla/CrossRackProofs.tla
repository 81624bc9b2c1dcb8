-------------------------- MODULE CrossRackProofs --------------------------
(***************************************************************************)
(* Theorems about CrossRack, for any machines on any racks, any network    *)
(* and any interruptions.                                                  *)
(*                                                                         *)
(* The invariant says what each record of a probe is evidence of, and what *)
(* the place a probe has reached already rules out for the path it is on.  *)
(* The report is the last step: it is judged where it is generated.        *)
(***************************************************************************)
EXTENDS CrossRack, WellFoundedInduction, FiniteSetTheorems, TLAPS

\* Nothing passes between the racks of p.
Severed(p) == {p[1], p[2]} \in cut
\* The ping of the target's representative cannot be answered.
Unanswered(p) == Speaker[p[1]] \notin up \/ Severed(p) \/ Speaker[p[2]] \notin up
\* Neither it nor its fallback can be.
Dead(p) ==
  \/ Speaker[p[1]] \notin up \/ Severed(p)
  \/ /\ Speaker[p[2]] \notin up
     /\ FallbackTarget(p[2]) = NoNode \/ FallbackTarget(p[2]) \notin up

StateInv ==
  /\ up \subseteq Nodes /\ sick \subseteq Speakers /\ cut \subseteq Links
  /\ rack \in DataRacks /\ interrupted \subseteq DataRacks
  /\ at \in {"loop", "representative", "fallback", "traceroute", "hops", "over"}
  /\ left \subseteq DataRacks \ {rack}
  /\ paths \in [Paths -> Outcomes]
  /\ at \in {"representative", "fallback", "traceroute", "hops"} => left # {}

\* Where the probe is, and what that rules out.
ProgressInv ==
  /\ at = "fallback" => FallbackTarget(Remote) # NoNode /\ (Interrupted \/ Unanswered(Path))
  /\ at = "traceroute" => Interrupted \/ Dead(Path)
  /\ at = "hops" => Dead(Path)

\* What the records are evidence of.
EvidenceInv ==
  \A p \in Paths :
    /\ paths[p] = "representative" => ~Unanswered(p)
    /\ paths[p] = "fallback" => Speaker[p[2]] \notin up
    /\ paths[p] = "inferred" => Dead(p)

ProbeInv == StateInv /\ ProgressInv /\ EvidenceInv

\* What is true of a report.
Sound ==
  /\ report.exit \in 0 .. 2
  /\ CleanMeansOpen /\ OneHostIsNotTheFabric /\ LinkAccounted /\ UnreachableIsTrue

ReportInv ==
  Reported => at = "over" /\ (\A r \in DataRacks : r <= rack) /\ Sound

-----------------------------------------------------------------------------
\* A nonempty set of natural numbers has a least element, which Min returns.
LEMMA Least ==
  ASSUME NEW S \in SUBSET Nat, S # {}
  PROVE  Min(S) \in S /\ \A y \in S : Min(S) <= y
<1> DEFINE R == OpToRel(<, Nat)
<1>1. PICK x \in S : \A y \in S : ~ (<<y, x>> \in R)
  BY NatLessThanWellFounded, WFMin
<1>2. ASSUME NEW y \in S, y < x PROVE FALSE
  <2>1. <<y, x>> \in Nat \X Nat /\ <<y, x>>[1] < <<y, x>>[2]
    BY <1>2
  <2>2. <<y, x>> \in R
    BY <2>1, Zenon DEF OpToRel
  <2>. QED
    BY <1>1, <2>2
<1>3. \A y \in S : x <= y
  BY <1>2
<1>. QED
  BY <1>3 DEF Min

\* Racks are numbers, and there is one at least.
LEMMA Racks == DataRacks \subseteq Nat /\ DataRacks # {} /\ IsFiniteSet(DataRacks)
<1>1. DataRacks \subseteq Nat
  BY NodesAssumption, RackAssumption DEF DataRacks
<1>2. Cardinality({}) = 0
  BY FS_EmptySet
<1>3. DataRacks # {}
  BY <1>2, RacksAssumption
<1>4. PICK f : f = [m \in Nodes |-> RackOf[m]]
  OBVIOUS
<1>5. f \in Surjection(Nodes, DataRacks)
  BY <1>4 DEF Surjection, DataRacks
<1>6. IsFiniteSet(DataRacks)
  BY <1>5, NodesAssumption, FS_Surjection
<1>. QED
  BY <1>1, <1>3, <1>6

\* Every rack has another.
LEMMA OtherRack == \A r \in DataRacks : \E q \in DataRacks : q # r
<1> SUFFICES ASSUME NEW r \in DataRacks, \A q \in DataRacks : q = r PROVE FALSE
  OBVIOUS
<1>1. DataRacks = {r}
  OBVIOUS
<1>2. Cardinality(DataRacks) = 1
  BY <1>1, FS_Singleton
<1>. QED
  BY <1>2, RacksAssumption

\* A rack's speaker is one of its machines, and so is its fallback, another one.
LEMMA RackMachines ==
  ASSUME NEW r \in DataRacks
  PROVE  /\ Speaker[r] = Representative(r)
         /\ Speaker[r] \in Nodes /\ RackOf[Speaker[r]] = r
         /\ FallbackTarget(r) # NoNode =>
              /\ FallbackTarget(r) \in Nodes /\ RackOf[FallbackTarget(r)] = r
              /\ FallbackTarget(r) # Speaker[r]
<1>1. Eligible(r) \in SUBSET Nat /\ Eligible(r) # {} /\ Eligible(r) \subseteq Nodes
  BY NodesAssumption DEF Eligible, DataRacks
<1>2. Representative(r) \in Eligible(r)
  BY <1>1, Least DEF Representative
<1>3. Speaker[r] = Representative(r)
  BY DEF Speaker
<1> DEFINE others == Eligible(r) \ {Representative(r)}
<1>4. others # {} => Min(others) \in others
  <2>1. others \in SUBSET Nat
    BY <1>1
  <2> HIDE DEF others
  <2>. QED
    BY <2>1, Least
<1>5. FallbackTarget(r) # NoNode => FallbackTarget(r) \in others
  BY <1>4 DEF FallbackTarget
<1>. QED
  BY <1>1, <1>2, <1>3, <1>5 DEF Eligible

\* The speakers of two racks differ.
LEMMA SpeakersDiffer ==
  ASSUME NEW r \in DataRacks, NEW q \in DataRacks, Speaker[r] = Speaker[q]
  PROVE  r = q
  BY RackMachines

\* A path and its way back.
LEMMA WayBack ==
  ASSUME NEW p \in Paths
  PROVE  /\ p[1] \in DataRacks /\ p[2] \in DataRacks /\ p[1] # p[2] /\ p = <<p[1], p[2]>>
         /\ Reverse(p) \in Paths
         /\ Reverse(p)[1] = p[2] /\ Reverse(p)[2] = p[1]
         /\ Reverse(Reverse(p)) = p
<1>1. p[1] \in DataRacks /\ p[2] \in DataRacks /\ p[1] # p[2] /\ p = <<p[1], p[2]>>
  BY DEF Paths
<1>2. \A a, b : Reverse(<<a, b>>) = <<b, a>>
  <2> SUFFICES ASSUME NEW a, NEW b PROVE Reverse(<<a, b>>) = <<b, a>>
    OBVIOUS
  <2>1. Reverse(<<a, b>>) = [i \in 1 .. 2 |-> <<a, b>>[(2 - i) + 1]]
    BY DEF Reverse
  <2>2. [i \in 1 .. 2 |-> <<a, b>>[(2 - i) + 1]] = <<b, a>>
    OBVIOUS
  <2>. QED
    BY <2>1, <2>2
<1>3. Reverse(p) = <<p[2], p[1]>>
  BY <1>1, <1>2
<1>4. Reverse(Reverse(p)) = <<p[1], p[2]>>
  BY <1>2, <1>3
<1>5. Reverse(p) \in Paths
  BY <1>1, <1>3 DEF Paths
<1>. QED
  BY <1>1, <1>3, <1>4, <1>5

\* The rack a probe is about to reach is one of those left.
LEMMA NextOfLeft ==
  ASSUME StateInv, left # {}
  PROVE  /\ Remote \in left /\ Remote \in DataRacks /\ Remote # rack
         /\ Path \in Paths /\ Path[1] = rack /\ Path[2] = Remote
<1>1. left \in SUBSET Nat
  BY Racks DEF StateInv
<1>2. Remote \in left
  BY <1>1, Least DEF Remote
<1>. QED
  BY <1>2 DEF StateInv, Path, Paths

-----------------------------------------------------------------------------
\* The invariant holds initially.
LEMMA InitProbe == Init => ProbeInv /\ ReportInv
<1> SUFFICES ASSUME Init PROVE ProbeInv /\ ReportInv
  OBVIOUS
<1>1. rack \in DataRacks
  BY Racks, Least DEF Init
<1>2. paths \in [Paths -> Outcomes] /\ \A p \in Paths : paths[p] = "none"
  BY DEF Init, Outcomes
<1>. QED
  BY <1>1, <1>2 DEF Init, ProbeInv, StateInv, ProgressInv, EvidenceInv, ReportInv, Reported,
     RemoteRacks

\* A record of the current path that is evidence of what it says.
LEMMA RecordKeeps ==
  ASSUME ProbeInv, left # {}, NEW o \in Outcomes, Record(o),
         UNCHANGED <<truthVars, rack, interrupted>>,
         o = "representative" => ~Unanswered(Path),
         o = "fallback" => Speaker[Remote] \notin up,
         o = "inferred" => Dead(Path)
  PROVE  ProbeInv'
<1>1. Path \in Paths /\ Path[1] = rack /\ Path[2] = Remote
  BY NextOfLeft DEF ProbeInv
<1>2. /\ paths' = [paths EXCEPT ![Path] = o] /\ left' = left \ {Remote} /\ at' = "loop"
      /\ UNCHANGED <<up, cut, sick>>
  BY DEF Record, truthVars
<1>3. StateInv'
  BY <1>1, <1>2 DEF ProbeInv, StateInv
<1>4. ProgressInv'
  BY <1>2 DEF ProgressInv
<1>5. ASSUME NEW p \in Paths
      PROVE  /\ paths'[p] = "representative" => ~Unanswered(p)
             /\ paths'[p] = "fallback" => Speaker[p[2]] \notin up
             /\ paths'[p] = "inferred" => Dead(p)
  <2>1. CASE p = Path
    <3>1. paths'[p] = o
      BY <1>1, <1>2, <2>1 DEF ProbeInv, StateInv
    <3>. QED
      BY <1>1, <2>1, <3>1
  <2>2. CASE p # Path
    <3>1. paths'[p] = paths[p]
      BY <1>1, <1>2, <2>2 DEF ProbeInv, StateInv
    <3>. QED
      BY <3>1 DEF ProbeInv, EvidenceInv
  <2>. QED
    BY <2>1, <2>2
<1>6. EvidenceInv'
  BY <1>2, <1>5 DEF EvidenceInv, Unanswered, Dead, Severed
<1>. QED
  BY <1>3, <1>4, <1>6 DEF ProbeInv

\* The network and the records stay: a record stays evidence.
LEMMA EvidenceStays ==
  ASSUME EvidenceInv, UNCHANGED <<truthVars, paths>>
  PROVE  EvidenceInv'
  BY DEF EvidenceInv, truthVars, Unanswered, Dead, Severed

\* Every step of the probes keeps it.
LEMMA NextProbe == ProbeInv /\ [Next]_crossVars => ProbeInv'
<1> SUFFICES ASSUME ProbeInv, [Next]_crossVars PROVE ProbeInv'
  OBVIOUS
<1>. USE DEF truthVars
<1>1. CASE EndOfLoop
  <2>1. /\ at' = "over" /\ left' = {}
        /\ paths' = [p \in DOMAIN paths |->
             IF p[1] = rack /\ p[2] \in left THEN "interrupted" ELSE paths[p]]
        /\ UNCHANGED <<up, cut, sick, rack, interrupted>>
    BY <1>1 DEF EndOfLoop
  <2>2. paths' \in [Paths -> Outcomes] /\ \A p \in Paths : paths'[p] \in {"interrupted", paths[p]}
    BY <2>1 DEF ProbeInv, StateInv, Outcomes
  <2>3. StateInv' /\ ProgressInv'
    BY <2>1, <2>2 DEF ProbeInv, StateInv, ProgressInv
  <2>4. EvidenceInv'
    BY <2>1, <2>2 DEF ProbeInv, EvidenceInv, Unanswered, Dead, Severed
  <2>. QED
    BY <2>3, <2>4 DEF ProbeInv
<1>2. CASE NextRemote
  <2>1. EvidenceInv'
    BY <1>2, EvidenceStays DEF NextRemote, ProbeInv
  <2>2. StateInv' /\ ProgressInv'
    BY <1>2 DEF NextRemote, ProbeInv, StateInv, ProgressInv
  <2>. QED
    BY <2>1, <2>2 DEF ProbeInv
<1>3. CASE PingRepresentative
  <2>1. at = "representative" /\ left # {} /\ UNCHANGED <<truthVars, rack, interrupted, report>>
    BY <1>3 DEF PingRepresentative, ProbeInv, StateInv
  <2>2. /\ Remote \in DataRacks /\ Path \in Paths /\ Path[1] = rack /\ Path[2] = Remote
        /\ RackOf[Speaker[Remote]] = Remote
    BY <2>1, NextOfLeft, RackMachines DEF ProbeInv
  <2>3. Answers(Speaker[Remote]) <=> ~Interrupted /\ ~Unanswered(Path)
    BY <2>2 DEF Answers, Unanswered, Severed
  <2>4. CASE Answers(Speaker[Remote])
    <3>1. Record("representative")
      BY <1>3, <2>4 DEF PingRepresentative
    <3>. QED
      BY <2>1, <2>3, <2>4, <3>1, RecordKeeps DEF Outcomes
  <2>5. CASE ~Answers(Speaker[Remote])
    <3>1. /\ at' = IF FallbackTarget(Remote) # NoNode THEN "fallback" ELSE "traceroute"
          /\ UNCHANGED <<paths, left>>
      BY <1>3, <2>5 DEF PingRepresentative
    <3>2. StateInv'
      BY <2>1, <3>1 DEF ProbeInv, StateInv
    <3>3. Remote' = Remote /\ Path' = Path /\ Interrupted' = Interrupted
      BY <2>1, <3>1 DEF Remote, Path, Interrupted
    <3>4. ProgressInv'
      BY <2>1, <2>2, <2>3, <2>5, <3>1, <3>3 DEF ProgressInv, Unanswered, Dead, Severed
    <3>5. EvidenceInv'
      BY <2>1, <3>1, EvidenceStays DEF ProbeInv
    <3>. QED
      BY <3>2, <3>4, <3>5 DEF ProbeInv
  <2>. QED
    BY <2>4, <2>5
<1>4. CASE PingFallback
  <2>1. /\ at = "fallback" /\ left # {} /\ UNCHANGED <<truthVars, rack, interrupted, report>>
        /\ FallbackTarget(Remote) # NoNode /\ (Interrupted \/ Unanswered(Path))
    BY <1>4 DEF PingFallback, ProbeInv, StateInv, ProgressInv
  <2>2. /\ Remote \in DataRacks /\ Path \in Paths /\ Path[1] = rack /\ Path[2] = Remote
        /\ RackOf[FallbackTarget(Remote)] = Remote
    BY <2>1, NextOfLeft, RackMachines DEF ProbeInv
  <2>3. CASE Answers(FallbackTarget(Remote))
    <3>1. Record("fallback")
      BY <1>4, <2>3 DEF PingFallback
    <3>2. Speaker[Remote] \notin up
      BY <2>1, <2>2, <2>3 DEF Answers, Unanswered, Severed
    <3>. QED
      BY <2>1, <3>1, <3>2, RecordKeeps DEF Outcomes
  <2>4. CASE ~Answers(FallbackTarget(Remote))
    <3>1. at' = "traceroute" /\ UNCHANGED <<paths, left>>
      BY <1>4, <2>4 DEF PingFallback
    <3>2. StateInv'
      BY <2>1, <3>1 DEF ProbeInv, StateInv
    <3>3. Remote' = Remote /\ Path' = Path /\ Interrupted' = Interrupted
      BY <2>1, <3>1 DEF Remote, Path, Interrupted
    <3>4. Interrupted \/ Dead(Path)
      BY <2>1, <2>2, <2>4 DEF Answers, Unanswered, Dead, Severed
    <3>5. ProgressInv'
      BY <2>1, <3>1, <3>3, <3>4 DEF ProgressInv, Dead, Severed
    <3>6. EvidenceInv'
      BY <2>1, <3>1, EvidenceStays DEF ProbeInv
    <3>. QED
      BY <3>2, <3>5, <3>6 DEF ProbeInv
  <2>. QED
    BY <2>3, <2>4
<1>5. CASE StartTraceroute
  <2>1. /\ at = "traceroute" /\ left # {} /\ UNCHANGED <<truthVars, rack, interrupted, report>>
        /\ Interrupted \/ Dead(Path)
    BY <1>5 DEF StartTraceroute, ProbeInv, StateInv, ProgressInv
  <2>2. CASE Interrupted
    <3>1. Record("inconclusive")
      BY <1>5, <2>2 DEF StartTraceroute
    <3>. QED
      BY <2>1, <3>1, RecordKeeps DEF Outcomes
  <2>3. CASE ~Interrupted
    <3>1. at' = "hops" /\ UNCHANGED <<paths, left>>
      BY <1>5, <2>3 DEF StartTraceroute
    <3>2. StateInv'
      BY <2>1, <3>1 DEF ProbeInv, StateInv
    <3>3. Path' = Path
      BY <2>1, <3>1 DEF Remote, Path
    <3>4. ProgressInv'
      BY <2>1, <2>3, <3>1, <3>3 DEF ProgressInv, Dead, Severed
    <3>5. EvidenceInv'
      BY <2>1, <3>1, EvidenceStays DEF ProbeInv
    <3>. QED
      BY <3>2, <3>4, <3>5 DEF ProbeInv
  <2>. QED
    BY <2>2, <2>3
<1>11. CASE TracerouteEnds
  <2>1. /\ left # {} /\ UNCHANGED <<truthVars, rack, interrupted, report>> /\ Dead(Path)
    BY <1>11 DEF TracerouteEnds, ProbeInv, StateInv, ProgressInv
  <2>2. PICK o \in {"inferred", "inconclusive"} : Record(o)
    BY <1>11 DEF TracerouteEnds
  <2>. QED
    BY <2>1, <2>2, RecordKeeps DEF Outcomes
<1>6. CASE Interrupt
  <2>1. /\ interrupted' = interrupted \cup {rack}
        /\ UNCHANGED <<truthVars, rack, at, left, paths, report>>
    BY <1>6 DEF Interrupt
  <2>2. EvidenceInv'
    BY <2>1, EvidenceStays DEF ProbeInv
  <2>3. StateInv'
    BY <2>1 DEF ProbeInv, StateInv
  <2>4. FallbackTarget(Remote)' = FallbackTarget(Remote) /\ Interrupted' /\ Path' = Path
    BY <2>1 DEF Remote, Interrupted, Path
  <2>5. ProgressInv'
    BY <2>1, <2>4 DEF ProbeInv, ProgressInv, Dead, Severed
  <2>. QED
    BY <2>2, <2>3, <2>5 DEF ProbeInv
<1>7. CASE GraceEnds
  <2>1. at' = "over" /\ left' = {} /\ UNCHANGED <<truthVars, rack, interrupted, paths, report>>
    BY <1>7 DEF GraceEnds
  <2>2. EvidenceInv'
    BY <2>1, EvidenceStays DEF ProbeInv
  <2>. QED
    BY <2>1, <2>2 DEF ProbeInv, StateInv, ProgressInv
<1>8. CASE NextRack
  <2> DEFINE rest == {r \in DataRacks : r > rack}
  <2>1. /\ rest # {} /\ rack' = Min(rest) /\ left' = RemoteRacks(rack') /\ at' = "loop"
        /\ UNCHANGED <<truthVars, interrupted, paths, report>>
    BY <1>8 DEF NextRack
  <2>2. rest \in SUBSET Nat
    BY Racks
  <2>3. rack' \in rest
    <3> HIDE DEF rest
    <3>. QED
      BY <2>1, <2>2, Least
  <2>4. StateInv' /\ ProgressInv'
    BY <2>1, <2>3 DEF ProbeInv, StateInv, ProgressInv, RemoteRacks
  <2>5. EvidenceInv'
    BY <2>1, EvidenceStays DEF ProbeInv
  <2>. QED
    BY <2>4, <2>5 DEF ProbeInv
<1>9. ASSUME NEW docs \in SUBSET Speakers, GenerateReport(docs) PROVE ProbeInv'
  <2>1. UNCHANGED <<truthVars, rack, at, left, interrupted, paths>>
    BY <1>9 DEF GenerateReport
  <2>. QED
    BY <2>1, EvidenceStays DEF ProbeInv, StateInv, ProgressInv, Remote, Path, Interrupted,
       Unanswered, Dead, Severed
<1>10. CASE UNCHANGED crossVars
  <2>1. UNCHANGED <<truthVars, rack, at, left, interrupted, paths>>
    BY <1>10 DEF crossVars
  <2>. QED
    BY <2>1, EvidenceStays DEF ProbeInv, StateInv, ProgressInv, Remote, Path, Interrupted,
       Unanswered, Dead, Severed
<1>. QED
  BY <1>1, <1>2, <1>3, <1>4, <1>5, <1>6, <1>7, <1>8, <1>9, <1>10, <1>11 DEF Next

-----------------------------------------------------------------------------
\* A path that fails on its own is said to, one way or another.
LEMMA AloneIsSaid ==
  ASSUME NEW docs, NEW v
  PROVE  FailingAlone(v) =
           TargetUnhealthy(docs, v) \cup Directional(docs, v) \cup Unconfirmed(docs, v)
  BY DEF TargetUnhealthy, Directional, Unconfirmed

\* The verdict on a path, from the record and the documents.
LEMMA Verdicts ==
  ASSUME ProbeInv, NEW docs \in SUBSET Speakers, NEW p \in Paths
  PROVE  /\ Verdict(docs, p) \in {"success", "fallback", "failure", "inconclusive", "missing",
                                  "gated"}
         /\ Verdict(docs, p) = "success" => paths[p] = "representative"
         /\ Verdict(docs, p) = "fallback" => paths[p] = "fallback"
         /\ Verdict(docs, p) = "failure" => paths[p] = "inferred"
         /\ Verdict(docs, p) = "gated" => Speaker[p[1]] \in docs \cap sick
  BY DEF Verdict, Unhealthy, ProbeInv, StateInv, Outcomes

\* A report is sound where it is generated.
LEMMA ReportSound ==
  ASSUME ProbeInv, NEW docs \in SUBSET Speakers, GenerateReport(docs)
  PROVE  Sound'
<1> DEFINE v == [p \in Paths |-> Verdict(docs, p)]
           targets == TargetUnhealthy(docs, v)
           directional == Directional(docs, v)
           unconfirmed == Unconfirmed(docs, v)
           indeterminate == Indeterminate(v, targets \cup unconfirmed)
           others == \/ Blamed(v) # {} \/ targets \cup directional # {} \/ Unreachable(v) # {}
                     \/ indeterminate \cup unconfirmed # {} \/ docs # Speakers
                     \/ {m \in docs : RackOf[m] \in interrupted} # {}
<1>1. /\ report' = [exit |-> ExitCode(docs \cap sick # {}, others),
                    docs |-> docs, passed |-> Healthy(v), inferred |-> Blamed(v),
                    warnings |-> targets \cup directional, unreachable |-> Unreachable(v),
                    inconclusive |-> indeterminate \cup unconfirmed]
      /\ UNCHANGED <<truthVars, rack, at, left, interrupted, paths>>
  BY DEF GenerateReport
<1>2. \A p \in Paths : v[p] = Verdict(docs, p)
  OBVIOUS
<1>3. FailingAlone(v) = targets \cup directional \cup unconfirmed
  BY AloneIsSaid
<1>4. indeterminate = {p \in Paths : /\ v[p] \in {"inconclusive", "missing", "gated"}
                                     /\ Reverse(p) \notin targets \cup unconfirmed}
  BY DEF Indeterminate
<1>5. UNCHANGED <<up, cut, sick, interrupted>>
  BY <1>1 DEF truthVars
<1> HIDE DEF v, targets, directional, unconfirmed, indeterminate
<1>6. /\ report'.exit = ExitCode(docs \cap sick # {}, others)
      /\ report'.docs = docs /\ report'.passed = Healthy(v) /\ report'.inferred = Blamed(v)
      /\ report'.warnings = targets \cup directional /\ report'.unreachable = Unreachable(v)
      /\ report'.inconclusive = indeterminate \cup unconfirmed
  BY <1>1
\* One of the two directions fails alone, and is said to; both, and it is blamed; none, and
\* each has passed, or is noted unless the other is.
<1>7. ASSUME NEW p \in Paths
      PROVE  \/ p \in Healthy(v) /\ Reverse(p) \in Healthy(v)
             \/ {p[1], p[2]} \in Blamed(v)
             \/ {p, Reverse(p)} \cap (targets \cup directional \cup unconfirmed \cup indeterminate)
                  # {}
  <2>1. /\ Reverse(p) \in Paths /\ Reverse(Reverse(p)) = p
        /\ v[p] \in {"success", "fallback", "failure", "inconclusive", "missing", "gated"}
        /\ v[Reverse(p)] \in {"success", "fallback", "failure", "inconclusive", "missing", "gated"}
    BY <1>2, Verdicts, WayBack
  <2>2. CASE v[p] = "failure" /\ v[Reverse(p)] = "failure"
    <3>1. p \in Failing(v) \ FailingAlone(v)
      BY <2>2 DEF Failing, FailingAlone
    <3>. QED
      BY <3>1 DEF Blamed
  <2>3. CASE v[p] = "failure" /\ v[Reverse(p)] # "failure"
    <3>1. p \in FailingAlone(v)
      BY <2>3 DEF FailingAlone
    <3>. QED
      BY <1>3, <3>1
  <2>4. CASE v[p] # "failure" /\ v[Reverse(p)] = "failure"
    <3>1. Reverse(p) \in FailingAlone(v)
      BY <2>1, <2>4 DEF FailingAlone
    <3>. QED
      BY <1>3, <3>1
  <2>5. CASE v[p] # "failure" /\ v[Reverse(p)] # "failure"
    <3>1. p \notin targets \cup unconfirmed /\ Reverse(p) \notin targets \cup unconfirmed
      BY <1>3, <2>5 DEF FailingAlone
    <3>2. v[p] \in {"inconclusive", "missing", "gated"} => p \in indeterminate
      BY <1>4, <3>1
    <3>3. v[Reverse(p)] \in {"inconclusive", "missing", "gated"} => Reverse(p) \in indeterminate
      BY <1>4, <2>1, <3>1
    <3>. QED
      BY <2>1, <2>5, <3>2, <3>3 DEF Healthy
  <2>. QED
    BY <2>2, <2>3, <2>4, <2>5
<1>8. LinkAccounted'
  BY <1>6, <1>7 DEF LinkAccounted
<1>9. UnreachableIsTrue'
  <2>1. ASSUME NEW m \in Unreachable(v) PROVE m \notin up
    <3>1. PICK p \in Paths : v[p] = "fallback" /\ m = Speaker[p[2]]
      BY <2>1 DEF Unreachable
    <3>. QED
      BY <1>2, <3>1, Verdicts DEF ProbeInv, EvidenceInv
  <2>. QED
    BY <1>5, <1>6, <2>1 DEF UnreachableIsTrue
<1>10. CleanMeansOpen'
  <2> SUFFICES ASSUME report'.exit = 0
               PROVE  docs = Speakers /\ cut = {} /\ \A r \in DataRacks : Speaker[r] \in up
    BY <1>5, <1>6 DEF CleanMeansOpen
  <2>1. docs \cap sick = {} /\ ~others
    BY <1>6 DEF ExitCode
  <2>2. /\ docs = Speakers /\ Blamed(v) = {} /\ Unreachable(v) = {}
        /\ targets = {} /\ directional = {} /\ unconfirmed = {} /\ indeterminate = {}
    BY <2>1
  <2>3. ASSUME NEW p \in Paths PROVE ~Unanswered(p)
    <3>1. p \in Healthy(v)
      BY <1>7, <2>2
    <3>2. v[p] # "fallback"
      BY <2>2 DEF Unreachable
    <3>3. paths[p] = "representative"
      BY <1>2, <3>1, <3>2, Verdicts DEF Healthy
    <3>. QED
      BY <3>3 DEF ProbeInv, EvidenceInv
  <2>4. ASSUME NEW r \in DataRacks PROVE Speaker[r] \in up
    <3>1. PICK q \in DataRacks : q # r
      BY OtherRack
    <3>2. <<r, q>> \in Paths /\ <<r, q>>[1] = r
      BY <3>1 DEF Paths
    <3>. QED
      BY <2>3, <3>2 DEF Unanswered
  <2>5. cut = {}
    BY <2>3 DEF ProbeInv, StateInv, Links, Unanswered, Severed
  <2>. QED
    BY <2>2, <2>4, <2>5
<1>11. OneHostIsNotTheFabric'
  <2> SUFFICES ASSUME NEW l \in Blamed(v), l \notin cut
               PROVE  LET silent == {m \in Nodes \ up : RackOf[m] \in l}
                      IN /\ silent # {}
                         /\ (\A r \in l : FallbackTarget(r) # NoNode) => Cardinality(silent) > 1
    BY <1>5, <1>6 DEF OneHostIsNotTheFabric
  <2>1. PICK p \in Paths : /\ l = {p[1], p[2]}
                           /\ v[p] = "failure" /\ v[Reverse(p)] = "failure"
    BY DEF Blamed, Failing, FailingAlone
  <2>2. Dead(p) /\ Dead(Reverse(p))
    <3>1. Reverse(p) \in Paths /\ Reverse(p)[1] = p[2]
      BY WayBack
    <3>2. paths[p] = "inferred" /\ paths[Reverse(p)] = "inferred"
      BY <1>2, <2>1, <3>1, Verdicts
    <3>. QED
      BY <3>1, <3>2 DEF ProbeInv, EvidenceInv
  <2> DEFINE silent == {m \in Nodes \ up : RackOf[m] \in l}
  <2>3. /\ p[1] \in DataRacks /\ p[2] \in DataRacks /\ p[1] # p[2]
        /\ Reverse(p)[1] = p[2] /\ Reverse(p)[2] = p[1]
        /\ Speaker[p[1]] \in Nodes /\ RackOf[Speaker[p[1]]] = p[1]
        /\ Speaker[p[2]] \in Nodes /\ RackOf[Speaker[p[2]]] = p[2]
    BY WayBack, RackMachines
  <2>10. ~Severed(p) /\ ~Severed(Reverse(p))
    BY <2>1, <2>3 DEF Severed
  <2>11. silent # {}
    BY <2>1, <2>2, <2>3, <2>10 DEF Dead
  <2>12. SUFFICES ASSUME \A r \in l : FallbackTarget(r) # NoNode
                  PROVE  Cardinality(silent) > 1
    BY <2>11
  <2>13. \E a, b \in silent : a # b
    <3>1. /\ FallbackTarget(p[1]) \in Nodes /\ RackOf[FallbackTarget(p[1])] = p[1]
          /\ FallbackTarget(p[1]) # Speaker[p[1]]
          /\ FallbackTarget(p[2]) \in Nodes /\ RackOf[FallbackTarget(p[2])] = p[2]
          /\ FallbackTarget(p[2]) # Speaker[p[2]]
          /\ FallbackTarget(p[1]) # NoNode /\ FallbackTarget(p[2]) # NoNode
      BY <2>1, <2>3, <2>12, RackMachines
    <3>2. \/ Speaker[p[1]] \notin up /\ Speaker[p[2]] \notin up
          \/ Speaker[p[1]] \notin up /\ FallbackTarget(p[1]) \notin up
          \/ Speaker[p[2]] \notin up /\ FallbackTarget(p[2]) \notin up
      BY <2>2, <2>3, <2>10, <3>1 DEF Dead
    <3>. QED
      BY <2>1, <2>3, <3>1, <3>2
  <2>4. IsFiniteSet(silent)
    BY NodesAssumption, FS_Subset
  <2> HIDE DEF silent
  <2>5. PICK a \in silent, b \in silent : a # b
    BY <2>13
  <2>6. Cardinality({a, b}) = 2
    <3>1. IsFiniteSet({b}) /\ Cardinality({b}) = 1 /\ a \notin {b}
      BY <2>5, FS_Singleton
    <3>2. Cardinality({b} \cup {a}) = 1 + 1
      BY <3>1, FS_AddElement
    <3>3. {b} \cup {a} = {a, b}
      OBVIOUS
    <3>. QED
      BY <3>2, <3>3
  <2>7. Cardinality({a, b}) <= Cardinality(silent)
    BY <2>4, <2>5, FS_Subset
  <2>8. Cardinality(silent) \in Nat
    BY <2>4, FS_CardinalityType
  <2>9. Cardinality(silent) > 1
    BY <2>6, <2>7, <2>8
  <2>. QED
    BY <2>9 DEF silent
<1>12. report'.exit \in 0 .. 2
  BY <1>6 DEF ExitCode
<1>. QED
  BY <1>8, <1>9, <1>10, <1>11, <1>12 DEF Sound

\* No step follows the report.
LEMMA NextReport == ProbeInv /\ ReportInv /\ [Next]_crossVars => ReportInv'
<1> SUFFICES ASSUME ProbeInv, ReportInv, [Next]_crossVars PROVE ReportInv'
  OBVIOUS
<1>1. CASE Reported
  <2>1. at = "over" /\ \A r \in DataRacks : r <= rack
    BY <1>1 DEF ReportInv
  <2>2. {r \in DataRacks : r > rack} = {}
    <3>1. rack \in Nat
      BY Racks DEF ProbeInv, StateInv
    <3>2. ASSUME NEW r \in DataRacks PROVE ~(r > rack)
      <4>1. r \in Nat /\ r <= rack
        BY <2>1, <3>2, Racks
      <4>. QED
        BY <3>1, <4>1
    <3>. QED
      BY <3>2
  <2>3. UNCHANGED crossVars
    BY <1>1, <2>1, <2>2 DEF Next, EndOfLoop, NextRemote, PingRepresentative, PingFallback,
       StartTraceroute, TracerouteEnds, Interrupt, GraceEnds, NextRack, GenerateReport, Reported
  <2>. QED
    BY <1>1, <2>3 DEF crossVars, truthVars, ReportInv, Reported, Sound, CleanMeansOpen,
       OneHostIsNotTheFabric, LinkAccounted, UnreachableIsTrue
<1>2. CASE ~Reported
  <2>1. ASSUME NEW docs \in SUBSET Speakers, GenerateReport(docs) PROVE ReportInv'
    <3>1. at' = at /\ rack' = rack /\ at = "over" /\ \A r \in DataRacks : r <= rack
      BY <2>1 DEF GenerateReport
    <3>. QED
      BY <2>1, <3>1, ReportSound DEF ReportInv
  <2>2. ASSUME ~(\E docs \in SUBSET Speakers : GenerateReport(docs)) PROVE ReportInv'
    <3>1. report' = report
      BY <2>2 DEF Next, EndOfLoop, NextRemote, PingRepresentative, PingFallback,
         StartTraceroute, TracerouteEnds, Interrupt, GraceEnds, NextRack, crossVars
    <3>. QED
      BY <1>2, <3>1 DEF ReportInv, Reported
  <2>. QED
    BY <2>1, <2>2
<1>. QED
  BY <1>1, <1>2

\* Both always hold.
LEMMA AlwaysSound == Spec => [](ProbeInv /\ ReportInv)
<1>1. Init => ProbeInv /\ ReportInv
  BY InitProbe
<1>2. ProbeInv /\ ReportInv /\ [Next]_crossVars => (ProbeInv /\ ReportInv)'
  BY NextProbe, NextReport
<1>. QED
  BY <1>1, <1>2, PTL DEF Spec

-----------------------------------------------------------------------------
\* Types: racks, machines and links are the topology's, a rack never probes
\* itself, every path has one record, and a report one of three exit codes.
THEOREM CrossTypeCorrect == Spec => []TypeOK
<1>1. ProbeInv /\ ReportInv => TypeOK
  BY DEF ProbeInv, StateInv, ReportInv, Sound, TypeOK
<1>. QED
  BY <1>1, AlwaysSound, PTL

\* A clean exit vouches for every rack pair, whatever was interrupted, fell
\* back or did not report (report_generator.py:614-620).
THEOREM CleanExitVouches == Spec => []CleanMeansOpen
<1>1. ProbeInv /\ ReportInv => CleanMeansOpen
  BY DEF ReportInv, Sound, CleanMeansOpen
<1>. QED
  BY <1>1, AlwaysSound, PTL

\* The fallback and the reverse direction keep one silent machine, and a child
\* killed by an interruption, from being blamed on the fabric
\* (report_generator.py:227-258).
THEOREM OneSilentHost == Spec => []OneHostIsNotTheFabric
<1>1. ProbeInv /\ ReportInv => OneHostIsNotTheFabric
  BY DEF ReportInv, Sound, OneHostIsNotTheFabric
<1>. QED
  BY <1>1, AlwaysSound, PTL

\* No link of the topology drops out of the report.
THEOREM EveryLinkAccounted == Spec => []LinkAccounted
<1>1. ProbeInv /\ ReportInv => LinkAccounted
  BY DEF ReportInv, Sound, LinkAccounted
<1>. QED
  BY <1>1, AlwaysSound, PTL

\* A representative reported unreachable does not answer.
THEOREM UnreachableAreSilent == Spec => []UnreachableIsTrue
<1>1. ProbeInv /\ ReportInv => UnreachableIsTrue
  BY DEF ReportInv, Sound, UnreachableIsTrue
<1>. QED
  BY <1>1, AlwaysSound, PTL
=============================================================================
