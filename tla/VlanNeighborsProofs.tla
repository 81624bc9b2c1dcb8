------------------------ MODULE VlanNeighborsProofs ------------------------
(***************************************************************************)
(* Theorems about VlanNeighbors, for any machines, segments, broken        *)
(* adjacencies, lost replies and interruptions.                            *)
(*                                                                         *)
(* The invariant counts: an entry on a working adjacency that no sweep has *)
(* heard costs one lost reply for every sweep that was reaped, so after    *)
(* the last sweep a silent peer is cut off or MaxSweeps replies are gone.  *)
(* A probe that was not interrupted has judged every entry it no longer    *)
(* has to do, and the probes that are over have none left.                 *)
(***************************************************************************)
EXTENDS VlanNeighbors, WellFoundedInduction, FiniteSetTheorems, TLAPS

Key(n, e) == <<n, e[1], e[2]>>
Missing(n, e) == <<Key(n, e), "missing-l2-neighbor">>
Unreachable(n, e) == <<Key(n, e), "icmp-unreachable">>

StateInv ==
  /\ cut \subseteq Edges /\ deaf \subseteq Edges /\ lost \in Nat /\ Troubles <= MaxTroubles
  /\ node \in InScope
  /\ at \in {"begin", "sweep", "window", "flush", "classify", "icmp", "ping", "over"}
  /\ sweep \in Nat /\ sweep <= MaxSweeps
  /\ arped \subseteq attempted /\ sent \subseteq attempted
  /\ attempted \subseteq Entries /\ todo \subseteq Entries
  /\ complete \subseteq InScope /\ alien \subseteq InScope /\ interrupted \subseteq InScope
  /\ failed \subseteq Keys \X {"missing-l2-neighbor", "icmp-unreachable"}
  /\ observed \subseteq Keys /\ unattempted \subseteq Keys

\* Sweeps reaped, when at is where the run is and n is the sweep it is in.
Reaped(place, n) == IF place = "begin" THEN 0 ELSE IF place = "sweep" THEN n - 1 ELSE n

SweepInv ==
  /\ at = "begin" => sweep = 0 /\ todo = Entries
  /\ at = "sweep" => sweep # 0 /\ Entries \ todo \subseteq sent
  /\ at = "window" => todo = Entries
  /\ at = "flush" => Interrupted
  /\ at \in {"classify", "icmp", "ping"} => sweep = MaxSweeps
  /\ at = "ping" => todo # {}
  /\ at = "classify" => todo = Entries
  /\ \A e \in arped : Edge(node, e) \notin cut

\* Every entry not heard on a working adjacency has lost a reply in each sweep.
\* A ping in progress began before any interruption.
SilenceInv ==
  (~Interrupted \/ at = "ping") /\ at # "over" =>
    \A e \in Entries \ arped : Edge(node, e) \in cut \/ lost >= Reaped(at, sweep)

\* The entry was pinged, and what is wrong with it was found.
Found(n, e) ==
  /\ Edge(n, e) \in cut => Missing(n, e) \in failed
  /\ Edge(n, e) \in deaf => Unreachable(n, e) \in failed
  /\ Key(n, e) \in observed \/ Missing(n, e) \in failed

JudgedInv ==
  /\ ~Interrupted /\ at \in {"icmp", "ping", "over"} => \A e \in Entries \ todo : Found(node, e)
  /\ at = "over" => todo = {}
PastInv ==
  \A n \in InScope : n < node /\ n \notin interrupted => \A e \in Expected(n) : Found(n, e)

\* A ping that was killed is the last one of its machine.
LastPingInv ==
  \A f \in Untrue : f[1][1] <= node /\ (f[1][1] = node => at \in {"icmp", "over"})

ProbeInv ==
  /\ StateInv /\ SweepInv /\ SilenceInv /\ JudgedInv /\ PastInv
  /\ LastPingInv /\ DefinitiveIsTrue

\* What is true of a report.
Sound == report.exit \in 0 .. 2 /\ CleanMeansConnected /\ UnidirectionalMeansCutShort

ReportInv ==
  Reported => at = "over" /\ (\A n \in InScope : n <= node) /\ Sound

-----------------------------------------------------------------------------
\* A nonempty set of natural numbers has a least element, which Min returns.
LEMMA Least ==
  ASSUME NEW S \in SUBSET Nat, S # {}
  PROVE  Min(S) \in S /\ \A y \in S : Min(S) <= y
<1> DEFINE R == OpToRel(<, Nat)
<1>1. PICK x \in S : \A y \in S : ~ (<<y, x>> \in R)
  BY NatLessThanWellFounded, WFMin
<1>2. ASSUME NEW y \in S, y < x PROVE FALSE
  <2>1. <<y, x>> \in Nat \X Nat /\ <<y, x>>[1] < <<y, x>>[2]
    BY <1>2
  <2>2. <<y, x>> \in R
    BY <2>1, Zenon DEF OpToRel
  <2>. QED
    BY <1>1, <2>2
<1>3. \A y \in S : x <= y
  BY <1>2
<1>. QED
  BY <1>3 DEF Min

\* Entries are pairs of a segment and another machine under test.
LEMMA EntryParts ==
  ASSUME NEW n \in InScope, NEW e \in Expected(n)
  PROVE  /\ e[1] \in Segments /\ e[2] \in InScope /\ e = <<e[1], e[2]>> /\ e[2] # n
         /\ Key(n, e) \in Keys
         /\ Edge(n, e) \in Edges
  BY DEF Expected, Key, Keys, Edges

\* The entry a pass visits next is one it has to visit.
LEMMA UpcomingIsTodo ==
  ASSUME NEW n \in InScope, NEW T \in SUBSET Expected(n), T # {}
  PROVE  Upcoming(T) \in T
<1> DEFINE segments == {e[1] : e \in T}
           s == Min(segments)
           peers == {e[2] : e \in {d \in T : d[1] = s}}
<1>1. \A e \in T : e[1] \in Nat /\ e[2] \in Nat /\ e = <<e[1], e[2]>>
  BY EntryParts, NodesAssumption
<1>2. segments \in SUBSET Nat /\ segments # {}
  BY <1>1
<1>3. s \in segments
  <2> HIDE DEF segments
  <2>. QED
    BY <1>2, Least
<1>4. peers \in SUBSET Nat /\ peers # {}
  BY <1>1, <1>3
<1>5. Min(peers) \in peers
  <2> HIDE DEF peers
  <2>. QED
    BY <1>4, Least
<1>6. PICK e \in T : e[1] = s /\ e[2] = Min(peers)
  BY <1>5
<1>7. Upcoming(T) = <<s, Min(peers)>>
  BY DEF Upcoming
<1>. QED
  BY <1>1, <1>6, <1>7

\* Everything a sweep may miss can be counted, and so can what is broken.
LEMMA Finite ==
  /\ \A n \in InScope : IsFiniteSet(Expected(n))
  /\ IsFiniteSet(Edges)
<1>1. IsFiniteSet(InScope) /\ IsFiniteSet(Segments)
  BY NodesAssumption, FS_Subset
<1>2. IsFiniteSet(Segments \X InScope)
  BY <1>1, FS_Product
<1>3. \A n \in InScope : Expected(n) \subseteq Segments \X InScope
  BY DEF Expected
<1>4. IsFiniteSet(Segments \X SUBSET InScope)
  BY <1>1, FS_Product, FS_SUBSET
<1>5. Edges \subseteq Segments \X SUBSET InScope
  BY EntryParts DEF Edges, Edge
<1>. QED
  BY <1>2, <1>3, <1>4, <1>5, FS_Subset

-----------------------------------------------------------------------------
\* The invariant holds initially.
LEMMA InitProbe == Init => ProbeInv /\ ReportInv
<1> SUFFICES ASSUME Init PROVE ProbeInv /\ ReportInv
  OBVIOUS
<1>1. StateInv
  BY VlanBounds DEF Init, StateInv
<1>2. PastInv
  <2>1. ASSUME NEW n \in InScope, n < node PROVE FALSE
    <3>1. n \in Nat /\ node \in Nat /\ node <= n
      BY <2>1, NodesAssumption DEF Init
    <3>. QED
      BY <2>1, <3>1
  <2>. QED
    BY <2>1 DEF PastInv
<1>3. SweepInv /\ SilenceInv /\ JudgedInv /\ LastPingInv /\ DefinitiveIsTrue
  BY DEF Init, SweepInv, SilenceInv, JudgedInv, LastPingInv, DefinitiveIsTrue, Untrue, Reaped
<1>. QED
  BY <1>1, <1>2, <1>3 DEF Init, ProbeInv, ReportInv, Reported

\* While findings and observations stay, what they say of the wire does.
LEMMA FindingsStay ==
  ASSUME ProbeInv, UNCHANGED <<wireVars, node, failed, observed>>,
         lost' \in Nat, lost <= lost', interrupted \subseteq interrupted'
  PROVE  /\ DefinitiveIsTrue' /\ PastInv' /\ Entries' = Entries
         /\ (at \in {"icmp", "over"} /\ Interrupted => at' \in {"icmp", "over"}) => LastPingInv'
         /\ cut' = cut /\ deaf' = deaf
         /\ \A n, e : Found(n, e)' <=> Found(n, e)
<1>1. cut' = cut /\ deaf' = deaf /\ Entries' = Entries
  BY DEF wireVars, Entries
<1>2. \A n, e : Found(n, e)' <=> Found(n, e)
  BY <1>1 DEF Found, Missing, Unreachable, Key
<1>3. PastInv'
  BY <1>2 DEF ProbeInv, PastInv
<1>4. lost >= MaxSweeps => lost' >= MaxSweeps
  BY VlanBounds DEF ProbeInv, StateInv
<1>5. Untrue' = Untrue
  BY <1>1 DEF Untrue, EdgeOf
<1>6. DefinitiveIsTrue'
  BY <1>1, <1>4, <1>5 DEF ProbeInv, DefinitiveIsTrue, EdgeOf
<1>7. (at \in {"icmp", "over"} /\ Interrupted => at' \in {"icmp", "over"}) => LastPingInv'
  BY <1>5 DEF ProbeInv, LastPingInv, DefinitiveIsTrue, Interrupted
<1>. QED
  BY <1>1, <1>2, <1>3, <1>6, <1>7

\* The flush of a probe that was interrupted.
LEMMA FlushKeeps ==
  ASSUME ProbeInv, Interrupted, Flush, UNCHANGED <<wireVars, lost, interrupted>>
  PROVE  ProbeInv'
<1>1. /\ at' = "over" /\ todo' = {}
      /\ unattempted' = unattempted \cup OfNode(Entries \ attempted)
      /\ UNCHANGED <<node, sweep, sent, attempted, arped, complete, alien, failed, observed>>
  BY DEF Flush
<1>2. /\ DefinitiveIsTrue' /\ LastPingInv' /\ PastInv' /\ Entries' = Entries
      /\ cut' = cut /\ deaf' = deaf
  BY <1>1, FindingsStay DEF ProbeInv, StateInv
<1>3. OfNode(Entries \ attempted) \subseteq Keys
  BY EntryParts DEF OfNode, Entries, Key, ProbeInv, StateInv
<1>4. StateInv'
  BY <1>1, <1>2, <1>3 DEF ProbeInv, StateInv, Troubles
<1>5. Interrupted'
  BY <1>1 DEF Interrupted
<1>6. SweepInv' /\ SilenceInv' /\ JudgedInv'
  BY <1>1, <1>2, <1>5 DEF ProbeInv, SweepInv, SilenceInv, JudgedInv
<1>. QED
  BY <1>2, <1>4, <1>6 DEF ProbeInv

\* A sweep that is reaped uninterrupted has cost every silent entry a reply.
LEMMA ReapKeeps == ASSUME ProbeInv, ReapSweep PROVE ProbeInv'
<1> DEFINE working == {e \in sent : Edge(node, e) \notin cut}
<1>1. PICK answered \in SUBSET working :
        /\ lost' = IF Interrupted THEN lost ELSE lost + Cardinality(working \ answered)
        /\ arped' = arped \cup answered
  BY DEF ReapSweep, Reap
<1>2. /\ at = "sweep" /\ (todo = {} \/ Interrupted)
      /\ at' = IF todo # {} THEN "flush" ELSE "window"
      /\ sent' = {} /\ todo' = Entries
      /\ UNCHANGED <<wireVars, node, sweep, attempted, interrupted, docVars, report>>
      /\ Troubles' <= MaxTroubles
  BY DEF ReapSweep
<1>3. Cardinality(working \ answered) \in Nat
  <2>1. IsFiniteSet(Entries) /\ working \ answered \subseteq Entries
    BY Finite DEF Entries, ProbeInv, StateInv
  <2>. QED
    BY <2>1, FS_Subset, FS_CardinalityType
<1>4. lost' \in Nat /\ lost <= lost'
  BY <1>1, <1>3 DEF ProbeInv, StateInv
<1>5. /\ DefinitiveIsTrue' /\ LastPingInv' /\ PastInv' /\ Entries' = Entries
      /\ cut' = cut /\ deaf' = deaf
  BY <1>2, <1>4, FindingsStay DEF docVars
<1>6. UNCHANGED <<complete, alien, failed, observed, unattempted>> /\ Interrupted' = Interrupted
  BY <1>2 DEF docVars, Interrupted
<1>7. StateInv'
  BY <1>1, <1>2, <1>4, <1>5, <1>6 DEF ProbeInv, StateInv
<1>8. SweepInv'
  BY <1>1, <1>2, <1>5, <1>6 DEF ProbeInv, SweepInv
<1>9. ASSUME ~Interrupted, NEW e \in Entries \ arped', Edge(node, e) \notin cut
      PROVE  lost' >= sweep
  <2>1. e \in sent
    BY <1>2, <1>9 DEF ProbeInv, SweepInv
  <2>2. e \in working \ answered
    BY <1>1, <1>9, <2>1
  <2>3. Cardinality(working \ answered) # 0
    <3>1. IsFiniteSet(working \ answered)
      <4>1. IsFiniteSet(Entries) /\ working \ answered \subseteq Entries
        BY Finite DEF Entries, ProbeInv, StateInv
      <4>. QED
        BY <4>1, FS_Subset
    <3>. QED
      BY <2>2, <3>1, FS_EmptySet
  <2>4. lost >= sweep - 1
    BY <1>1, <1>2, <1>9 DEF ProbeInv, SilenceInv, Reaped
  <2>5. lost' = lost + Cardinality(working \ answered)
    BY <1>1, <1>9
  <2>. QED
    BY <1>3, <2>3, <2>4, <2>5 DEF ProbeInv, StateInv
<1>10. SilenceInv'
  BY <1>2, <1>5, <1>6, <1>9 DEF SilenceInv, Reaped
<1>11. JudgedInv'
  BY <1>2 DEF JudgedInv
<1>. QED
  BY <1>5, <1>7, <1>8, <1>10, <1>11 DEF ProbeInv

\* A ping is judged on what the sweeps and the wire gave.
LEMMA JudgeKeeps == ASSUME ProbeInv, PingEnds PROVE ProbeInv'
<1>0. PICK e : e = Upcoming(todo)
  OBVIOUS
<1>15. PICK icmp \in Answered(e) : Judge(e, e \in arped, icmp)
  BY <1>0 DEF PingEnds
<1> DEFINE types == (IF e \in arped THEN {} ELSE {"missing-l2-neighbor"})
                    \cup (IF icmp THEN {} ELSE {"icmp-unreachable"})
<1>1. /\ at = "ping" /\ at' = "icmp" /\ todo' = todo \ {e}
      /\ failed' = failed \cup {<<Key(node, e), t>> : t \in types}
      /\ observed' = IF e \in arped \/ icmp THEN observed \cup {Key(node, e)} ELSE observed
      /\ UNCHANGED <<node, sweep, sent, attempted, arped, complete, alien, unattempted>>
  BY <1>0, <1>15 DEF PingEnds, Judge, Key
<1>2. cut' = cut /\ deaf' = deaf /\ lost' = lost /\ interrupted' = interrupted
  BY DEF PingEnds, wireVars
<1>3. e \in todo /\ e \in Entries /\ Key(node, e) \in Keys
  BY <1>0, <1>1, UpcomingIsTodo, EntryParts DEF ProbeInv, StateInv, SweepInv, Entries
<1>4. Entries' = Entries /\ Interrupted' = Interrupted
  BY <1>1, <1>2 DEF Entries, Interrupted
<1>16. /\ icmp \in BOOLEAN
       /\ Edge(node, e) \in deaf => ~icmp
       /\ ~icmp => Edge(node, e) \in deaf \/ (Interrupted /\ node \in Unprivileged)
  BY <1>15 DEF Answered
<1>5. /\ failed \subseteq failed' /\ observed \subseteq observed'
      /\ \A f \in failed' : \/ f \in failed
                            \/ f = Missing(node, e) /\ e \notin arped
                            \/ f = Unreachable(node, e) /\ ~icmp
      /\ e \notin arped => Missing(node, e) \in failed'
      /\ ~icmp => Unreachable(node, e) \in failed'
      /\ e \in arped => Key(node, e) \in observed'
  BY <1>1 DEF Missing, Unreachable
<1>6. failed' \subseteq Keys \X {"missing-l2-neighbor", "icmp-unreachable"}
  BY <1>3, <1>5 DEF Missing, Unreachable, ProbeInv, StateInv
<1>17. observed' \subseteq Keys
  BY <1>1, <1>3 DEF ProbeInv, StateInv
<1>7. StateInv'
  BY <1>1, <1>2, <1>3, <1>4, <1>6, <1>17 DEF ProbeInv, StateInv, Troubles
<1>8. SweepInv' /\ SilenceInv'
  BY <1>1, <1>2, <1>4 DEF ProbeInv, SweepInv, SilenceInv, Reaped
<1>9. \A n, d : Found(n, d) => Found(n, d)'
  BY <1>2, <1>5 DEF Found, Missing, Unreachable, Key
<1>10. Found(node, e)'
  <2>1. Edge(node, e) \in cut => e \notin arped
    BY DEF ProbeInv, SweepInv
  <2>. QED
    BY <1>1, <1>2, <1>5, <1>16, <2>1 DEF Found, Missing, Unreachable, Key
<1>11. JudgedInv'
  BY <1>1, <1>4, <1>9, <1>10 DEF ProbeInv, JudgedInv
<1>12. PastInv'
  BY <1>1, <1>2, <1>9 DEF ProbeInv, PastInv
<1>13. e \notin arped => Edge(node, e) \in cut \/ lost >= MaxSweeps
  BY <1>1, <1>3 DEF ProbeInv, SilenceInv, SweepInv, Reaped
<1>18. /\ EdgeOf(Missing(node, e)) = Edge(node, e) /\ EdgeOf(Unreachable(node, e)) = Edge(node, e)
       /\ Missing(node, e)[2] = "missing-l2-neighbor"
       /\ Unreachable(node, e)[2] = "icmp-unreachable" /\ Unreachable(node, e)[1][1] = node
  BY DEF EdgeOf, Missing, Unreachable, Key, Edge
\* At most the ping that was in progress at the interruption.
<1>19. \A f \in Untrue' :
         f \in Untrue \/ (f = Unreachable(node, e) /\ Interrupted /\ node \in Unprivileged)
  BY <1>2, <1>5, <1>16, <1>18 DEF Untrue, EdgeOf
<1>20. \A f \in Untrue : f[1][1] <= node /\ f[1][1] # node
  BY <1>1 DEF ProbeInv, LastPingInv
<1>21. LastPingInv'
  <2>1. node \in Nat
    BY NodesAssumption DEF ProbeInv, StateInv
  <2>. QED
    BY <1>1, <1>18, <1>19, <1>20, <2>1 DEF LastPingInv
<1>14. DefinitiveIsTrue'
  <2>1. \A f \in failed' : f[2] = "missing-l2-neighbor" => EdgeOf(f) \in cut \/ lost >= MaxSweeps
    BY <1>5, <1>13, <1>18 DEF ProbeInv, DefinitiveIsTrue
  <2>2. \A f \in Untrue' : f[1][1] \in Unprivileged \cap interrupted
    BY <1>18, <1>19 DEF ProbeInv, DefinitiveIsTrue, Interrupted
  <2>3. \A f, g \in Untrue' : f[1][1] = g[1][1] => f = g
    BY <1>18, <1>19, <1>20 DEF ProbeInv, DefinitiveIsTrue
  <2>. QED
    BY <1>2, <2>1, <2>2, <2>3 DEF DefinitiveIsTrue, EdgeOf
<1>. QED
  BY <1>7, <1>8, <1>11, <1>12, <1>14, <1>21 DEF ProbeInv

\* The next machine begins with nothing heard.
LEMMA NextNodeKeeps == ASSUME ProbeInv, NextNode PROVE ProbeInv'
<1> DEFINE rest == {n \in InScope : n > node}
<1>1. /\ at = "over" /\ rest # {} /\ node' = Min(rest)
      /\ at' = "begin" /\ todo' = Expected(node') /\ sweep' = 0
      /\ sent' = {} /\ attempted' = {} /\ arped' = {}
      /\ UNCHANGED <<wireVars, lost, interrupted, docVars, report>>
  BY DEF NextNode
<1>2. UNCHANGED <<cut, deaf, complete, alien, failed, observed, unattempted>>
  BY <1>1 DEF wireVars, docVars
<1>3. rest \in SUBSET Nat
  BY NodesAssumption
<1>4. node' \in rest /\ \A n \in rest : node' <= n
  <2> HIDE DEF rest
  <2>. QED
    BY <1>1, <1>3, Least
<1>5. StateInv'
  BY <1>1, <1>2, <1>4, VlanBounds DEF ProbeInv, StateInv, Troubles, Entries
<1>6. SweepInv' /\ SilenceInv' /\ JudgedInv'
  BY <1>1, <1>5 DEF SweepInv, SilenceInv, JudgedInv, Reaped, StateInv, Entries
<1>7. \A n, d : Found(n, d)' <=> Found(n, d)
  BY <1>2 DEF Found, Missing, Unreachable, Key
<1>8. ASSUME NEW n \in InScope, n < node', n \notin interrupted, NEW d \in Expected(n)
      PROVE  Found(n, d)
  <2>1. n \in Nat /\ node \in Nat /\ node' \in Nat
    BY <1>3, <1>4, NodesAssumption DEF ProbeInv, StateInv
  <2>2. ~(n > node)
    <3>1. n \notin rest
      BY <1>4, <1>8, <2>1
    <3>. QED
      BY <3>1
  <2>3. n < node \/ n = node
    BY <2>1, <2>2
  <2>4. CASE n < node
    BY <1>8, <2>4 DEF ProbeInv, PastInv
  <2>5. CASE n = node
    BY <1>1, <1>8, <2>5 DEF ProbeInv, JudgedInv, Interrupted, Entries
  <2>. QED
    BY <2>3, <2>4, <2>5
<1>9. PastInv'
  BY <1>1, <1>7, <1>8 DEF PastInv
<1>11. Untrue' = Untrue
  BY <1>2 DEF Untrue, EdgeOf
<1>10. DefinitiveIsTrue'
  BY <1>1, <1>2, <1>11 DEF ProbeInv, DefinitiveIsTrue, EdgeOf
<1>12. LastPingInv'
  <2>1. node \in Nat /\ node' \in Nat /\ node < node'
    BY <1>3, <1>4, NodesAssumption DEF ProbeInv, StateInv
  <2>2. \A f \in Untrue : f[1][1] \in Nat
    BY NodesAssumption DEF Untrue, Keys, ProbeInv, StateInv
  <2>3. \A f \in Untrue : f[1][1] <= node' /\ f[1][1] # node'
    BY <2>1, <2>2 DEF ProbeInv, LastPingInv
  <2>. QED
    BY <1>11, <2>3 DEF LastPingInv
<1>. QED
  BY <1>5, <1>6, <1>9, <1>10, <1>12 DEF ProbeInv

\* Every step of the probes keeps it.
LEMMA NextProbe == ProbeInv /\ [Next]_vlanVars => ProbeInv'
<1> SUFFICES ASSUME ProbeInv, [Next]_vlanVars PROVE ProbeInv'
  OBVIOUS
<1>. USE DEF wireVars
<1>1. CASE StartCapture
  <2>1. at = "begin" /\ UNCHANGED <<wireVars, lost, interrupted, report>>
    BY <1>1 DEF StartCapture
  <2>2. CASE Interrupted
    BY <1>1, <2>1, <2>2, FlushKeeps DEF StartCapture
  <2>3. CASE ~Interrupted
    <3>1. /\ at' = "sweep" /\ sweep' = 1
          /\ UNCHANGED <<node, todo, sent, attempted, arped, docVars>>
      BY <1>1, <2>3 DEF StartCapture
    <3>2. UNCHANGED <<complete, alien, failed, observed, unattempted>>
      BY <3>1 DEF docVars
    <3>3. DefinitiveIsTrue' /\ LastPingInv' /\ PastInv' /\ Entries' = Entries
      BY <2>1, <3>1, <3>2, FindingsStay DEF ProbeInv, StateInv
    <3>4. StateInv'
      BY <2>1, <3>1, <3>2, <3>3, VlanBounds DEF ProbeInv, StateInv, Troubles
    <3>5. SweepInv' /\ SilenceInv' /\ JudgedInv'
      BY <2>1, <3>1, <3>3, <3>4 DEF ProbeInv, StateInv, SweepInv, SilenceInv, JudgedInv, Reaped
    <3>. QED
      BY <3>3, <3>4, <3>5 DEF ProbeInv
  <2>. QED
    BY <2>2, <2>3
<1>2. CASE SpawnArping
  <2>1. PICK e : e = Upcoming(todo)
    OBVIOUS
  <2>2. /\ at = "sweep" /\ todo # {} /\ ~Interrupted
        /\ todo' = todo \ {e} /\ sent' = sent \cup {e} /\ attempted' = attempted \cup {e}
        /\ UNCHANGED <<wireVars, lost, node, at, sweep, arped, interrupted, docVars, report>>
    BY <1>2, <2>1 DEF SpawnArping
  <2>3. UNCHANGED <<complete, alien, failed, observed, unattempted>>
    BY <2>2 DEF docVars
  <2>4. e \in Entries
    BY <2>1, <2>2, UpcomingIsTodo DEF ProbeInv, StateInv, Entries
  <2>5. DefinitiveIsTrue' /\ LastPingInv' /\ PastInv' /\ Entries' = Entries
    BY <2>2, <2>3, FindingsStay DEF ProbeInv, StateInv
  <2>6. StateInv'
    BY <2>2, <2>3, <2>4, <2>5 DEF ProbeInv, StateInv, Troubles
  <2>7. SweepInv' /\ SilenceInv' /\ JudgedInv'
    BY <2>2, <2>5 DEF ProbeInv, SweepInv, SilenceInv, JudgedInv, Interrupted
  <2>. QED
    BY <2>5, <2>6, <2>7 DEF ProbeInv
<1>3. CASE ReapSweep
  BY <1>3, ReapKeeps
<1>4. CASE WindowCloses \/ WaitForSweep
  <2>1. /\ at = "window" /\ at' \in {"classify", "flush", "sweep"}
        /\ UNCHANGED <<wireVars, lost, node, todo, sent, attempted, arped, interrupted, docVars,
                       report>>
        /\ at' = "classify" => sweep = MaxSweeps /\ sweep' = sweep
        /\ at' = "flush" => Interrupted /\ sweep' = sweep
        /\ at' = "sweep" => sweep < MaxSweeps /\ sweep' = sweep + 1
    BY <1>4 DEF WindowCloses, WaitForSweep
  <2>2. UNCHANGED <<complete, alien, failed, observed, unattempted>> /\ Interrupted' = Interrupted
    BY <2>1 DEF docVars, Interrupted
  <2>3. DefinitiveIsTrue' /\ LastPingInv' /\ PastInv' /\ Entries' = Entries
    BY <2>1, <2>2, FindingsStay DEF ProbeInv, StateInv
  <2>4. StateInv'
    BY <2>1, <2>2, <2>3, VlanBounds DEF ProbeInv, StateInv, Troubles
  <2>5. sweep' # 0 \/ at' # "sweep"
    BY <2>1 DEF ProbeInv, StateInv
  <2>6. SweepInv' /\ JudgedInv'
    BY <2>1, <2>2, <2>3, <2>5 DEF ProbeInv, SweepInv, JudgedInv
  <2>7. ~Interrupted => Reaped(at', sweep') = Reaped(at, sweep)
    BY <2>1 DEF ProbeInv, StateInv, Reaped
  <2>8. SilenceInv'
    BY <2>1, <2>2, <2>3, <2>7 DEF ProbeInv, SilenceInv
  <2>. QED
    BY <2>3, <2>4, <2>6, <2>8 DEF ProbeInv
<1>5. CASE FlushAfterSweeps
  BY <1>5, FlushKeeps DEF FlushAfterSweeps, ProbeInv, SweepInv
<1>6. CASE Classify
  <2>1. /\ at = "classify" /\ at' = "icmp"
        /\ \E heard \in SUBSET {node} : alien' = alien \cup heard
        /\ UNCHANGED <<wireVars, lost, node, todo, sweep, sent, attempted, arped, interrupted,
                       complete, failed, observed, unattempted, report>>
    BY <1>6 DEF Classify
  <2>2. DefinitiveIsTrue' /\ LastPingInv' /\ PastInv' /\ Entries' = Entries
    BY <2>1, FindingsStay DEF ProbeInv, StateInv
  <2>3. StateInv'
    BY <2>1, <2>2 DEF ProbeInv, StateInv, Troubles
  <2>4. SweepInv' /\ SilenceInv' /\ JudgedInv'
    BY <2>1, <2>2 DEF ProbeInv, SweepInv, SilenceInv, JudgedInv, Reaped, Interrupted
  <2>. QED
    BY <2>2, <2>3, <2>4 DEF ProbeInv
<1>7. CASE StartPing
  <2>1. at = "icmp" /\ todo # {} /\ UNCHANGED <<wireVars, lost, interrupted, report>>
    BY <1>7 DEF StartPing
  <2>2. CASE Interrupted
    BY <1>7, <2>1, <2>2, FlushKeeps DEF StartPing
  <2>3. CASE ~Interrupted
    <3>1. /\ at' = "ping" /\ attempted' = attempted \cup {Upcoming(todo)}
          /\ UNCHANGED <<node, todo, sweep, sent, arped, docVars>>
      BY <1>7, <2>3 DEF StartPing
    <3>2. UNCHANGED <<complete, alien, failed, observed, unattempted>> /\ Interrupted' = Interrupted
      BY <2>1, <3>1 DEF docVars, Interrupted
    <3>3. Upcoming(todo) \in Entries
      BY <2>1, UpcomingIsTodo DEF ProbeInv, StateInv, Entries
    <3>4. /\ DefinitiveIsTrue' /\ LastPingInv' /\ PastInv' /\ Entries' = Entries
          /\ \A n, e : Found(n, e)' <=> Found(n, e)
      BY <2>1, <2>3, <3>1, <3>2, FindingsStay DEF ProbeInv, StateInv
    <3>5. StateInv'
      BY <2>1, <3>1, <3>2, <3>3, <3>4 DEF ProbeInv, StateInv, Troubles
    <3>6. SweepInv' /\ SilenceInv' /\ JudgedInv'
      BY <2>1, <2>3, <3>1, <3>2, <3>4 DEF ProbeInv, SweepInv, SilenceInv, JudgedInv, Reaped
    <3>. QED
      BY <3>4, <3>5, <3>6 DEF ProbeInv
  <2>. QED
    BY <2>2, <2>3
<1>13. CASE PingEnds
  BY <1>13, JudgeKeeps
<1>8. CASE Complete
  <2>1. /\ at = "icmp" /\ todo = {} /\ at' = "over" /\ complete' = complete \cup {node}
        /\ UNCHANGED <<wireVars, lost, node, todo, sweep, sent, attempted, arped, interrupted,
                       alien, failed, observed, unattempted, report>>
    BY <1>8 DEF Complete
  <2>2. /\ DefinitiveIsTrue' /\ LastPingInv' /\ PastInv' /\ Entries' = Entries
        /\ \A n, e : Found(n, e)' <=> Found(n, e)
    BY <2>1, FindingsStay DEF ProbeInv, StateInv
  <2>3. StateInv'
    BY <2>1, <2>2 DEF ProbeInv, StateInv, Troubles
  <2>4. SweepInv' /\ SilenceInv' /\ JudgedInv'
    BY <2>1, <2>2 DEF ProbeInv, SweepInv, SilenceInv, JudgedInv, Interrupted
  <2>. QED
    BY <2>2, <2>3, <2>4 DEF ProbeInv
<1>9. CASE Interrupt
  <2>1. /\ at # "over" /\ interrupted' = interrupted \cup {node}
        /\ UNCHANGED <<wireVars, lost, passVars, docVars, report>>
    BY <1>9 DEF Interrupt
  <2>2. UNCHANGED <<complete, alien, failed, observed, unattempted, node, at, todo, sweep, sent,
                    attempted, arped>> /\ Interrupted'
    BY <2>1 DEF docVars, passVars, Interrupted
  <2>3. DefinitiveIsTrue' /\ LastPingInv' /\ PastInv' /\ Entries' = Entries
    BY <2>1, <2>2, FindingsStay DEF ProbeInv, StateInv
  <2>4. StateInv'
    BY <2>1, <2>2, <2>3 DEF ProbeInv, StateInv, Troubles
  <2>5. SweepInv' /\ SilenceInv' /\ JudgedInv'
    BY <2>1, <2>2, <2>3 DEF ProbeInv, SweepInv, SilenceInv, JudgedInv
  <2>. QED
    BY <2>3, <2>4, <2>5 DEF ProbeInv
<1>10. CASE GraceEnds
  <2>1. /\ Interrupted /\ at' = "over" /\ todo' = {}
        /\ UNCHANGED <<wireVars, lost, node, sweep, sent, attempted, arped, interrupted, docVars,
                       report>>
    BY <1>10 DEF GraceEnds
  <2>2. UNCHANGED <<complete, alien, failed, observed, unattempted>> /\ Interrupted'
    BY <2>1 DEF docVars, Interrupted
  <2>3. DefinitiveIsTrue' /\ LastPingInv' /\ PastInv' /\ Entries' = Entries
    BY <2>1, <2>2, FindingsStay DEF ProbeInv, StateInv
  <2>4. StateInv'
    BY <2>1, <2>2, <2>3 DEF ProbeInv, StateInv, Troubles
  <2>5. SweepInv' /\ SilenceInv' /\ JudgedInv'
    BY <2>1, <2>2, <2>3 DEF ProbeInv, SweepInv, SilenceInv, JudgedInv
  <2>. QED
    BY <2>3, <2>4, <2>5 DEF ProbeInv
<1>11. CASE NextNode
  BY <1>11, NextNodeKeeps
<1>12. CASE (\E docs \in SUBSET InScope : GenerateReport(docs)) \/ UNCHANGED vlanVars
  <2>1. UNCHANGED <<wireVars, lost, passVars, interrupted, docVars>>
    BY <1>12 DEF GenerateReport, vlanVars
  <2>2. /\ UNCHANGED <<complete, alien, failed, observed, unattempted, node, at, todo, sweep, sent,
                       attempted, arped>>
        /\ Interrupted' = Interrupted
    BY <2>1 DEF docVars, passVars, Interrupted
  <2>3. /\ DefinitiveIsTrue' /\ LastPingInv' /\ PastInv' /\ Entries' = Entries
        /\ \A n, e : Found(n, e)' <=> Found(n, e)
    BY <2>1, <2>2, FindingsStay DEF ProbeInv, StateInv
  <2>4. StateInv'
    BY <2>1, <2>2, <2>3 DEF ProbeInv, StateInv, Troubles
  <2>5. SweepInv' /\ SilenceInv' /\ JudgedInv'
    BY <2>1, <2>2, <2>3 DEF ProbeInv, SweepInv, SilenceInv, JudgedInv
  <2>. QED
    BY <2>3, <2>4, <2>5 DEF ProbeInv
<1>. QED
  BY <1>1, <1>2, <1>3, <1>4, <1>5, <1>6, <1>7, <1>8, <1>9, <1>10, <1>11, <1>12, <1>13 DEF Next

-----------------------------------------------------------------------------
\* Once every probe is over, those that were not interrupted found everything.
LEMMA AllFound ==
  ASSUME ProbeInv, at = "over", \A m \in InScope : m <= node,
         NEW n \in InScope, n \notin interrupted, NEW e \in Expected(n)
  PROVE  Found(n, e)
<1>1. n \in Nat /\ node \in Nat /\ n <= node
  BY NodesAssumption DEF ProbeInv, StateInv
<1>2. CASE n < node
  BY <1>2 DEF ProbeInv, PastInv
<1>3. CASE n = node
  BY <1>3 DEF ProbeInv, JudgedInv, Interrupted, Entries
<1>. QED
  BY <1>1, <1>2, <1>3

\* What a machine found of a peer is not "no data".
LEMMA FoundIsData ==
  ASSUME NEW docs, NEW n \in docs, NEW e, Found(n, e)
  PROVE  Direction(docs, n, e[2]) # "nodata"
<1>1. CASE \E f \in failed : f[1][1] = n /\ f[1][3] = e[2]
  BY <1>1 DEF Direction
<1>2. CASE \A f \in failed : f[1][1] # n \/ f[1][3] # e[2]
  <2>1. Missing(n, e) \notin failed
    BY <1>2 DEF Missing, Key
  <2>2. Key(n, e) \in observed
    BY <2>1 DEF Found
  <2>3. \E k \in observed : k[1] = n /\ k[3] = e[2]
    BY <2>2 DEF Key
  <2>. QED
    BY <1>2, <2>3 DEF Direction
<1>. QED
  BY <1>1, <1>2

\* A report is sound where it is generated.
LEMMA ReportSound ==
  ASSUME ProbeInv, NEW docs \in SUBSET InScope, GenerateReport(docs)
  PROVE  Sound'
<1> DEFINE definitive == docs \cap (alien \cup {f[1][1] : f \in failed}) # {}
           others == \/ NoData(docs) # {} \/ Unidirectional(docs) # {}
                     \/ docs # InScope \/ docs \cap interrupted # {}
<1>1. /\ at = "over" /\ \A n \in InScope : n <= node
      /\ report' = [exit |-> ExitCode(definitive, others), docs |-> docs, passed |-> Passed(docs),
                    nodata |-> NoData(docs), unidirectional |-> Unidirectional(docs),
                    skipped |-> Skipped]
      /\ cut' = cut /\ deaf' = deaf /\ interrupted' = interrupted
  BY DEF GenerateReport, wireVars
<1>2. /\ report'.exit = ExitCode(definitive, others) /\ report'.docs = docs
      /\ report'.unidirectional = Unidirectional(docs)
  BY <1>1
<1>3. ASSUME report'.exit = 0 PROVE docs = InScope /\ cut = {} /\ deaf = {}
  <2>1. ~definitive /\ ~others
    BY <1>2, <1>3 DEF ExitCode
  <2>2. docs = InScope /\ InScope \cap interrupted = {}
    BY <2>1
  <2>3. failed = {}
    <3>1. ASSUME NEW f \in failed PROVE f[1][1] \in InScope
      BY <3>1 DEF ProbeInv, StateInv, Keys
    <3>. QED
      BY <2>1, <2>2, <3>1
  <2>4. ASSUME NEW d \in Edges PROVE d \notin cut /\ d \notin deaf
    <3>1. PICK n \in InScope : \E e \in Expected(n) : d = Edge(n, e)
      BY DEF Edges
    <3>2. PICK e \in Expected(n) : d = Edge(n, e)
      BY <3>1
    <3>3. Found(n, e)
      BY <1>1, <2>2, AllFound
    <3>. QED
      BY <2>3, <3>2, <3>3 DEF Found
  <2>. QED
    BY <2>2, <2>4 DEF ProbeInv, StateInv
<1>4. CleanMeansConnected'
  BY <1>1, <1>2, <1>3 DEF CleanMeansConnected
<1>5. ASSUME NEW p \in Unidirectional(docs), p[2] \in docs, p[2] \notin interrupted,
             NEW s \in On[p[2]] \cap Addressed[p[1]]
      PROVE  FALSE
  <2>1. /\ p[1] \in InScope /\ p[2] \in InScope /\ {p[1], p[2]} \in ExpectedEdges
        /\ Direction(docs, p[2], p[1]) = "nodata"
    BY DEF Unidirectional, Passed, Judged
  <2>2. p[1] # p[2]
    <3>1. Cardinality({p[1], p[2]}) = 2
      BY <2>1 DEF ExpectedEdges, kSubset
    <3>2. Cardinality({p[1]}) = 1
      BY FS_Singleton
    <3>3. ASSUME p[1] = p[2] PROVE FALSE
      <4>1. {p[1], p[2]} = {p[1]}
        BY <3>3
      <4>. QED
        BY <3>1, <3>2, <4>1
    <3>. QED
      BY <3>3
  <2>3. Allowed(p[2], p[1])
    BY <2>1, <2>2 DEF ExpectedEdges
  <2>4. s \in Segments
    BY <2>1, SegmentsAssumption, NodesAssumption
  <2>5. <<s, p[1]>> \in Expected(p[2])
    BY <2>1, <2>2, <2>3, <2>4 DEF Expected
  <2>6. Found(p[2], <<s, p[1]>>)
    BY <1>1, <1>5, <2>1, <2>5, AllFound
  <2>7. Direction(docs, p[2], <<s, p[1]>>[2]) # "nodata"
    BY <1>5, <2>6, FoundIsData
  <2>. QED
    BY <2>1, <2>7
<1>6. UnidirectionalMeansCutShort'
  BY <1>1, <1>2, <1>5 DEF UnidirectionalMeansCutShort
<1>7. report'.exit \in 0 .. 2
  BY <1>2 DEF ExitCode
<1>. QED
  BY <1>4, <1>6, <1>7 DEF Sound

\* No step follows the report.
LEMMA NextReport == ProbeInv /\ ReportInv /\ [Next]_vlanVars => ReportInv'
<1> SUFFICES ASSUME ProbeInv, ReportInv, [Next]_vlanVars PROVE ReportInv'
  OBVIOUS
<1>1. CASE Reported
  <2>1. at = "over" /\ \A n \in InScope : n <= node
    BY <1>1 DEF ReportInv
  <2>2. {n \in InScope : n > node} = {}
    <3>1. node \in Nat
      BY NodesAssumption DEF ProbeInv, StateInv
    <3>2. ASSUME NEW n \in InScope PROVE ~(n > node)
      <4>1. n \in Nat /\ n <= node
        BY <2>1, <3>2, NodesAssumption
      <4>. QED
        BY <3>1, <4>1
    <3>. QED
      BY <3>2
  <2>3. UNCHANGED vlanVars
    BY <1>1, <2>1, <2>2 DEF Next, StartCapture, SpawnArping, ReapSweep, WindowCloses, WaitForSweep,
       FlushAfterSweeps, Classify, StartPing, PingEnds, Complete, Interrupt, GraceEnds, NextNode,
       GenerateReport, Reported
  <2>. QED
    BY <1>1, <2>3 DEF vlanVars, wireVars, passVars, ReportInv, Reported, Sound,
       CleanMeansConnected, UnidirectionalMeansCutShort
<1>2. CASE ~Reported
  <2>1. ASSUME NEW docs \in SUBSET InScope, GenerateReport(docs) PROVE ReportInv'
    <3>1. at' = at /\ node' = node /\ at = "over" /\ \A n \in InScope : n <= node
      BY <2>1 DEF GenerateReport, passVars
    <3>. QED
      BY <2>1, <3>1, ReportSound DEF ReportInv
  <2>2. ASSUME ~(\E docs \in SUBSET InScope : GenerateReport(docs)) PROVE ReportInv'
    <3>1. report' = report
      BY <2>2 DEF Next, StartCapture, SpawnArping, ReapSweep, WindowCloses, WaitForSweep,
         FlushAfterSweeps, Classify, StartPing, PingEnds, Complete, Interrupt, GraceEnds, NextNode,
         vlanVars
    <3>. QED
      BY <1>2, <3>1 DEF ReportInv, Reported
  <2>. QED
    BY <2>1, <2>2
<1>. QED
  BY <1>1, <1>2

\* Both always hold.
LEMMA AlwaysSound == Spec => [](ProbeInv /\ ReportInv)
<1>1. Init => ProbeInv /\ ReportInv
  BY InitProbe
<1>2. ProbeInv /\ ReportInv /\ [Next]_vlanVars => (ProbeInv /\ ReportInv)'
  BY NextProbe, NextReport
<1>. QED
  BY <1>1, <1>2, PTL DEF Spec

-----------------------------------------------------------------------------
\* A definitive finding is about the wire: not about the sweeps or pings an
\* interruption ended, but for the one ping child of a machine without raw
\* sockets, and about lost replies only if every sweep lost one
\* (vlan_neighbor_validator.py:266-273, 330-336, 442-444).
THEOREM FindingsAreAboutTheWire == Spec => []DefinitiveIsTrue
<1>1. ProbeInv /\ ReportInv => DefinitiveIsTrue
  BY DEF ProbeInv
<1>. QED
  BY <1>1, AlwaysSound, PTL

\* A clean exit vouches for every adjacency under test.
THEOREM CleanExitConnects == Spec => []CleanMeansConnected
<1>1. ProbeInv /\ ReportInv => CleanMeansConnected
  BY DEF ReportInv, Sound, CleanMeansConnected
<1>. QED
  BY <1>1, AlwaysSound, PTL

\* A one-sided observation is warned of only when the other side's probe was
\* cut short or its peer has no address (report_generator.py:132-145).
THEOREM OneSidedIsCutShort == Spec => []UnidirectionalMeansCutShort
<1>1. ProbeInv /\ ReportInv => UnidirectionalMeansCutShort
  BY DEF ReportInv, Sound, UnidirectionalMeansCutShort
<1>. QED
  BY <1>1, AlwaysSound, PTL

\* Types: a run sends and hears only what it attempted, attempts only expected
\* peers, and stays within its sweeps and its lost replies.
THEOREM VlanTypeCorrect == Spec => []TypeOK
<1>1. ASSUME StateInv PROVE lost \in 0 .. MaxTroubles /\ sweep \in 0 .. MaxSweeps
  <2>1. IsFiniteSet(cut) /\ IsFiniteSet(deaf)
    BY <1>1, Finite, FS_Subset DEF StateInv
  <2>2. Cardinality(cut) \in Nat /\ Cardinality(deaf) \in Nat
    BY <2>1, FS_CardinalityType
  <2>3. lost <= MaxTroubles
    BY <1>1, <2>2, VlanBounds DEF StateInv, Troubles
  <2>4. lost \in 0 .. MaxTroubles
    BY <1>1, <2>3, VlanBounds DEF StateInv
  <2>5. sweep \in 0 .. MaxSweeps
    BY <1>1, VlanBounds DEF StateInv
  <2>. QED
    BY <2>4, <2>5
<1>2. ProbeInv /\ ReportInv => TypeOK
  BY <1>1 DEF ProbeInv, StateInv, ReportInv, Sound, TypeOK
<1>. QED
  BY <1>2, AlwaysSound, PTL
=============================================================================
