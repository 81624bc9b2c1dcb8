--------------------------- MODULE VlanNeighbors ---------------------------
(***************************************************************************)
(* VLAN neighbours, from the wire to the exit code: each tested machine    *)
(* derives its expected peers from the topology, sweeps them with ARP      *)
(* while a capture window is open and pings them afterwards                *)
(* (src/charm/payload/vlan_neighbor_validator.py); the report compares the *)
(* two directions of every expected edge                                   *)
(* (src/cli/report_generator.py).                                          *)
(*                                                                         *)
(* Which adjacencies are broken is fixed at the start: in ARP (wrong VLAN, *)
(* cable) or in ICMP (which may be filtered, or routed around a broken     *)
(* segment).  A probe may be interrupted at any moment: from then on its   *)
(* children are killed, the arpings and, on a machine that may not open a  *)
(* raw socket, the ping it falls back to; a raw-socket ping runs to its    *)
(* end.  Machines share nothing while they probe, so they take turns.      *)
(***************************************************************************)
EXTENDS Naturals, FiniteSets, FiniteSetsExt

CONSTANTS
  Nodes,           \* machines of the topology, in its order
  InScope,         \* those under test
  Role, RackOf,    \* role and rack of each
  Segments,        \* pairs of fabric and VLAN tag
  On,              \* segments each machine has an interface on
  Addressed,       \* those on which its interface has an address
  Unprivileged,    \* machines that may not open a raw socket
  MaxSweeps,       \* ARP sweeps that fit into the capture window
  MaxTroubles,     \* bound: adjacencies broken, replies lost, documents missing
  MaxInterrupted   \* bound: machines whose probe is interrupted

ASSUME NodesAssumption ==
  /\ Nodes \subseteq Nat /\ IsFiniteSet(Nodes) /\ InScope \subseteq Nodes
  /\ Unprivileged \subseteq Nodes
  /\ Segments \subseteq Nat /\ IsFiniteSet(Segments)
ASSUME VlanBounds == MaxSweeps \in Nat \ {0} /\ MaxTroubles \in Nat /\ MaxInterrupted \in Nat
ASSUME SegmentsAssumption ==
  \A m \in Nodes : On[m] \subseteq Segments /\ Addressed[m] \subseteq On[m]

VARIABLES
  cut,         \* edges on which ARP is not answered
  deaf,        \* edges on which ICMP is not answered
  lost,        \* single ARP replies lost on edges that work
  node,        \* the machine that probes
  at,          \* where its vlan run is
  todo,        \* plan entries still to visit in this pass, <<segment, peer>>
  sweep,       \* sweeps begun
  sent,        \* entries of the sweep whose arping was spawned
  attempted,   \* entries attempted
  arped,       \* entries whose ARP was answered in some sweep
  interrupted, \* machines whose probe was interrupted
  complete,    \* machines whose validator_status is "complete"
  alien,       \* machines with a finding on a forbidden or unknown neighbour
  failed,      \* findings: <<<<machine, segment, peer>>, type>>
  observed,    \* expected-peer-observed: <<machine, segment, peer>>
  unattempted, \* expected-peer-unattempted: <<machine, segment, peer>>
  report       \* the report, once generated

wireVars == <<cut, deaf>>
passVars == <<node, at, todo, sweep, sent, attempted, arped>>
docVars == <<complete, alien, failed, observed, unattempted>>
vlanVars == <<wireVars, lost, passVars, interrupted, docVars, report>>

NoReport == [exit |-> 3]

-----------------------------------------------------------------------------
(* The plans, and the report's own view of them.                           *)

\* adjacency_allowed: a bmc-oam machine may only meet the rack controller of
\* its rack.
Allowed(a, b) ==
  \A p \in {<<a, b>>, <<b, a>>} :
    Role[p[1]] = "bmc-oam" => Role[p[2]] = "rack-controller" /\ RackOf[p[2]] = RackOf[p[1]]

\* Faulty form, for mutation: each pair is left to its first machine.
ExpectedAhead(n) ==
  {e \in Segments \X InScope :
     e[2] > n /\ Allowed(n, e[2]) /\ e[1] \in On[n] \cap Addressed[e[2]]}
\* derive_peer_sets: the entries a machine probes.
Expected(n) ==
  {e \in Segments \X InScope :
     e[2] # n /\ Allowed(n, e[2]) /\ e[1] \in On[n] \cap Addressed[e[2]]}

\* The entry a pass visits next: interface by interface, in the topology's order.
Upcoming(entries) ==
  LET segment == Min({e[1] : e \in entries})
  IN <<segment, Min({e[2] : e \in {d \in entries : d[1] = segment}})>>

\* _expected_l2_edges: pairs that share a segment, at least one in scope.
ExpectedEdges ==
  {e \in kSubset(2, Nodes) :
     /\ e \cap InScope # {}
     /\ \A a, b \in e : a # b => Allowed(a, b)
     /\ \E s \in Segments : \A a \in e : s \in On[a]}
Judged == {e \in ExpectedEdges : e \subseteq InScope}

Edge(n, entry) == <<entry[1], {n, entry[2]}>>
Edges == UNION {{Edge(n, e) : e \in Expected(n)} : n \in InScope}

-----------------------------------------------------------------------------
Interrupted == node \in interrupted
Troubles == Cardinality(cut) + Cardinality(deaf) + lost
Entries == Expected(node)
OfNode(entries) == {<<node, e[1], e[2]>> : e \in entries}

Init ==
  /\ cut \in SUBSET Edges /\ deaf \in SUBSET Edges
  /\ lost = 0 /\ Troubles <= MaxTroubles
  /\ node \in InScope /\ \A n \in InScope : node <= n
  /\ at = "begin" /\ todo = Entries /\ sweep = 0
  /\ sent = {} /\ attempted = {} /\ arped = {}
  /\ interrupted = {} /\ complete = {} /\ alien = {}
  /\ failed = {} /\ observed = {} /\ unattempted = {}
  /\ report = NoReport

\* _flush_unattempted and return.
Flush ==
  /\ at' = "over" /\ todo' = {}
  /\ unattempted' = unattempted \cup OfNode(Entries \ attempted)
  /\ UNCHANGED <<node, sweep, sent, attempted, arped, complete, alien, failed, observed>>

\* Before the capture starts.
StartCapture ==
  /\ at = "begin"
  /\ IF Interrupted
       THEN Flush
       ELSE /\ at' = "sweep" /\ sweep' = 1
            /\ UNCHANGED <<node, todo, sent, attempted, arped, docVars>>
  /\ UNCHANGED <<wireVars, lost, interrupted, report>>

\* Faulty form: an entry counts as attempted only once it was pinged.
SpawnUncounted ==
  /\ at = "sweep" /\ todo # {} /\ ~Interrupted
  /\ todo' = todo \ {Upcoming(todo)}
  /\ sent' = sent \cup {Upcoming(todo)}
  /\ UNCHANGED <<wireVars, lost, node, at, sweep, attempted, arped, interrupted, docVars, report>>
\* One arping of the sweep is spawned.
SpawnArping ==
  /\ at = "sweep" /\ todo # {} /\ ~Interrupted
  /\ todo' = todo \ {Upcoming(todo)}
  /\ sent' = sent \cup {Upcoming(todo)}
  /\ attempted' = attempted \cup {Upcoming(todo)}
  /\ UNCHANGED <<wireVars, lost, node, at, sweep, arped, interrupted, docVars, report>>

\* Faulty form: only the answers of the last sweep are kept.
ReapOverwrites(answered) == arped' = (arped \ sent) \cup answered
\* An entry answered in one sweep stays answered.
Reap(answered) == arped' = arped \cup answered

\* The sweep is reaped: what works answers, but for killed children and lost
\* replies.  An interruption noticed while spawning ends the loop; otherwise
\* the window closes, or the wait for the next sweep ends, interrupted or not.
ReapSweep ==
  LET working == {e \in sent : Edge(node, e) \notin cut}
  IN /\ at = "sweep" /\ (todo = {} \/ Interrupted)
     /\ \E answered \in SUBSET working :
          /\ lost' = IF Interrupted THEN lost ELSE lost + Cardinality(working \ answered)
          /\ Reap(answered)
     /\ at' = IF todo # {} THEN "flush" ELSE "window"
     /\ sent' = {} /\ todo' = Entries
     /\ UNCHANGED <<wireVars, node, sweep, attempted, interrupted, docVars, report>>
     /\ Troubles' <= MaxTroubles

\* The window closes without a look at the cancellation.
WindowCloses ==
  /\ at = "window" /\ sweep = MaxSweeps
  /\ at' = "classify"
  /\ UNCHANGED <<wireVars, lost, node, todo, sweep, sent, attempted, arped, interrupted,
                 docVars, report>>

WaitForSweep ==
  /\ at = "window" /\ sweep < MaxSweeps
  /\ IF Interrupted THEN at' = "flush" /\ UNCHANGED sweep ELSE at' = "sweep" /\ sweep' = sweep + 1
  /\ UNCHANGED <<wireVars, lost, node, todo, sent, attempted, arped, interrupted, docVars, report>>

\* The sweep loop was interrupted.
FlushAfterSweeps ==
  /\ at = "flush"
  /\ Flush
  /\ UNCHANGED <<wireVars, lost, interrupted, report>>

\* Faces in the capture: a forbidden or unknown neighbour may have transmitted.
Classify ==
  /\ at = "classify"
  /\ at' = "icmp"
  /\ \E heard \in SUBSET {node} : alien' = alien \cup heard
  /\ UNCHANGED <<wireVars, lost, node, todo, sweep, sent, attempted, arped, interrupted,
                 complete, failed, observed, unattempted, report>>

\* Faulty form: a peer that answered ARP need not answer the ping.
JudgeEither(entry, arp, icmp) ==
  LET key == <<node, entry[1], entry[2]>>
  IN /\ failed' = IF arp \/ icmp THEN failed ELSE failed \cup {<<key, "missing-l2-neighbor">>}
     /\ observed' = IF arp \/ icmp THEN observed \cup {key} ELSE observed
\* The findings and the observation on an entry that was pinged.
Judge(entry, arp, icmp) ==
  LET key == <<node, entry[1], entry[2]>>
      types == (IF arp THEN {} ELSE {"missing-l2-neighbor"})
               \cup (IF icmp THEN {} ELSE {"icmp-unreachable"})
  IN /\ failed' = failed \cup {<<key, t>> : t \in types}
     /\ observed' = IF arp \/ icmp THEN observed \cup {key} ELSE observed

\* Faulty form: the last pass goes on when interrupted, on the sweeps it has.
StartPingRegardless ==
  /\ at = "icmp" /\ todo # {}
  /\ at' = "ping" /\ attempted' = attempted \cup {Upcoming(todo)}
  /\ UNCHANGED <<node, todo, sweep, sent, arped, docVars>>
  /\ UNCHANGED <<wireVars, lost, interrupted, report>>
\* The last pass looks at the cancellation before each peer.
StartPing ==
  /\ at = "icmp" /\ todo # {}
  /\ IF Interrupted
       THEN Flush
       ELSE /\ at' = "ping" /\ attempted' = attempted \cup {Upcoming(todo)}
            /\ UNCHANGED <<node, todo, sweep, sent, arped, docVars>>
  /\ UNCHANGED <<wireVars, lost, interrupted, report>>

\* Whether a ping of the entry is answered.  A ping child that the interruption
\* killed has printed no statistics, which reads as 100% loss.
Answered(entry) ==
  IF Edge(node, entry) \in deaf THEN {FALSE}
  ELSE IF Interrupted /\ node \in Unprivileged THEN BOOLEAN ELSE {TRUE}

\* _icmp_probe returns; the entry is judged, interrupted or not.
PingEnds ==
  LET entry == Upcoming(todo)
  IN /\ at = "ping"
     /\ at' = "icmp" /\ todo' = todo \ {entry}
     /\ \E icmp \in Answered(entry) : Judge(entry, entry \in arped, icmp)
     /\ UNCHANGED <<node, sweep, sent, attempted, arped, complete, alien, unattempted>>
     /\ UNCHANGED <<wireVars, lost, interrupted, report>>

\* Every entry was pinged; an interruption after the last one goes unnoticed.
Complete ==
  /\ at = "icmp" /\ todo = {}
  /\ at' = "over"
  /\ complete' = complete \cup {node}
  /\ UNCHANGED <<wireVars, lost, node, todo, sweep, sent, attempted, arped, interrupted,
                 alien, failed, observed, unattempted, report>>

Interrupt ==
  /\ at # "over" /\ ~Interrupted
  /\ Cardinality(interrupted) < MaxInterrupted
  /\ interrupted' = interrupted \cup {node}
  /\ UNCHANGED <<wireVars, lost, passVars, docVars, report>>

\* The flush grace ends first: the document has what was recorded so far.
GraceEnds ==
  /\ Interrupted /\ at # "over"
  /\ at' = "over" /\ todo' = {}
  /\ UNCHANGED <<wireVars, lost, node, sweep, sent, attempted, arped, interrupted, docVars, report>>

\* The next machine under test probes.
NextNode ==
  LET rest == {n \in InScope : n > node}
  IN /\ at = "over" /\ rest # {}
     /\ node' = Min(rest)
     /\ at' = "begin" /\ todo' = Expected(node') /\ sweep' = 0
     /\ sent' = {} /\ attempted' = {} /\ arped' = {}
     /\ UNCHANGED <<wireVars, lost, interrupted, docVars, report>>

-----------------------------------------------------------------------------
(* The report on the documents of the machines in docs (by_sid).           *)

\* _vlan_direction_state: what n recorded of m, on whatever segment.
Direction(docs, n, m) ==
  CASE n \in docs /\ (\E f \in failed : f[1][1] = n /\ f[1][3] = m) -> "failed"
    [] n \in docs /\ (\A f \in failed : f[1][1] # n \/ f[1][3] # m)
         /\ (\E k \in observed : k[1] = n /\ k[3] = m) -> "confirmed"
    [] OTHER -> "nodata"

\* The states of both directions of an edge.
States(docs, e) == {Direction(docs, p[1], p[2]) : p \in {q \in e \X e : q[1] # q[2]}}

Passed(docs) ==
  {e \in Judged : "failed" \notin States(docs, e) /\ "confirmed" \in States(docs, e)}
\* Neither machine recorded the other.
NoData(docs) == {e \in Judged : States(docs, e) = {"nodata"}}
\* Pairs of a machine that recorded its peer and the peer that did not.
Unidirectional(docs) ==
  {p \in InScope \X InScope :
     /\ {p[1], p[2]} \in Passed(docs)
     /\ Direction(docs, p[1], p[2]) = "confirmed" /\ Direction(docs, p[2], p[1]) = "nodata"}
Skipped == ExpectedEdges \ Judged

\* exit_code of a report, by whether it has definitive failures, or others.
ExitCode(definitive, others) == IF definitive THEN 1 ELSE IF others THEN 2 ELSE 0

\* generate_report over the documents of docs: findings are definitive, a
\* machine without a document and an interrupted probe are noted.
GenerateReport(docs) ==
  LET definitive == docs \cap (alien \cup {f[1][1] : f \in failed}) # {}
      others == \/ NoData(docs) # {} \/ Unidirectional(docs) # {}
                \/ docs # InScope \/ docs \cap interrupted # {}
  IN /\ at = "over" /\ \A n \in InScope : n <= node
     /\ report = NoReport
     /\ Troubles + Cardinality(InScope \ docs) <= MaxTroubles
     /\ report' = [exit |-> ExitCode(definitive, others), docs |-> docs, passed |-> Passed(docs),
                   nodata |-> NoData(docs), unidirectional |-> Unidirectional(docs),
                   skipped |-> Skipped]
     /\ UNCHANGED <<wireVars, lost, passVars, interrupted, docVars>>

Next ==
  \/ StartCapture \/ SpawnArping \/ ReapSweep \/ WindowCloses \/ WaitForSweep
  \/ FlushAfterSweeps \/ Classify \/ StartPing \/ PingEnds \/ Complete
  \/ Interrupt \/ GraceEnds \/ NextNode
  \/ \E docs \in SUBSET InScope : GenerateReport(docs)

Spec == Init /\ [][Next]_vlanVars
Reported == report # NoReport

-----------------------------------------------------------------------------
Keys == InScope \X Segments \X InScope

TypeOK ==
  /\ cut \subseteq Edges /\ deaf \subseteq Edges /\ lost \in 0 .. MaxTroubles
  /\ node \in InScope
  /\ at \in {"begin", "sweep", "window", "flush", "classify", "icmp", "ping", "over"}
  /\ sweep \in 0 .. MaxSweeps
  /\ arped \subseteq attempted /\ sent \subseteq attempted /\ attempted \cup todo \subseteq Entries
  /\ complete \cup alien \cup interrupted \subseteq InScope
  /\ failed \subseteq Keys \X {"missing-l2-neighbor", "icmp-unreachable"}
  /\ observed \cup unattempted \subseteq Keys
  /\ Reported => report.exit \in 0 .. 2

\* Exit code 0 vouches for the segments: every machine reported, and wherever
\* a pair under test shares a segment on which one of the two has an address,
\* ARP and ICMP pass between them.
CleanMeansConnected ==
  Reported /\ report.exit = 0 =>
    /\ report.docs = InScope
    /\ cut = {} /\ deaf = {}

\* The segment between the two machines of a finding.
EdgeOf(f) == <<f[1][2], {f[1][1], f[1][3]}>>
\* Findings on a peer that does answer pings.
Untrue == {f \in failed : f[2] = "icmp-unreachable" /\ EdgeOf(f) \notin deaf}

\* A definitive finding on an expected peer is about the wire: not about the
\* sweeps an interruption killed, not about a single reply lost while the
\* sweeps repeat, and not about a ping (vlan_neighbor_validator.py:330-336,
\* 442-444), but for the one ping in progress at the interruption of a machine
\* that may not open a raw socket (lines 266-273).
DefinitiveIsTrue ==
  /\ \A f \in failed :
       f[2] = "missing-l2-neighbor" => EdgeOf(f) \in cut \/ lost >= MaxSweeps
  /\ \A f \in Untrue : f[1][1] \in Unprivileged \cap interrupted
  /\ \A f, g \in Untrue : f[1][1] = g[1][1] => f = g

\* A check that an interruption cut short is inconclusive, so a peer found
\* unreachable does not answer (README.md:157, "checks that could not be
\* completed (timeout, cancelled, ...)").
CutShortIsInconclusive == Untrue = {}

\* "Possible asymmetric path": the report warns of a machine that did not
\* record its peer only if that machine has no document or was interrupted,
\* or the peer has no address it could have been probed at.  A machine whose
\* probe ran to its end does record every peer, one way or the other
\* (report_generator.py:132-145).
UnidirectionalMeansCutShort ==
  Reported => \A p \in report.unidirectional :
    \/ p[2] \notin report.docs \/ p[2] \in interrupted
    \/ On[p[2]] \cap Addressed[p[1]] = {}
=============================================================================
