------------------------------ MODULE PathMtu ------------------------------
(***************************************************************************)
(* One path-MTU measurement of the payload                                 *)
(* (src/charm/payload/mtu_validator.py): DF pings of chosen sizes toward a *)
(* remote representative, through the machine's own interface and the hops *)
(* behind it.  The first hop that is too narrow drops the packet; it may   *)
(* report its MTU or be filtered.  The machine's own interface always      *)
(* reports.  From an interruption on every ping is killed: it fails        *)
(* without a report.                                                       *)
(***************************************************************************)
EXTENDS Naturals, Sequences, FiniteSets, FiniteSetsExt

CONSTANTS
  Mtus,        \* MTUs a hop may have
  LocalMtus,   \* MTUs the machine's interface may have
  Hops         \* number of hops behind the interface

ASSUME MtusAssumption == Mtus \subseteq Nat \ {0} /\ LocalMtus \subseteq Nat \ {0} /\ Hops \in Nat

VARIABLES
  mtu,          \* MTUs along the path, the machine's interface first
  reports,      \* whether each of them reports a packet it drops
  answers,      \* whether the target answers at all
  interrupted,  \* cancellation is set
  stage,        \* where the payload is: phase 1, or run and _measure_mtu
  low, high, best, iteration,  \* the binary search, in payload bytes
  result        \* the record: observed MTU and status

pathVars == <<mtu, reports, answers>>
searchVars == <<low, high, best, iteration>>
mtuVars == <<pathVars, interrupted, stage, searchVars, result>>

HeaderBytes == 28
StdPayload == 1472
JumboPayload == 8972
BinarySearchIterations == 5
Std == StdPayload + HeaderBytes
Jumbo == JumboPayload + HeaderBytes

Path == 1 .. Hops + 1
Resolution == (JumboPayload - StdPayload) \div 2^BinarySearchIterations + 1
NoRecord == [mtu |-> 0, status |-> "none"]

\* _ping_df: the packet, headers included, meets the hops in order.
Blockers(size) == {i \in Path : mtu[i] < size + HeaderBytes}
Passes(size) == ~interrupted /\ Blockers(size) = {} /\ answers
\* The reported MTU, 0 when there is no report.
Frag(size) ==
  IF interrupted \/ Blockers(size) = {} \/ ~reports[Min(Blockers(size))]
    THEN 0 ELSE mtu[Min(Blockers(size))]

PathMtus ==
  {f \in [Path -> Mtus \cup LocalMtus] :
     f[1] \in LocalMtus /\ \A i \in Path \ {1} : f[i] \in Mtus}
PathReports == {f \in [Path -> BOOLEAN] : f[1]}

\* Before a measurement and after it there is no path and no record.
OpenPath == [i \in Path |-> Jumbo]
AllReport == [i \in Path |-> TRUE]
NotMeasuring ==
  /\ mtu = OpenPath /\ reports = AllReport /\ answers = TRUE
  /\ low = StdPayload /\ high = JumboPayload /\ best = StdPayload /\ iteration = 0
  /\ result = NoRecord
EndMeasurement ==
  /\ mtu' = OpenPath /\ reports' = AllReport /\ answers' = TRUE
  /\ low' = StdPayload /\ high' = JumboPayload /\ best' = StdPayload /\ iteration' = 0
  /\ result' = NoRecord

\* The validator starts: a path to measure, and the locals of _measure_mtu.
BeginMeasurement ==
  /\ mtu' \in PathMtus /\ reports' \in PathReports /\ answers' \in BOOLEAN
  /\ low' = StdPayload /\ high' = JumboPayload /\ best' = StdPayload /\ iteration' = 0
  /\ stage' = "loop"
  /\ UNCHANGED <<interrupted, result>>

Goto(s) == stage' = s /\ UNCHANGED result
Return(bytes, status) == stage' = "done" /\ result' = [mtu |-> bytes, status |-> status]

\* Faulty form, for mutation: the status is made up.
TopOfLoopMislabelled ==
  /\ stage = "loop"
  /\ IF interrupted THEN Return(0, "unmeasured") ELSE Goto("standard")
  /\ UNCHANGED <<pathVars, interrupted, searchVars>>

\* Top of the loop over remote racks: an interrupted probe records its reason.
TopOfLoop ==
  /\ stage = "loop"
  /\ IF interrupted THEN Return(0, "interrupted") ELSE Goto("standard")
  /\ UNCHANGED <<pathVars, interrupted, searchVars>>

\* Faulty form: jumbo first; what it reports is the result.
StandardProbeSkipped ==
  /\ stage = "standard"
  /\ IF Frag(JumboPayload) > 0 THEN Return(Frag(JumboPayload), "success") ELSE Goto("jumbo")
  /\ UNCHANGED <<pathVars, interrupted, searchVars>>

StandardProbe ==
  /\ stage = "standard"
  /\ CASE Passes(StdPayload) -> Goto("jumbo")
       [] ~Passes(StdPayload) /\ Frag(StdPayload) > 0 -> Return(Frag(StdPayload), "success")
       [] OTHER -> Return(0, "inconclusive")
  /\ UNCHANGED <<pathVars, interrupted, searchVars>>

\* A report of at most the standard size is the own interface's.
JumboProbe ==
  /\ stage = "jumbo"
  /\ CASE Passes(JumboPayload) -> Return(Jumbo, "success")
       [] Frag(JumboPayload) > Std -> Return(Frag(JumboPayload), "success")
       [] Frag(JumboPayload) \in 1 .. Std -> Return(Std, "success")
       [] OTHER -> ~Passes(JumboPayload) /\ Goto("search")
  /\ UNCHANGED <<pathVars, interrupted, searchVars>>

\* Faulty form: a size that fails becomes the lower end.
NarrowSwapped(mid) == IF Passes(mid) THEN high' = mid /\ UNCHANGED <<best, low>>
                      ELSE best' = mid /\ low' = mid /\ UNCHANGED high
Narrow(mid) == IF Passes(mid) THEN best' = mid /\ low' = mid /\ UNCHANGED high
               ELSE high' = mid /\ UNCHANGED <<best, low>>

\* One halving, or the end of the search.
SearchStep ==
  LET mid == (low + high) \div 2
  IN /\ stage = "search"
     /\ IF iteration = BinarySearchIterations \/ mid <= low
          THEN Return(best + HeaderBytes, "success") /\ UNCHANGED searchVars
          ELSE IF ~Passes(mid) /\ Frag(mid) > Std
            THEN Return(Frag(mid), "success") /\ UNCHANGED searchVars
            ELSE /\ Narrow(mid)
                 /\ iteration' = iteration + 1
                 /\ Goto("search")
     /\ UNCHANGED <<pathVars, interrupted>>

Interrupt ==
  /\ stage # "done" /\ ~interrupted
  /\ interrupted' = TRUE
  /\ UNCHANGED <<pathVars, stage, searchVars, result>>

MeasureStep == TopOfLoop \/ StandardProbe \/ JumboProbe \/ SearchStep

-----------------------------------------------------------------------------
ActualMtu == Min({mtu[i] : i \in Path} \cup {Jumbo})
\* No hop reports for a narrower one that comes later: the first report is
\* then about the narrowest hop the packet can meet.  A hop of jumbo size drops
\* nothing, and what one of standard size reports is not believed of the path.
ReportsAreLast ==
  \A i, j \in Path :
    i < j /\ reports[i] /\ mtu[i] # Std /\ mtu[i] < Jumbo => mtu[i] <= mtu[j]
Measured == stage = "done" /\ result.status = "success"

MtuTypeOK ==
  /\ stage \in {"phase1", "loop", "standard", "jumbo", "search", "done"}
  /\ {low, high, best} \subseteq StdPayload .. JumboPayload
  /\ iteration \in 0 .. BinarySearchIterations
  /\ result.mtu \in 0 .. Jumbo
  /\ result.status \in {"none", "success", "inconclusive", "interrupted"}

\* A measured MTU is never more than the path carries, interrupted or not,
\* filtered or not: what it vouches for does pass (mtu_validator.py:63-109).
\* Uninterrupted, it is at most a binary-search resolution less: exact when
\* the bottleneck reports, within 235 bytes when ICMP errors are filtered.
\* The one exception is a hop that reports although a later one is narrower.
MeasuredIsClose ==
  Measured /\ ReportsAreLast =>
    /\ result.mtu <= ActualMtu
    /\ ~interrupted => ActualMtu < result.mtu + Resolution
=============================================================================
