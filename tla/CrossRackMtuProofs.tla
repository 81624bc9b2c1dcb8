------------------------- MODULE CrossRackMtuProofs -------------------------
(***************************************************************************)
(* Theorems about CrossRackMtu, for paths of any length over hops of any   *)
(* MTU, and bonds with any members and switches.                           *)
(*                                                                         *)
(* MtuInv is the argument of a binary search under packet loss: the lower  *)
(* end has passed, the upper end has not (unless an interruption killed    *)
(* the ping), and each halving halves their distance.  CaptureInv says     *)
(* that bonds are judged on what their ports say, all of it.  DocumentsInv *)
(* carries both over to the report.                                        *)
(***************************************************************************)
EXTENDS CrossRackMtu, WellFoundedInduction, FiniteSetTheorems, TLAPS

PathOK ==
  /\ mtu \in [Path -> Nat \ {0}] /\ reports \in [Path -> BOOLEAN]
  /\ answers \in BOOLEAN /\ interrupted \in BOOLEAN

\* How far apart the ends of the search may be after so many halvings.
Span(i, l, h) ==
  /\ i = 0 => h <= l + 7500
  /\ i = 1 => h <= l + 3750
  /\ i = 2 => h <= l + 1875
  /\ i = 3 => h <= l + 938
  /\ i = 4 => h <= l + 469
  /\ i = 5 => h <= l + 235

SearchOK ==
  /\ stage \in {"loop", "standard", "jumbo"} =>
       low = StdPayload /\ high = JumboPayload /\ best = StdPayload /\ iteration = 0
  /\ stage \in {"jumbo", "search"} => answers /\ Blockers(StdPayload) = {}
  /\ stage = "search" =>
       /\ best = low /\ low <= high /\ Span(iteration, low, high)
       /\ Blockers(low) = {}
       /\ ~interrupted => Blockers(high) # {}

MtuInv ==
  /\ MtuTypeOK /\ PathOK /\ SearchOK /\ MeasuredIsClose
  /\ stage # "done" => result = NoRecord

-----------------------------------------------------------------------------
\* A nonempty set of natural numbers has a least element, which Min returns.
LEMMA Least ==
  ASSUME NEW S \in SUBSET Nat, S # {}
  PROVE  Min(S) \in S /\ \A y \in S : Min(S) <= y
<1> DEFINE R == OpToRel(<, Nat)
<1>1. PICK x \in S : \A y \in S : ~ (<<y, x>> \in R)
  BY NatLessThanWellFounded, WFMin
<1>2. ASSUME NEW y \in S, y < x PROVE FALSE
  <2>1. <<y, x>> \in Nat \X Nat /\ <<y, x>>[1] < <<y, x>>[2]
    BY <1>2
  <2>2. <<y, x>> \in R
    BY <2>1, Zenon DEF OpToRel
  <2>. QED
    BY <1>1, <2>2
<1>3. \A y \in S : x <= y
  BY <1>2
<1>. QED
  BY <1>3 DEF Min

\* The sizes, and the distance at which the search ends.
LEMMA Sizes ==
  /\ Std = 1500 /\ Jumbo = 9000 /\ StdPayload = 1472 /\ JumboPayload = 8972 /\ HeaderBytes = 28
  /\ BinarySearchIterations = 5 /\ Resolution = 235
  BY DEF Std, Jumbo, StdPayload, JumboPayload, HeaderBytes, BinarySearchIterations, Resolution

\* A record of what the path carries is exact.
LEMMA Exact ==
  ASSUME NEW m \in Nat, NEW a \in Nat, m <= 9000
  PROVE  /\ m \in 0 .. Jumbo
         /\ m = a => m <= a /\ a < m + Resolution
<1>1. m \in 0 .. 9000 /\ (m = a => m <= a /\ a < m + 235)
  BY SMTT(30)
<1>. QED
  BY <1>1, Sizes

\* The variables of the search, with the sizes filled in.
SearchTypes ==
  /\ low \in 1472 .. 8972 /\ high \in 1472 .. 8972 /\ best \in 1472 .. 8972
  /\ iteration \in 0 .. 5

\* The record of a measurement.
RecordOK ==
  /\ result.mtu \in 0 .. Jumbo
  /\ result.status \in {"none", "success", "inconclusive", "interrupted"}

\* That is what the type invariant says of them.
LEMMA TypesOfSearch == MtuTypeOK => SearchTypes
<1> SUFFICES ASSUME MtuTypeOK PROVE SearchTypes
  OBVIOUS
<1>1. /\ low \in StdPayload .. JumboPayload /\ high \in StdPayload .. JumboPayload
      /\ best \in StdPayload .. JumboPayload
  BY DEF MtuTypeOK
<1>2. iteration \in 0 .. BinarySearchIterations
  BY Zenon DEF MtuTypeOK
<1>. QED
  BY <1>1, <1>2, Sizes, SMTT(30) DEF SearchTypes

\* And all it says, with the stage and the record.
LEMMA NextTypes ==
  ASSUME SearchTypes',
         stage' \in {"phase1", "loop", "standard", "jumbo", "search", "done"},
         RecordOK'
  PROVE  MtuTypeOK'
<1>1. /\ low' \in 1472 .. 8972 /\ high' \in 1472 .. 8972 /\ best' \in 1472 .. 8972
      /\ iteration' \in 0 .. 5
  BY SMTT(30) DEF SearchTypes
<1>2. /\ low' \in StdPayload .. JumboPayload /\ high' \in StdPayload .. JumboPayload
      /\ best' \in StdPayload .. JumboPayload
  BY <1>1, Sizes, SMTT(30)
<1>3. iteration' \in 0 .. BinarySearchIterations
  BY <1>1, Sizes, SMTT(30)
<1>4. {low', high', best'} \subseteq StdPayload .. JumboPayload
  BY <1>2
<1>. QED
  BY <1>3, <1>4, Zenon DEF MtuTypeOK, RecordOK

\* What is between two sizes is a size.
LEMMA Between ==
  ASSUME NEW l \in Nat, NEW h \in Nat, NEW m \in Nat, 1472 <= l, h <= 8972, l <= m, m <= h
  PROVE  m \in 1472 .. 8972
  BY SMTT(30)

\* A halving, rounded up, leads from one distance to the next.
LEMMA Halving ==
  ASSUME NEW l \in Nat, NEW h \in Nat, NEW l2 \in Nat, NEW h2 \in Nat, NEW i \in 0 .. 4,
         Span(i, l, h), 2 * h2 + l <= 2 * l2 + h + 1
  PROVE  Span(i + 1, l2, h2)
<1>1. CASE i = 0
  BY <1>1 DEF Span
<1>2. CASE i = 1
  BY <1>2 DEF Span
<1>3. CASE i = 2
  BY <1>3 DEF Span
<1>4. CASE i = 3
  BY <1>4 DEF Span
<1>5. CASE i = 4
  BY <1>5 DEF Span
<1>. QED
  BY <1>1, <1>2, <1>3, <1>4, <1>5

\* What a path carries is the MTU of its narrowest hop, and at most jumbo.
LEMMA Narrowest ==
  ASSUME PathOK
  PROVE  /\ ActualMtu \in Nat /\ ActualMtu <= Jumbo
         /\ \A i \in Path : ActualMtu <= mtu[i]
         /\ ActualMtu = Jumbo \/ \E i \in Path : ActualMtu = mtu[i]
<1> DEFINE S == {mtu[i] : i \in Path} \cup {Jumbo}
<1>1. S \in SUBSET Nat /\ S # {}
  BY Sizes DEF PathOK
<1>2. Min(S) \in S /\ \A y \in S : Min(S) <= y
  BY <1>1, Least
<1>. QED
  BY <1>1, <1>2 DEF ActualMtu

\* A payload that no hop blocks fits the path, one that some hop blocks does not.
LEMMA Fit ==
  ASSUME PathOK, NEW p \in Nat
  PROVE  /\ Blockers(p) = {} /\ p <= JumboPayload => p + HeaderBytes <= ActualMtu
         /\ Blockers(p) # {} => ActualMtu < p + HeaderBytes
<1>1. Path \subseteq Nat /\ \A i \in Path : mtu[i] \in Nat
  BY MtusAssumption DEF Path, PathOK
<1>2. ActualMtu \in Nat /\ \A i \in Path : ActualMtu <= mtu[i]
  BY Narrowest
<1>3. ASSUME Blockers(p) = {}, p <= JumboPayload PROVE p + HeaderBytes <= ActualMtu
  <2>1. \A i \in Path : p + HeaderBytes <= mtu[i]
    BY <1>1, <1>3, Sizes DEF Blockers
  <2>2. ActualMtu = Jumbo \/ \E i \in Path : ActualMtu = mtu[i]
    BY Narrowest
  <2>. QED
    BY <1>3, <2>1, <2>2, Sizes
<1>4. ASSUME Blockers(p) # {} PROVE ActualMtu < p + HeaderBytes
  <2>1. PICK i \in Path : mtu[i] < p + HeaderBytes
    BY <1>4 DEF Blockers
  <2>. QED
    BY <1>1, <1>2, <2>1, Sizes
<1>. QED
  BY <1>3, <1>4

\* A report names an MTU too small for the packet, and when reports are last,
\* unless it names the standard size, it names what the path carries.
LEMMA Reported ==
  ASSUME PathOK, NEW p \in Nat, p <= JumboPayload
  PROVE  /\ Frag(p) \in Nat
         /\ Frag(p) > 0 => /\ ~interrupted /\ Frag(p) < p + HeaderBytes
                           /\ \E i \in Path : Frag(p) = mtu[i]
                           /\ ReportsAreLast /\ Frag(p) # Std => Frag(p) = ActualMtu
<1> DEFINE k == Min(Blockers(p))
<1>0. Path \in SUBSET Nat /\ \A i \in Path : mtu[i] \in Nat
  BY MtusAssumption DEF Path, PathOK
<1>1. CASE interrupted \/ Blockers(p) = {} \/ ~reports[k]
  BY <1>1 DEF Frag
<1>2. CASE ~(interrupted \/ Blockers(p) = {} \/ ~reports[k])
  <2>1. Blockers(p) \in SUBSET Nat /\ Blockers(p) \subseteq Path
    BY <1>0 DEF Blockers
  <2>2. k \in Blockers(p) /\ \A j \in Blockers(p) : k <= j
    BY <1>2, <2>1, Least
  <2>3. k \in Path /\ k \in Nat /\ mtu[k] < p + HeaderBytes /\ Frag(p) = mtu[k]
    BY <1>2, <2>1, <2>2 DEF Frag, Blockers
  <2> HIDE DEF k
  <2>4. ASSUME ReportsAreLast, mtu[k] # Std, NEW j \in Path PROVE mtu[k] <= mtu[j]
    <3>1. CASE j \notin Blockers(p)
      BY <1>0, <2>3, <3>1, Sizes DEF Blockers
    <3>2. CASE j \in Blockers(p)
      <4>1. k <= j /\ j \in Nat /\ reports[k] /\ mtu[k] < Jumbo
        BY <1>0, <1>2, <2>2, <2>3, <3>2, Sizes DEF k
      <4>. QED
        BY <1>0, <2>3, <2>4, <4>1 DEF ReportsAreLast
    <3>. QED
      BY <3>1, <3>2
  <2>5. mtu[k] < Jumbo
    BY <1>0, <2>3, Sizes
  <2>6. ReportsAreLast /\ mtu[k] # Std => mtu[k] = ActualMtu
    BY <1>0, <2>3, <2>4, <2>5, Narrowest, Sizes
  <2>. QED
    BY <1>0, <1>2, <2>3, <2>6
<1>. QED
  BY <1>1, <1>2

-----------------------------------------------------------------------------
\* A step of the measurement leaves its path alone.
LEMMA PathKept ==
  ASSUME MtuInv, UNCHANGED pathVars
  PROVE  /\ ActualMtu' = ActualMtu /\ (ReportsAreLast' <=> ReportsAreLast)
         /\ \A p : Blockers(p)' = Blockers(p)
         /\ interrupted' \in BOOLEAN => PathOK'
  BY DEF pathVars, ActualMtu, ReportsAreLast, Blockers, MtuInv, PathOK

\* One step of _measure_mtu: each return is within the resolution of the path,
\* and each halving keeps a passing lower and a failing upper end.
LEMMA NextMeasure == MtuInv /\ MeasureStep => MtuInv'
<1> SUFFICES ASSUME MtuInv, MeasureStep PROVE MtuInv'
  OBVIOUS
<1>0. UNCHANGED pathVars /\ interrupted' = interrupted /\ stage # "done" /\ result = NoRecord
  BY DEF MeasureStep, TopOfLoop, StandardProbe, JumboProbe, SearchStep, MtuInv
<1>1. /\ ActualMtu' = ActualMtu /\ (ReportsAreLast' <=> ReportsAreLast)
      /\ \A p : Blockers(p)' = Blockers(p)
      /\ PathOK /\ PathOK' /\ ActualMtu \in Nat
  BY <1>0, PathKept, Narrowest DEF MtuInv, PathOK
<1>2. SearchTypes
  BY TypesOfSearch DEF MtuInv
<1>11. result' = result => RecordOK' /\ result'.status # "success"
  BY <1>0, Sizes DEF RecordOK, NoRecord
\* The record and the ends of the search stay.
<1>10. ASSUME UNCHANGED <<result, searchVars>>, stage' \in {"standard", "jumbo", "search"}
       PROVE  MtuTypeOK'
  <2>1. SearchTypes'
    BY <1>2, <1>10, SMTT(30) DEF SearchTypes, searchVars
  <2>. QED
    BY <1>10, <1>11, <2>1, NextTypes
\* A return with a record.
<1>3. ASSUME NEW m \in 0 .. Jumbo, NEW s \in {"success", "inconclusive", "interrupted"},
             Return(m, s), UNCHANGED searchVars,
             s = "success" /\ ReportsAreLast =>
               m <= ActualMtu /\ (~interrupted => ActualMtu < m + Resolution)
      PROVE  MtuInv'
  <2>1. stage' = "done" /\ result'.mtu = m /\ result'.status = s
    BY <1>3 DEF Return
  <2>2. MtuTypeOK'
    <3>1. SearchTypes'
      BY <1>2, <1>3, SMTT(30) DEF SearchTypes, searchVars
    <3>2. RecordOK'
      BY <1>3, <2>1 DEF RecordOK
    <3>. QED
      BY <2>1, <3>1, <3>2, NextTypes
  <2>3. MeasuredIsClose'
    BY <1>0, <1>1, <1>3, <2>1 DEF MeasuredIsClose, Measured, Resolution
  <2>. QED
    BY <1>1, <2>1, <2>2, <2>3 DEF MtuInv, SearchOK
<1>4. CASE TopOfLoop
  <2>1. CASE interrupted
    BY <1>3, <1>4, <2>1, Sizes, SMTT(30) DEF TopOfLoop
  <2>2. CASE ~interrupted
    <3>1. stage = "loop" /\ stage' = "standard" /\ UNCHANGED <<result, searchVars>>
      BY <1>4, <2>2 DEF TopOfLoop, Goto
    <3>2. MtuTypeOK'
      BY <1>10, <3>1
    <3>3. SearchOK'
      BY <3>1 DEF MtuInv, SearchOK, searchVars
    <3>. QED
      BY <1>0, <1>1, <3>1, <3>2, <3>3 DEF MtuInv, MeasuredIsClose, Measured
  <2>. QED
    BY <2>1, <2>2
<1>5. CASE StandardProbe
  <2>0. stage = "standard" /\ UNCHANGED searchVars
    BY <1>5 DEF StandardProbe
  <2>1. CASE Passes(StdPayload)
    <3>1. stage' = "jumbo" /\ UNCHANGED result /\ Blockers(StdPayload) = {} /\ answers
      BY <1>5, <2>1 DEF StandardProbe, Goto, Passes
    <3>2. low = StdPayload /\ high = JumboPayload /\ best = StdPayload /\ iteration = 0
      BY <2>0 DEF MtuInv, SearchOK
    <3>3. MtuTypeOK'
      BY <1>10, <2>0, <3>1
    <3>4. SearchOK'
      BY <1>0, <1>1, <2>0, <3>1, <3>2 DEF SearchOK, searchVars, pathVars
    <3>. QED
      BY <1>0, <1>1, <3>1, <3>3, <3>4 DEF MtuInv, MeasuredIsClose, Measured
  <2>2. CASE ~Passes(StdPayload) /\ Frag(StdPayload) > 0
    <3>1. Return(Frag(StdPayload), "success")
      BY <1>5, <2>2 DEF StandardProbe
    <3>2. /\ Frag(StdPayload) \in Nat /\ Frag(StdPayload) < Std
          /\ ReportsAreLast => Frag(StdPayload) = ActualMtu
      BY <1>1, <2>2, Reported, Sizes
    <3>3. /\ Frag(StdPayload) \in 0 .. Jumbo
          /\ ReportsAreLast => /\ Frag(StdPayload) <= ActualMtu
                               /\ ActualMtu < Frag(StdPayload) + Resolution
      <4>1. Frag(StdPayload) <= 9000
        BY <3>2, Sizes
      <4>. QED
        BY <1>1, <3>2, <4>1, Exact
    <3>. QED
      BY <1>3, <2>0, <3>1, <3>3
  <2>3. CASE ~Passes(StdPayload) /\ ~(Frag(StdPayload) > 0)
    <3>1. Return(0, "inconclusive")
      BY <1>5, <2>3 DEF StandardProbe
    <3>2. 0 \in 0 .. Jumbo
      BY Sizes
    <3>3. "inconclusive" # "success"
      OBVIOUS
    <3>. QED
      BY <1>3, <2>0, <3>1, <3>2, <3>3
  <2>. QED
    BY <2>1, <2>2, <2>3
<1>6. CASE JumboProbe
  <2>0. stage = "jumbo" /\ UNCHANGED searchVars /\ answers /\ Blockers(StdPayload) = {}
    BY <1>6 DEF JumboProbe, MtuInv, SearchOK
  <2>1. /\ Frag(JumboPayload) \in Nat
        /\ Frag(JumboPayload) > 0 =>
             /\ Frag(JumboPayload) < Jumbo /\ \E i \in Path : Frag(JumboPayload) = mtu[i]
             /\ ReportsAreLast /\ Frag(JumboPayload) # Std => Frag(JumboPayload) = ActualMtu
    BY <1>1, Reported, Sizes
  <2>2. CASE Passes(JumboPayload) /\ Return(Jumbo, "success")
    <3>1. Jumbo <= ActualMtu
      BY <1>1, <2>2, Fit, Sizes DEF Passes
    <3>2. ActualMtu <= Jumbo
      BY <1>1, Narrowest
    <3>3. Jumbo \in 0 .. Jumbo /\ Jumbo <= ActualMtu /\ ActualMtu < Jumbo + Resolution
      BY <1>1, <3>1, <3>2, Sizes
    <3>. QED
      BY <1>3, <2>0, <2>2, <3>3
  <2>3. CASE Frag(JumboPayload) > Std /\ Return(Frag(JumboPayload), "success")
    <3>1. /\ Frag(JumboPayload) \in 0 .. Jumbo
          /\ ReportsAreLast => /\ Frag(JumboPayload) <= ActualMtu
                               /\ ActualMtu < Frag(JumboPayload) + Resolution
      <4>1. ReportsAreLast => Frag(JumboPayload) = ActualMtu
        BY <2>1, <2>3, Sizes
      <4>2. Frag(JumboPayload) \in Nat /\ Frag(JumboPayload) <= 9000
        BY <2>1, <2>3, Sizes
      <4>. QED
        BY <1>1, <4>1, <4>2, Exact
    <3>. QED
      BY <1>3, <2>0, <2>3, <3>1
  <2>4. CASE Frag(JumboPayload) \in 1 .. Std /\ Return(Std, "success")
    <3>1. Std <= ActualMtu
      BY <1>1, <2>0, Fit, Sizes
    <3>2. PICK i \in Path : Frag(JumboPayload) = mtu[i]
      BY <2>1, <2>4
    <3>3. ActualMtu <= mtu[i] /\ mtu[i] \in Nat /\ mtu[i] <= Std
      <4>1. mtu[i] \in Nat /\ ActualMtu <= mtu[i]
        BY <1>1, Narrowest DEF PathOK
      <4>. QED
        BY <2>4, <3>2, <4>1, Sizes, SMTT(30)
    <3>4. ActualMtu = Std
      BY <1>1, <3>1, <3>3, Sizes
    <3>. QED
      BY <1>1, <1>3, <2>0, <2>4, <3>4, Sizes, SMTT(30)
  <2>5. CASE ~Passes(JumboPayload) /\ Goto("search")
    <3>1. stage' = "search" /\ UNCHANGED result
      BY <2>5 DEF Goto
    <3>2. ~interrupted => Blockers(JumboPayload) # {}
      BY <2>0, <2>5 DEF Passes
    <3>3. low = StdPayload /\ high = JumboPayload /\ best = StdPayload /\ iteration = 0
      BY <2>0 DEF MtuInv, SearchOK
    <3>4. Span(iteration', low', high')
      BY <2>0, <3>3, Sizes DEF Span, searchVars
    <3>5. MtuTypeOK'
      BY <1>10, <2>0, <3>1
    <3>6. Blockers(low)' = {} /\ (~interrupted' => Blockers(high)' # {})
      BY <1>0, <2>0, <3>2, <3>3 DEF Blockers, pathVars, searchVars
    <3>7. answers' /\ Blockers(StdPayload)' = {}
      BY <1>0, <1>1, <2>0 DEF pathVars
    <3>8. best' = low' /\ low' <= high'
      BY <2>0, <3>3, Sizes DEF searchVars
    <3>9. SearchOK'
      BY <3>1, <3>4, <3>6, <3>7, <3>8 DEF SearchOK
    <3>. QED
      BY <1>0, <1>1, <3>1, <3>5, <3>9 DEF MtuInv, MeasuredIsClose, Measured
  <2>. QED
    BY <1>6, <2>1, <2>2, <2>3, <2>4, <2>5, Sizes DEF JumboProbe
<1>7. CASE SearchStep
  <2> DEFINE mid == (low + high) \div 2
  <2>0. /\ stage = "search" /\ best = low /\ low <= high /\ Span(iteration, low, high) /\ answers
        /\ Blockers(low) = {} /\ (~interrupted => Blockers(high) # {})
        /\ Blockers(StdPayload) = {}
    BY <1>7 DEF SearchStep, MtuInv, SearchOK
  <2>7. /\ low \in Nat /\ high \in Nat /\ low <= high
        /\ 1472 <= low /\ low <= 8972 /\ 1472 <= high /\ high <= 8972
    BY <1>2, <2>0, SMTT(30) DEF SearchTypes
  <2>8. mid \in Nat /\ 2 * mid <= low + high /\ low + high <= 2 * mid + 1
    BY <2>7
  <2>9. low <= mid /\ mid <= high
    BY <2>7, <2>8
  <2> HIDE DEF mid
  <2>10. low \in 1472 .. 8972
    BY <2>7
  <2>11. high \in 1472 .. 8972
    BY <2>7
  <2>12. mid \in 1472 .. 8972
    BY <2>7, <2>8, <2>9, Between, SMTT(30)
  <2>1. /\ low \in 1472 .. 8972 /\ high \in 1472 .. 8972 /\ mid \in 1472 .. 8972
        /\ mid \in Nat /\ low <= mid /\ mid <= high
        /\ 2 * mid <= low + high /\ low + high <= 2 * mid + 1
    BY <2>8, <2>9, <2>10, <2>11, <2>12, SMTT(30)
  <2>2. /\ low + HeaderBytes <= ActualMtu
        /\ ~interrupted => ActualMtu < high + HeaderBytes
    <3>1. low \in Nat /\ high \in Nat /\ low <= JumboPayload
      BY <2>1, Sizes
    <3>. QED
      BY <1>1, <2>0, <3>1, Fit
  <2>3. /\ Frag(mid) \in Nat
        /\ Frag(mid) > 0 => Frag(mid) < mid + HeaderBytes
        /\ Frag(mid) > Std /\ ReportsAreLast => Frag(mid) = ActualMtu
    BY <1>1, <2>1, Reported, Sizes, SMTT(30)
  <2>4. CASE (iteration = BinarySearchIterations \/ mid <= low)
             /\ Return(best + HeaderBytes, "success") /\ UNCHANGED searchVars
    <3>1. high <= low + 235
      BY <2>0, <2>1, <2>4, Sizes, SMTT(30) DEF Span
    <3>2. best + HeaderBytes \in 0 .. Jumbo
      BY <2>0, <2>1, Sizes, SMTT(30)
    <3>3. ~interrupted => ActualMtu < (best + HeaderBytes) + Resolution
      BY <1>1, <2>0, <2>1, <2>2, <3>1, Sizes, SMTT(30)
    <3>. QED
      BY <1>3, <2>0, <2>2, <2>4, <3>2, <3>3
  <2>5. CASE ~Passes(mid) /\ Frag(mid) > Std
             /\ Return(Frag(mid), "success") /\ UNCHANGED searchVars
    <3>1. /\ Frag(mid) \in 0 .. Jumbo
          /\ ReportsAreLast => Frag(mid) <= ActualMtu /\ ActualMtu < Frag(mid) + Resolution
      <4>1. ReportsAreLast => Frag(mid) = ActualMtu
        BY <2>3, <2>5
      <4>2. Frag(mid) \in Nat /\ Frag(mid) <= 9000
        <5>1. mid + HeaderBytes <= 9000
          BY <2>1, Sizes
        <5>2. Frag(mid) > 0
          BY <2>3, <2>5, Sizes
        <5>. QED
          BY <2>1, <2>3, <5>1, <5>2, Sizes
      <4>. QED
        BY <1>1, <4>1, <4>2, Exact
    <3>. QED
      BY <1>3, <2>5, <3>1
  <2>6. CASE /\ ~(iteration = BinarySearchIterations \/ mid <= low)
             /\ Narrow(mid) /\ iteration' = iteration + 1 /\ Goto("search")
    <3>0. stage' = "search" /\ UNCHANGED <<result, pathVars>>
      BY <1>0, <2>6 DEF Goto
    <3>1. iteration \in 0 .. 4 /\ iteration' = iteration + 1
      BY <1>2, <2>6, Sizes DEF SearchTypes
    <3>2. \/ Passes(mid) /\ best' = mid /\ low' = mid /\ high' = high
          \/ ~Passes(mid) /\ high' = mid /\ best' = best /\ low' = low
      BY <2>6 DEF Narrow
    <3>3. high' - low' <= high - mid \/ high' - low' <= mid - low
      BY <2>1, <3>2, SMTT(30)
    <3>4. Span(iteration', low', high')
      <4>1. /\ low' \in Nat /\ high' \in Nat /\ low \in Nat /\ high \in Nat
            /\ 2 * high' + low <= 2 * low' + high + 1
        BY <2>1, <3>2
      <4>. QED
        BY <2>0, <3>1, <4>1, Halving
    <3>5. Passes(mid) => Blockers(mid) = {}
      BY DEF Passes
    <3>6. ~Passes(mid) /\ ~interrupted => Blockers(mid) # {}
      BY <2>0 DEF Passes
    <3>7. /\ best' = low' /\ low' <= high'
          /\ \E p : low' = p /\ Blockers(p) = {}
          /\ ~interrupted => \E p : high' = p /\ Blockers(p) # {}
      BY <2>0, <2>1, <3>2, <3>5, <3>6, SMTT(30)
    <3>11. Blockers(low)' = {} /\ (~interrupted' => Blockers(high)' # {})
      BY <1>0, <3>0, <3>7 DEF Blockers, pathVars
    <3>8. low' \in 1472 .. 8972 /\ high' \in 1472 .. 8972 /\ best' \in 1472 .. 8972
      <4>1. low' \in {low, mid} /\ high' \in {high, mid} /\ best' \in {low, mid}
        BY <2>0, <3>2
      <4> DEFINE Payloads == 1472 .. 8972
      <4>2. low \in Payloads /\ high \in Payloads /\ mid \in Payloads
        BY <2>10, <2>11, <2>12, SMTT(30)
      <4> HIDE DEF Payloads
      <4>3. low' \in Payloads /\ high' \in Payloads /\ best' \in Payloads
        BY <4>1, <4>2
      <4>. QED
        BY <4>3, SMTT(30) DEF Payloads
    <3>9. MtuTypeOK'
      <4>1. SearchTypes'
        BY <3>1, <3>8, SMTT(30) DEF SearchTypes
      <4>. QED
        BY <1>11, <3>0, <4>1, NextTypes
    <3>10. SearchOK'
      <4>1. answers' /\ Blockers(StdPayload)' = {}
        BY <1>1, <2>0, <3>0 DEF pathVars
      <4>. QED
        BY <3>0, <3>4, <3>7, <3>11, <4>1 DEF SearchOK
    <3>. QED
      BY <1>0, <1>1, <3>0, <3>9, <3>10 DEF MtuInv, MeasuredIsClose, Measured
  <2>. QED
    BY <1>7, <2>4, <2>5, <2>6 DEF SearchStep, mid
<1>. QED
  BY <1>4, <1>5, <1>6, <1>7 DEF MeasureStep
-----------------------------------------------------------------------------
\* Nothing of the measurement changes.
LEMMA StutterMeasure == MtuInv /\ UNCHANGED mtuVars => MtuInv'
<1> SUFFICES ASSUME MtuInv, UNCHANGED mtuVars PROVE MtuInv'
  OBVIOUS
<1>1. UNCHANGED <<pathVars, interrupted, stage, searchVars, result>>
  BY DEF mtuVars
<1>2. MtuTypeOK' /\ PathOK' /\ SearchOK'
  BY <1>1 DEF MtuInv, MtuTypeOK, PathOK, SearchOK, Blockers, Span, pathVars, searchVars
<1>3. MeasuredIsClose' /\ (stage' # "done" => result' = NoRecord)
  BY <1>1 DEF MtuInv, MeasuredIsClose, Measured, ReportsAreLast, ActualMtu, pathVars
<1>. QED
  BY <1>2, <1>3 DEF MtuInv

\* The search starts from both ends, and ends there.
LEMMA FreshTypes ==
  ASSUME low' = StdPayload, high' = JumboPayload, best' = StdPayload, iteration' = 0,
         stage' \in {"phase1", "loop", "standard", "jumbo", "search", "done"},
         result' = NoRecord
  PROVE  MtuTypeOK'
<1>1. SearchTypes'
  BY Sizes DEF SearchTypes
<1>2. RecordOK'
  BY Sizes DEF RecordOK, NoRecord
<1>. QED
  BY <1>1, <1>2, NextTypes

\* A measurement starts on a path of the cluster.
LEMMA StartMeasure ==
  ASSUME MtuInv, stage = "phase1", BeginMeasurement
  PROVE  MtuInv'
<1>1. /\ low' = StdPayload /\ high' = JumboPayload /\ best' = StdPayload /\ iteration' = 0
      /\ stage' = "loop" /\ result' = NoRecord
  BY DEF BeginMeasurement, MtuInv
<1>2. MtuTypeOK'
  BY <1>1, FreshTypes
<1>3. PathOK'
  <2>1. mtu' \in [Path -> Mtus \cup LocalMtus] /\ reports' \in [Path -> BOOLEAN]
    BY DEF BeginMeasurement, PathMtus, PathReports
  <2>2. Mtus \cup LocalMtus \subseteq Nat \ {0}
    BY MtusAssumption
  <2>3. mtu' \in [Path -> Nat \ {0}]
    BY <2>1, <2>2
  <2>. QED
    BY <2>1, <2>3 DEF BeginMeasurement, PathOK, MtuInv
<1>4. SearchOK' /\ MeasuredIsClose'
  BY <1>1 DEF SearchOK, MeasuredIsClose, Measured
<1>. QED
  BY <1>1, <1>2, <1>3, <1>4 DEF MtuInv

\* An interruption takes the measurement nowhere else.
LEMMA NextInterrupt == MtuInv /\ Interrupt => MtuInv'
<1> SUFFICES ASSUME MtuInv, Interrupt PROVE MtuInv'
  OBVIOUS
<1>1. stage # "done" /\ interrupted' = TRUE /\ UNCHANGED <<pathVars, stage, searchVars, result>>
  BY DEF Interrupt
<1>2. MtuTypeOK' /\ PathOK' /\ SearchOK'
  BY <1>1 DEF MtuInv, MtuTypeOK, PathOK, SearchOK, Blockers, Span, pathVars, searchVars
<1>. QED
  BY <1>1, <1>2 DEF MtuInv, MeasuredIsClose, Measured

\* Before a measurement and after it.
LEMMA NoMeasure ==
  /\ NotMeasuring /\ interrupted = FALSE /\ stage = "phase1" => MtuInv
  /\ EndMeasurement /\ interrupted' = FALSE /\ stage' = "phase1" => MtuInv'
<1>0. OpenPath \in [Path -> Nat \ {0}] /\ AllReport \in [Path -> BOOLEAN]
  BY Sizes DEF OpenPath, AllReport
<1>1. ASSUME NotMeasuring, interrupted = FALSE, stage = "phase1" PROVE MtuInv
  <2>1. MtuTypeOK
    <3>1. low = 1472 /\ high = 8972 /\ best = 1472 /\ iteration = 0
      BY <1>1, Sizes DEF NotMeasuring
    <3>2. {low, high, best} \subseteq StdPayload .. JumboPayload
      <4>1. low \in StdPayload .. JumboPayload
        BY <3>1, Sizes
      <4>2. high \in StdPayload .. JumboPayload
        BY <3>1, Sizes
      <4>3. best \in StdPayload .. JumboPayload
        BY <3>1, Sizes
      <4>. QED
        BY <4>1, <4>2, <4>3
    <3>3. iteration \in 0 .. BinarySearchIterations
      BY <3>1, Sizes
    <3>4. result.mtu \in 0 .. Jumbo /\ result.status = "none"
      BY <1>1, Sizes DEF NotMeasuring, NoRecord
    <3>. QED
      BY <1>1, <3>2, <3>3, <3>4, Zenon DEF MtuTypeOK
  <2>2. PathOK
    BY <1>0, <1>1 DEF PathOK, NotMeasuring
  <2>. QED
    BY <1>1, <2>1, <2>2 DEF MtuInv, SearchOK, MeasuredIsClose, Measured, NotMeasuring
<1>2. ASSUME EndMeasurement, interrupted' = FALSE, stage' = "phase1" PROVE MtuInv'
  <2>1. MtuTypeOK'
    BY <1>2, FreshTypes DEF EndMeasurement
  <2>2. PathOK'
    BY <1>0, <1>2 DEF PathOK, EndMeasurement
  <2>. QED
    BY <1>2, <2>1, <2>2 DEF MtuInv, SearchOK, MeasuredIsClose, Measured, EndMeasurement
<1>. QED
  BY <1>1, <1>2
-----------------------------------------------------------------------------
\* What phase 1 has heard of the bonds, and what it says of them.
CaptureInv ==
  /\ Bond!BondTypeOK
  /\ bondMode \in [Bonds -> {"802.3ad", "static"}]
  /\ heard \subseteq Bond!Speakers
  /\ captureStage = "judge" => Bond!Speakers \subseteq heard
  /\ captureStage # "complete" => bondFindings = {}
  /\ BondFindingIsTrue
  /\ side = "bonded" /\ stage = "phase1" =>
       /\ captureStage = "flushed" => interrupted = TRUE
       /\ captureStage = "complete" /\ bondFindings = {} =>
            \A b \in Bonds : Bond!BondIsSound(b)

\* A bond's capture holds the members that speak to it, each member being of
\* one bond.
LEMMA HeardSpeaks ==
  ASSUME heard \subseteq Bond!Speakers, Bond!Speakers \subseteq heard, NEW b \in Bonds
  PROVE  Bond!HeardOn(b) = {m \in MembersOf[b] : Bond!Speaks(b, m)}
<1>1. ASSUME NEW m \in MembersOf[b], m \in heard PROVE Bond!Speaks(b, m)
  <2>1. PICK c \in Bonds : m \in MembersOf[c] /\ Bond!Speaks(c, m)
    BY <1>1 DEF Bond!Speakers
  <2>. QED
    BY <2>1, MembersAssumption
<1>2. ASSUME NEW m \in MembersOf[b], Bond!Speaks(b, m) PROVE m \in heard
  BY <1>2 DEF Bond!Speakers
<1>. QED
  BY <1>1, <1>2 DEF Bond!HeardOn

\* Its ports are of one switch exactly when they name at most one.
LEMMA ActorsOfOneSwitch ==
  ASSUME heard \subseteq Bond!Speakers, Bond!Speakers \subseteq heard, NEW b \in Bonds
  PROVE  Cardinality(Bond!ActorsOn(b)) > 1 <=> ~Bond!OneSwitch(b)
<1> DEFINE H == {m \in MembersOf[b] : Bond!Speaks(b, m)}
<1> DEFINE A == {port[m].switch : m \in H}
<1>1. Bond!ActorsOn(b) = A
  BY HeardSpeaks DEF Bond!ActorsOn
<1>2. IsFiniteSet(A) /\ Cardinality(A) \in Nat
  <2>1. IsFiniteSet(H)
    BY MembersAssumption, FS_Subset
  <2>2. PICK f : f = [m \in H |-> port[m].switch]
    OBVIOUS
  <2>3. f \in Surjection(H, A)
    BY <2>2 DEF Surjection
  <2>. QED
    BY <2>1, <2>3, FS_Surjection, FS_CardinalityType
<1>3. ASSUME Bond!OneSwitch(b) PROVE Cardinality(A) <= 1
  <2>1. CASE A = {}
    <3>1. Cardinality(A) = 0
      BY <2>1, FS_EmptySet, Zenon
    <3>. QED
      BY <3>1
  <2>2. CASE A # {}
    <3>1. PICK x \in A : TRUE
      BY <2>2
    <3>2. \A y \in A : y = x
      BY <1>3, <3>1 DEF Bond!OneSwitch
    <3>3. A = {x}
      BY <3>1, <3>2
    <3>4. Cardinality(A) = 1
      BY <3>3, FS_Singleton, Zenon
    <3>. QED
      BY <3>4
  <2>. QED
    BY <2>1, <2>2
<1>4. ASSUME ~Bond!OneSwitch(b) PROVE Cardinality(A) > 1
  <2>1. PICK x \in A, y \in A : x # y
    BY <1>4 DEF Bond!OneSwitch
  <2>2. Cardinality({x, y}) = 2
    <3>1. IsFiniteSet({x}) /\ Cardinality({x}) = 1
      BY FS_Singleton
    <3>2. {x, y} = {x} \cup {y} /\ y \notin {x}
      BY <2>1
    <3>. QED
      BY <3>1, <3>2, FS_AddElement, SMTT(30)
  <2>3. {x, y} \subseteq A
    BY <2>1
  <2>4. Cardinality({x, y}) <= Cardinality(A)
    BY <1>2, <2>3, FS_Subset
  <2>. QED
    BY <1>2, <2>2, <2>4
<1>5. Cardinality(A) <= 1 => ~(Cardinality(A) > 1)
  BY <1>2
<1>. QED
  BY <1>1, <1>3, <1>4, <1>5

\* A mode mismatch is found exactly when the ends disagree.
LEMMA MismatchOfModes ==
  ASSUME heard \subseteq Bond!Speakers, Bond!Speakers \subseteq heard, NEW b \in Bonds,
         bondMode \in [Bonds -> {"802.3ad", "static"}]
  PROVE  Bond!ModeMismatch(b) <=> Bond!ModesDisagree(b)
<1>1. Bond!HeardOn(b) = {m \in MembersOf[b] : Bond!Speaks(b, m)}
  BY HeardSpeaks
<1>2. bondMode[b] = "802.3ad" \/ bondMode[b] = "static"
  OBVIOUS
<1>. QED
  BY <1>1, <1>2 DEF Bond!ModeMismatch, Bond!ModesDisagree

\* While the cabling stays, so does what speaks and what is sound.
LEMMA CablingKept ==
  ASSUME UNCHANGED Bond!bondConfig
  PROVE  /\ Bond!Speakers' = Bond!Speakers
         /\ \A b : /\ Bond!ModesDisagree(b)' <=> Bond!ModesDisagree(b)
                   /\ Bond!OneSwitch(b)' <=> Bond!OneSwitch(b)
                   /\ Bond!BondIsSound(b)' <=> Bond!BondIsSound(b)
  BY DEF Bond!bondConfig, Bond!Speakers, Bond!Speaks, Bond!ModesDisagree, Bond!OneSwitch,
         Bond!BondIsSound

\* The bond validator counts as this module does.
LEMMA SameCardinality == \A S : Bond!Cardinality(S) = Cardinality(S)
  BY Zenon DEF Bond!Cardinality, Cardinality

\* The judgment: each finding is true, and no finding means sound bonds.
LEMMA JudgeIsTrue ==
  ASSUME CaptureInv, Bond!Judge
  PROVE  /\ BondFindingIsTrue'
         /\ bondFindings' = {} => \A b \in Bonds : Bond!BondIsSound(b)'
         /\ bondFindings' \subseteq {"bond-mode-mismatch", "asymmetric-bond-cable"} \X Bonds
<1> DEFINE MM == {c \in Bonds : Bond!ModeMismatch(c)}
           AA == {c \in Bonds : Cardinality(Bond!ActorsOn(c)) > 1}
<1>1. /\ UNCHANGED Bond!bondConfig
      /\ bondFindings' = {<<"bond-mode-mismatch", b>> : b \in MM}
                           \cup {<<"asymmetric-bond-cable", b>> : b \in AA}
  <2>1. UNCHANGED Bond!bondConfig
    BY Zenon DEF Bond!Judge
  <2>2. bondFindings' = {<<"bond-mode-mismatch", b>> : b \in MM}
                          \cup {<<"asymmetric-bond-cable", b>> : b \in AA}
    <3>1. {c \in Bonds : Bond!Cardinality(Bond!ActorsOn(c)) > 1} = AA
      BY SameCardinality
    <3> HIDE DEF AA
    <3>. QED
      BY <3>1, Zenon DEF Bond!Judge
  <2>. QED
    BY <2>1, <2>2
<1>2. \A b \in Bonds : /\ b \in MM <=> Bond!ModesDisagree(b)
                       /\ b \in AA <=> ~Bond!OneSwitch(b)
  <2>1. heard \subseteq Bond!Speakers /\ Bond!Speakers \subseteq heard
    BY DEF CaptureInv, Bond!Judge
  <2>. QED
    BY <2>1, ActorsOfOneSwitch, MismatchOfModes DEF CaptureInv
<1>3. MM \subseteq Bonds /\ AA \subseteq Bonds
  OBVIOUS
<1> HIDE DEF MM, AA
<1>4. ASSUME NEW f \in bondFindings'
      PROVE  IF f[1] = "bond-mode-mismatch" THEN Bond!ModesDisagree(f[2])'
                                            ELSE ~Bond!OneSwitch(f[2])'
  <2>1. CASE \E b \in MM : f = <<"bond-mode-mismatch", b>>
    <3>1. PICK b \in MM : f = <<"bond-mode-mismatch", b>>
      BY <2>1
    <3>2. f[1] = "bond-mode-mismatch" /\ f[2] = b
      BY <3>1
    <3>3. Bond!ModesDisagree(b)'
      BY <1>1, <1>2, <1>3, CablingKept
    <3>4. Bond!ModesDisagree(f[2])'
      BY <1>1, <3>2, <3>3, CablingKept
    <3>. QED
      BY <3>2, <3>4
  <2>2. CASE \E b \in AA : f = <<"asymmetric-bond-cable", b>>
    <3>1. PICK b \in AA : f = <<"asymmetric-bond-cable", b>>
      BY <2>2
    <3>2. f[1] # "bond-mode-mismatch" /\ f[2] = b
      BY <3>1
    <3>3. ~Bond!OneSwitch(b)'
      BY <1>1, <1>2, <1>3, CablingKept
    <3>4. ~Bond!OneSwitch(f[2])'
      BY <1>1, <3>2, <3>3, CablingKept
    <3>. QED
      BY <3>2, <3>4
  <2>. QED
    BY <1>1, <1>4, <2>1, <2>2
<1>5. ASSUME bondFindings' = {}, NEW b \in Bonds PROVE Bond!BondIsSound(b)'
  <2>1. b \notin MM /\ b \notin AA
    BY <1>1, <1>5
  <2>2. Bond!BondIsSound(b)
    BY <1>2, <2>1 DEF Bond!BondIsSound
  <2>. QED
    BY <1>1, <2>2, CablingKept
<1>6. bondFindings' \subseteq {"bond-mode-mismatch", "asymmetric-bond-cable"} \X Bonds
  BY <1>1, <1>3
<1>. QED
  BY <1>4, <1>5, <1>6 DEF BondFindingIsTrue

\* Phase 1 hears what speaks, for its whole window before it judges; cut
\* short, it judges nothing.
LEMMA NextCapture == CaptureInv /\ interrupted \in BOOLEAN /\ Phase1Step => CaptureInv'
<1> SUFFICES ASSUME CaptureInv, interrupted \in BOOLEAN, Phase1Step PROVE CaptureInv'
  OBVIOUS
<1>1. UNCHANGED <<interrupted, stage, side>> /\ stage = "phase1" /\ side = "bonded"
  BY DEF Phase1Step, mtuVars
<1>2. UNCHANGED Bond!bondConfig /\ UNCHANGED bondMode
  BY DEF Phase1Step, Bond!BondNext, Bond!StartCaptures, Bond!WindowCloses, Bond!WindowCut,
         Bond!Judge, Bond!Hear, Bond!bondConfig
<1>3. /\ Bond!Speakers' = Bond!Speakers
      /\ \A b : /\ Bond!ModesDisagree(b)' <=> Bond!ModesDisagree(b)
                /\ Bond!OneSwitch(b)' <=> Bond!OneSwitch(b)
                /\ Bond!BondIsSound(b)' <=> Bond!BondIsSound(b)
  BY <1>2, CablingKept
<1>4. bondFindings' = {} => BondFindingIsTrue'
  BY DEF BondFindingIsTrue
<1>5. Bond!BondTypeOK
  BY DEF CaptureInv
<1>6. CASE Bond!StartCaptures
  <2>1. bondFindings = {}
    BY <1>6 DEF CaptureInv, Bond!StartCaptures
  <2>2. UNCHANGED <<heard, bondFindings>> /\ bondRecords' \in [Bonds -> {"none", "judged", "interrupted"}]
    BY <1>5, <1>6 DEF Bond!StartCaptures, Bond!Flush, Bond!BondTypeOK
  <2>3. \/ interrupted /\ captureStage' = "flushed"
        \/ captureStage' = "complete" /\ Bonds = {}
        \/ captureStage' = "window"
    BY <1>6 DEF Bond!StartCaptures, Bond!Flush
  <2>4. Bond!BondTypeOK'
    BY <1>2, <1>5, <2>2, <2>3 DEF Bond!BondTypeOK
  <2>. QED
    BY <1>1, <1>2, <1>3, <1>4, <2>1, <2>2, <2>3, <2>4 DEF CaptureInv
<1>7. CASE \E m \in Bond!Members : Bond!Hear(m)
  <2>1. PICK m \in Bond!Members : Bond!Hear(m)
    BY <1>7
  <2>2. /\ captureStage = "window" /\ m \in Bond!Speakers /\ heard' = heard \cup {m}
        /\ UNCHANGED <<captureStage, bondRecords, bondFindings>>
    BY <2>1 DEF Bond!Hear
  <2>3. Bond!BondTypeOK'
    BY <1>2, <1>5, <2>2 DEF Bond!BondTypeOK
  <2>. QED
    BY <1>1, <1>2, <1>3, <1>4, <2>2, <2>3 DEF CaptureInv
<1>8. CASE Bond!WindowCloses
  <2>1. /\ captureStage = "window" /\ Bond!Speakers \subseteq heard /\ captureStage' = "judge"
        /\ UNCHANGED <<heard, bondRecords, bondFindings>>
    BY <1>8 DEF Bond!WindowCloses
  <2>2. Bond!BondTypeOK'
    BY <1>2, <1>5, <2>1 DEF Bond!BondTypeOK
  <2>. QED
    BY <1>1, <1>2, <1>3, <1>4, <2>1, <2>2 DEF CaptureInv
<1>9. CASE Bond!WindowCut
  <2>1. /\ captureStage = "window" /\ interrupted /\ captureStage' = "flushed"
        /\ UNCHANGED <<heard, bondFindings>>
        /\ bondRecords' = [b \in Bonds |-> "interrupted"]
    BY <1>9 DEF Bond!WindowCut, Bond!Flush
  <2>2. Bond!BondTypeOK'
    BY <1>2, <1>5, <2>1 DEF Bond!BondTypeOK
  <2>. QED
    BY <1>1, <1>2, <1>3, <1>4, <2>1, <2>2 DEF CaptureInv
<1>10. CASE Bond!Judge
  <2>1. /\ captureStage = "judge" /\ captureStage' = "complete" /\ UNCHANGED heard
        /\ bondRecords' = [b \in Bonds |-> "judged"]
    BY <1>10 DEF Bond!Judge
  <2>2. /\ BondFindingIsTrue'
        /\ bondFindings' = {} => \A b \in Bonds : Bond!BondIsSound(b)'
        /\ bondFindings' \subseteq {"bond-mode-mismatch", "asymmetric-bond-cable"} \X Bonds
    BY <1>10, JudgeIsTrue
  <2>3. Bond!BondTypeOK'
    BY <1>2, <1>5, <2>1, <2>2 DEF Bond!BondTypeOK
  <2>. QED
    BY <1>1, <1>2, <1>3, <2>1, <2>2, <2>3 DEF CaptureInv
<1>. QED
  BY <1>6, <1>7, <1>8, <1>9, <1>10 DEF Phase1Step, Bond!BondNext

-----------------------------------------------------------------------------
\* A document that was collected is true of its side.
WellSaid(d) ==
  d.collected = TRUE =>
    /\ d.partial \in BOOLEAN /\ d.failed \in BOOLEAN /\ d.sound \in BOOLEAN
    /\ d.plainPath \in BOOLEAN
    /\ d.partial = FALSE /\ d.failed = FALSE => d.sound = TRUE
    /\ d.result.mtu \in Nat /\ d.actual \in Nat
    /\ d.result.status = "success" /\ d.plainPath = TRUE =>
         /\ d.result.mtu <= d.actual
         /\ d.partial = FALSE => d.actual < d.result.mtu + Resolution

\* What phase 1 passes on, and what was collected.
DocumentsInv ==
  /\ verdict.failed \in BOOLEAN /\ verdict.sound \in BOOLEAN
  /\ stage # "phase1" /\ interrupted = FALSE /\ verdict.failed = FALSE => verdict.sound = TRUE
  /\ documents = [s \in Sides |-> documents[s]]
  /\ \A s \in Sides : documents[s].collected \in BOOLEAN /\ WellSaid(documents[s])
  /\ side \in Sides \cup {"report"}
  /\ side # "report" => report = NoReport
  /\ report.exitCode \in 0 .. 3 /\ report.unmeasured \subseteq Sides

\* A document written after the measurement says what the machine's path
\* carries, and vouches for its bonds unless it says it was cut short.
LEMMA DocumentIsTrue ==
  ASSUME MtuInv, DocumentsInv, stage = "done"
  PROVE  WellSaid(Document)
<1>1. /\ Document.partial = interrupted /\ Document.failed = verdict.failed
      /\ Document.sound = verdict.sound /\ Document.result = result
      /\ Document.actual = ActualMtu /\ Document.plainPath = ReportsAreLast
  BY DEF Document
<1>2. interrupted \in BOOLEAN /\ ActualMtu \in Nat
  BY Narrowest DEF MtuInv, PathOK
<1>3. ReportsAreLast \in BOOLEAN
  BY DEF ReportsAreLast
<1>4. result.mtu \in Nat
  <2>1. result.mtu \in 0 .. Jumbo
    BY Zenon DEF MtuInv, MtuTypeOK
  <2>2. \A n \in 0 .. Jumbo : n \in Nat
    OBVIOUS
  <2>. QED
    BY <2>1, <2>2, Zenon
<1>5. result.status = "success" /\ ReportsAreLast =>
        /\ result.mtu <= ActualMtu
        /\ ~interrupted => ActualMtu < result.mtu + Resolution
  BY DEF MtuInv, MeasuredIsClose, Measured
<1>6. interrupted = FALSE /\ verdict.failed = FALSE => verdict.sound = TRUE
  BY DEF DocumentsInv
<1>7. verdict.failed \in BOOLEAN /\ verdict.sound \in BOOLEAN
  BY DEF DocumentsInv
<1> HIDE DEF Document
<1>. QED
  BY <1>1, <1>2, <1>3, <1>4, <1>5, <1>6, <1>7 DEF WellSaid

\* The report compares two documents, each true of its side.
LEMMA ReportComparesTruly ==
  ASSUME DocumentsInv, GenerateReport
  PROVE  ReportIsTrue' /\ report'.exitCode \in 0 .. 3 /\ report'.unmeasured \subseteq Sides
<1>0. UNCHANGED documents
  BY DEF GenerateReport
<1>1. /\ report'.exitCode = 0 => Failed = {} /\ ~Asymmetric /\ Unmeasured \cup Incomplete = {}
      /\ report'.exitCode \in 0 .. 3
  BY DEF GenerateReport
<1>2. report'.asymmetry = Asymmetric /\ report'.unmeasured = Unmeasured
  BY DEF GenerateReport
<1>3. Unmeasured \subseteq Sides
  BY DEF Unmeasured
<1>4. \A s \in Sides : documents[s].collected \in BOOLEAN /\ WellSaid(documents[s])
  BY DEF DocumentsInv
<1>5. ASSUME NEW s \in Sides, documents[s].collected, ~documents[s].partial
      PROVE  /\ ~documents[s].failed => documents[s].sound
             /\ documents[s].result.mtu \in Nat /\ documents[s].actual \in Nat
             /\ documents[s].result.status = "success" /\ documents[s].plainPath =>
                  /\ documents[s].result.mtu <= documents[s].actual
                  /\ documents[s].actual < documents[s].result.mtu + 235
  BY <1>4, <1>5, Sizes DEF WellSaid
<1>6. ASSUME report'.exitCode = 0 PROVE Whole /\ \A s \in Sides : documents[s].sound
  <2>1. Whole
    BY <1>1, <1>6 DEF Whole, Incomplete
  <2>2. \A s \in Sides : ~documents[s].failed
    BY <1>1, <1>6, <2>1 DEF Failed, Whole
  <2>. QED
    BY <1>5, <2>1, <2>2 DEF Whole
<1> DEFINE m1 == documents["bonded"].result.mtu
           m2 == documents["plain"].result.mtu
           a1 == documents["bonded"].actual
           a2 == documents["plain"].actual
<1>7. ASSUME Whole, PlainPaths, Observed = Sides
      PROVE  /\ m1 \in Nat /\ m2 \in Nat /\ a1 \in Nat /\ a2 \in Nat
             /\ m1 <= a1 /\ a1 < m1 + 235 /\ m2 <= a2 /\ a2 < m2 + 235
  BY <1>5, <1>7 DEF Whole, PlainPaths, Observed, Sides
<1>8. /\ Difference("actual") = Distance(a1, a2)
      /\ ReportedDifference = Distance(m1, m2)
  BY DEF Difference, ReportedDifference
<1>9. Asymmetric <=> Observed = Sides /\ m1 # m2
  BY DEF Asymmetric
<1> HIDE DEF m1, m2, a1, a2
<1>10. ASSUME report'.exitCode = 0, Observed = Sides, PlainPaths
       PROVE  Difference("actual") < Resolution
  <2>1. m1 = m2
    BY <1>1, <1>9, <1>10
  <2>. QED
    BY <1>6, <1>7, <1>8, <1>10, <2>1, Sizes DEF Distance
<1>11. ASSUME report'.asymmetry, Whole, PlainPaths, ReportedDifference >= Resolution
       PROVE  Difference("actual") > 0
  <2>1. Observed = Sides
    BY <1>2, <1>9, <1>11
  <2>2. Distance(m1, m2) >= 235
    BY <1>8, <1>11, Sizes
  <2>3. Distance(a1, a2) > 0
    BY <1>7, <1>11, <2>1, <2>2 DEF Distance
  <2>. QED
    BY <1>8, <2>3
<1>12. /\ Whole' <=> Whole
       /\ PlainPaths' <=> PlainPaths
       /\ Observed' = Observed
       /\ Difference("actual")' = Difference("actual")
       /\ ReportedDifference' = ReportedDifference
  BY <1>0 DEF Whole, PlainPaths, Observed, Difference, ReportedDifference
<1>13. ReportIsTrue'
  BY <1>0, <1>6, <1>10, <1>11, <1>12 DEF ReportIsTrue
<1>. QED
  BY <1>1, <1>2, <1>3, <1>13

-----------------------------------------------------------------------------
\* What holds of the measurement, of phase 1 and of the documents, together.
RepInv == MtuInv /\ CaptureInv /\ DocumentsInv /\ ReportIsTrue

\* What the documents say of the sides, as long as nothing touches it.
LEMMA DocumentsKept ==
  ASSUME DocumentsInv, UNCHANGED <<stage, interrupted, verdict, documents, side, report>>
  PROVE  DocumentsInv'
<1>1. \A s \in Sides : WellSaid(documents[s])' <=> WellSaid(documents[s])
  BY DEF WellSaid
<1>. QED
  BY <1>1 DEF DocumentsInv

\* What phase 1 says stands while nothing touches the bonds.
LEMMA CaptureKept ==
  ASSUME CaptureInv, UNCHANGED bondState,
         \/ stage' # "phase1" \/ side' # "bonded"
         \/ UNCHANGED <<stage, side>> /\ (interrupted' = interrupted \/ interrupted' = TRUE)
  PROVE  CaptureInv'
<1>1. /\ UNCHANGED <<bondMode, lacpActive, port, heard, captureStage, bondRecords, bondFindings>>
      /\ UNCHANGED Bond!bondConfig
  BY DEF bondState, Bond!bondConfig
<1>2. /\ Bond!Speakers' = Bond!Speakers
      /\ \A b : /\ Bond!ModesDisagree(b)' <=> Bond!ModesDisagree(b)
                /\ Bond!OneSwitch(b)' <=> Bond!OneSwitch(b)
                /\ Bond!BondIsSound(b)' <=> Bond!BondIsSound(b)
  BY <1>1, CablingKept
<1>3. Bond!BondTypeOK'
  BY <1>1 DEF CaptureInv, Bond!BondTypeOK
<1>4. BondFindingIsTrue'
  BY <1>1, <1>2 DEF CaptureInv, BondFindingIsTrue
<1>5. side' = "bonded" /\ stage' = "phase1" =>
        /\ captureStage' = "flushed" => interrupted' = TRUE
        /\ captureStage' = "complete" /\ bondFindings' = {} =>
             \A b \in Bonds : Bond!BondIsSound(b)'
  BY <1>1, <1>2 DEF CaptureInv
<1>. QED
  BY <1>1, <1>2, <1>3, <1>4, <1>5 DEF CaptureInv

\* Nor does the measurement touch the documents.
LEMMA StageMoves ==
  ASSUME DocumentsInv, UNCHANGED <<verdict, documents, side, report>>,
         interrupted' = interrupted \/ interrupted' = TRUE,
         stage' # "phase1" => stage # "phase1"
  PROVE  DocumentsInv'
<1>1. \A s \in Sides : WellSaid(documents[s])' <=> WellSaid(documents[s])
  BY DEF WellSaid
<1>. QED
  BY <1>1 DEF DocumentsInv

\* A report stands while its documents do.
LEMMA ReportKept ==
  ASSUME ReportIsTrue, UNCHANGED <<documents, report>>
  PROVE  ReportIsTrue'
  BY DEF ReportIsTrue, Whole, PlainPaths, Observed, Difference, ReportedDifference

\* Without a report there is nothing to be false.
LEMMA NoReportIsTrue ==
  /\ report = NoReport => ReportIsTrue
  /\ report' = NoReport => ReportIsTrue'
  BY DEF ReportIsTrue, NoReport

\* A bond that is not looked at any more has no finding.
LEMMA Forgotten ==
  ASSUME Bond!Forget, stage' # "phase1" \/ side' # "bonded"
  PROVE  CaptureInv'
<1>1. /\ bondMode' = [b \in Bonds |-> "802.3ad"] /\ heard' = {} /\ captureStage' = "complete"
      /\ bondRecords' = [b \in Bonds |-> "none"] /\ bondFindings' = {}
  BY DEF Bond!Forget
<1>2. Bond!BondTypeOK'
  BY <1>1 DEF Bond!BondTypeOK
<1>. QED
  BY <1>1, <1>2 DEF CaptureInv, BondFindingIsTrue

\* The invariant holds initially.
LEMMA InitRep == RepInit => RepInv
<1> SUFFICES ASSUME RepInit PROVE RepInv
  OBVIOUS
<1>1. MtuInv
  BY NoMeasure DEF RepInit
<1>2. CaptureInv
  <2>1. Bond!BondTypeOK
    BY DEF RepInit, Bond!BondInit, Bond!BondTypeOK
  <2>. QED
    BY <2>1 DEF RepInit, Bond!BondInit, CaptureInv, BondFindingIsTrue
<1>3. DocumentsInv
  <2>1. /\ stage = "phase1" /\ side = "bonded" /\ verdict = NoFinding
        /\ documents = [s \in Sides |-> Missing] /\ report = NoReport
    BY DEF RepInit
  <2>2. \A s \in Sides : documents[s].collected = FALSE
    BY <2>1 DEF Missing
  <2>3. documents = [s \in Sides |-> documents[s]]
    BY <2>1
  <2>4. verdict.failed \in BOOLEAN /\ verdict.sound \in BOOLEAN
    BY <2>1 DEF NoFinding
  <2>5. report.exitCode \in 0 .. 3 /\ report.unmeasured \subseteq Sides
    BY <2>1 DEF NoReport
  <2>. QED
    BY <2>1, <2>2, <2>3, <2>4, <2>5 DEF DocumentsInv, WellSaid, Sides
<1>4. ReportIsTrue
  BY NoReportIsTrue DEF RepInit
<1>. QED
  BY <1>1, <1>2, <1>3, <1>4 DEF RepInv

\* Every step keeps it.
LEMMA NextRep == RepInv /\ [RepNext]_vars => RepInv'
<1> SUFFICES ASSUME RepInv, [RepNext]_vars PROVE RepInv'
  OBVIOUS
<1>0. /\ MtuInv /\ CaptureInv /\ DocumentsInv /\ ReportIsTrue
      /\ interrupted \in BOOLEAN
  BY DEF RepInv, MtuInv, PathOK
<1>1. CASE Phase1Step
  <2>1. UNCHANGED <<mtuVars, side, verdict, documents, report>>
    BY <1>1 DEF Phase1Step
  <2>. QED
    BY <1>0, <1>1, <2>1, StutterMeasure, NextCapture, DocumentsKept, ReportKept
    DEF RepInv, mtuVars
<1>2. CASE Phase1Ends
  <2>1. /\ stage = "phase1" /\ side # "report" /\ Bond!Forget
        /\ UNCHANGED <<interrupted, side, documents, report>>
    BY <1>2 DEF Phase1Ends, BeginMeasurement
  <2>2. stage' # "phase1"
    BY <1>2 DEF Phase1Ends, BeginMeasurement
  <2>3. MtuInv'
    <3>1. CASE interrupted
      <4>1. stage' = "done" /\ UNCHANGED <<pathVars, interrupted, searchVars, result>>
        BY <1>2, <3>1 DEF Phase1Ends
      <4>2. result = NoRecord
        BY <1>0, <2>1 DEF MtuInv
      <4>3. MtuTypeOK'
        <5>1. SearchTypes'
          <6>1. SearchTypes
            BY <1>0, TypesOfSearch DEF MtuInv
          <6>. QED
            BY <4>1, <6>1, SMTT(30) DEF SearchTypes, searchVars
        <5>2. RecordOK'
          BY <4>1, <4>2, Sizes DEF RecordOK, NoRecord
        <5>. QED
          BY <4>1, <5>1, <5>2, NextTypes
      <4>4. PathOK'
        BY <1>0, <4>1 DEF MtuInv, PathOK, pathVars
      <4>. QED
        BY <4>1, <4>2, <4>3, <4>4 DEF MtuInv, SearchOK, MeasuredIsClose, Measured, NoRecord
    <3>2. CASE ~interrupted
      BY <1>0, <1>2, <2>1, <3>2, StartMeasure DEF Phase1Ends
    <3>. QED
      BY <3>1, <3>2
  <2>4. CaptureInv'
    BY <2>1, <2>2, Forgotten
  <2>5. DocumentsInv'
    <3>1. /\ verdict'.failed \in BOOLEAN /\ verdict'.sound \in BOOLEAN
          /\ interrupted = FALSE /\ verdict'.failed = FALSE => verdict'.sound = TRUE
      <4>1. CASE side = "bonded"
        <5>1. verdict' = [failed |-> bondFindings # {},
                          sound |-> \A b \in Bonds : Bond!BondIsSound(b)]
          BY <1>2, <4>1 DEF Phase1Ends
        <5>2. ~interrupted /\ bondFindings = {} => \A b \in Bonds : Bond!BondIsSound(b)
          <6>1. captureStage \in {"complete", "flushed"}
            BY <1>2, <4>1 DEF Phase1Ends
          <6>. QED
            BY <1>0, <2>1, <4>1, <6>1 DEF CaptureInv
        <5>. QED
          BY <5>1, <5>2
      <4>2. CASE side # "bonded"
        BY <1>2, <4>2 DEF Phase1Ends, NoFinding
      <4>. QED
        BY <4>1, <4>2
    <3>2. \A s \in Sides : WellSaid(documents[s])' <=> WellSaid(documents[s])
      BY <2>1 DEF WellSaid
    <3>. QED
      BY <1>0, <2>1, <3>1, <3>2 DEF DocumentsInv
  <2>. QED
    BY <1>0, <2>1, <2>3, <2>4, <2>5, ReportKept DEF RepInv
<1>3. CASE Phase2Step
  <2>1. MeasureStep /\ UNCHANGED <<bondState, side, verdict, documents, report>>
    BY <1>3 DEF Phase2Step
  <2>2. stage # "phase1" /\ stage' # "phase1" /\ interrupted' = interrupted
    BY <2>1 DEF MeasureStep, TopOfLoop, StandardProbe, JumboProbe, SearchStep, Goto, Return
  <2>3. CaptureInv'
    BY <1>0, <2>1, <2>2, CaptureKept
  <2>4. DocumentsInv'
    BY <1>0, <2>1, <2>2, StageMoves
  <2>. QED
    BY <1>0, <2>1, <2>3, <2>4, NextMeasure, ReportKept DEF RepInv
<1>4. CASE Interrupted
  <2>1. Interrupt /\ UNCHANGED <<bondState, side, verdict, documents, report>>
    BY <1>4 DEF Interrupted
  <2>2. interrupted' = TRUE /\ stage' = stage
    BY <2>1 DEF Interrupt
  <2>3. CaptureInv'
    BY <1>0, <2>1, <2>2, CaptureKept
  <2>4. DocumentsInv'
    BY <1>0, <2>1, <2>2, StageMoves
  <2>. QED
    BY <1>0, <2>1, <2>3, <2>4, NextInterrupt, ReportKept DEF RepInv
<1>5. CASE WriteOutput
  <2>1. /\ stage = "done" /\ side \in Sides /\ EndMeasurement /\ interrupted' = FALSE
        /\ stage' = "phase1" /\ side' \in {"plain", "report"} /\ verdict' = NoFinding
        /\ UNCHANGED <<bondState, report>>
    BY <1>5 DEF WriteOutput
  <2>2. PICK d \in {Document, Missing} : documents' = [documents EXCEPT ![side] = d]
    BY <1>5 DEF WriteOutput
  <2>3. report = NoReport
    BY <1>0, <2>1 DEF DocumentsInv, Sides
  <2>4. CaptureInv'
    BY <1>0, <2>1, CaptureKept
  <2>5. WellSaid(d) /\ d.collected \in BOOLEAN
    <3>1. CASE d = Document
      BY <1>0, <2>1, <3>1, DocumentIsTrue DEF Document
    <3>2. CASE d = Missing
      BY <3>2 DEF WellSaid, Missing
    <3>. QED
      BY <2>2, <3>1, <3>2
  <2>6. \A s \in Sides : documents'[s] = IF s = side THEN d ELSE documents[s]
    BY <1>0, <2>2 DEF DocumentsInv
  <2>7. \A s \in Sides : documents'[s].collected \in BOOLEAN /\ WellSaid(documents[s])'
    BY <1>0, <2>5, <2>6 DEF DocumentsInv, WellSaid
  <2>8. DocumentsInv'
    BY <1>0, <2>1, <2>2, <2>3, <2>7 DEF DocumentsInv, NoFinding, Sides
  <2>. QED
    BY <1>0, <2>1, <2>3, <2>4, <2>8, NoMeasure, NoReportIsTrue DEF RepInv
<1>6. CASE GenerateReport
  <2>1. side = "report" /\ UNCHANGED <<mtuVars, bondState, side, verdict, documents>>
    BY <1>6 DEF GenerateReport
  <2>2. UNCHANGED <<stage, interrupted>>
    BY <2>1 DEF mtuVars
  <2>3. CaptureInv'
    BY <1>0, <2>1, <2>2, CaptureKept
  <2>4. /\ ReportIsTrue' /\ report'.exitCode \in 0 .. 3 /\ report'.unmeasured \subseteq Sides
    BY <1>0, <1>6, ReportComparesTruly
  <2>5. \A s \in Sides : WellSaid(documents[s])' <=> WellSaid(documents[s])
    BY <2>1 DEF WellSaid
  <2>6. DocumentsInv'
    BY <1>0, <2>1, <2>2, <2>4, <2>5 DEF DocumentsInv
  <2>. QED
    BY <1>0, <2>1, <2>3, <2>4, <2>6, StutterMeasure DEF RepInv
<1>7. CASE UNCHANGED vars
  <2>1. UNCHANGED <<mtuVars, bondState, side, verdict, documents, report>>
    BY <1>7 DEF vars
  <2>2. UNCHANGED <<stage, interrupted>>
    BY <2>1 DEF mtuVars
  <2>. QED
    BY <1>0, <2>1, <2>2, StutterMeasure, CaptureKept, DocumentsKept, ReportKept DEF RepInv
<1>. QED
  BY <1>1, <1>2, <1>3, <1>4, <1>5, <1>6, <1>7 DEF RepNext

\* RepInv is an invariant.
LEMMA RepAlways == RepSpec => []RepInv
<1>. QED
  BY InitRep, NextRep, PTL DEF RepSpec

\* Types: where a measurement, a capture and the report are, and what they
\* hold (mtu_validator.py:63-109, bond_validator.py:184-265).
THEOREM MtuTypeCorrect == RepSpec => []RepTypeOK
<1>1. RepInv => RepTypeOK
  BY DEF RepInv, MtuInv, CaptureInv, DocumentsInv, RepTypeOK
<1>. QED
  BY <1>1, RepAlways, PTL

\* A bond finding is true of the cabling, whatever the bonds, their members and
\* their switches, and whenever the capture is cut short.
THEOREM FindingsAreTrue == RepSpec => []BondFindingIsTrue
<1>1. RepInv => BondFindingIsTrue
  BY DEF RepInv, CaptureInv
<1>. QED
  BY <1>1, RepAlways, PTL

\* A measured MTU is never more than the path carries and at most a resolution
\* less, for any number of hops of any MTU.
THEOREM MeasurementIsClose == RepSpec => []MeasuredIsClose
<1>1. RepInv => MeasuredIsClose
  BY DEF RepInv, MtuInv
<1>. QED
  BY <1>1, RepAlways, PTL

\* Exit code 0 vouches for both machines, and an asymmetry of at least a
\* resolution between two whole documents is one (report_generator.py:374-425).
THEOREM ReportVouches == RepSpec => []ReportIsTrue
<1>1. RepInv => ReportIsTrue
  BY DEF RepInv
<1>. QED
  BY <1>1, RepAlways, PTL
=============================================================================
