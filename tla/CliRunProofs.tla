---------------------------- MODULE CliRunProofs ----------------------------
(***************************************************************************)
(* Theorems about CliRun, for any number of invocations, however SIGINTs,  *)
(* failing calls and the operator's own destroy-model interleave.          *)
(*                                                                         *)
(* The inductive invariant says of one invocation what main.py's order of  *)
(* steps establishes: until it reuses a model its target is its own, the   *)
(* holder names the target from the report to the destruction, only an     *)
(* invocation that does not keep its model destroys it and only after the  *)
(* report, and once past the report a model still listed has been named.   *)
(***************************************************************************)
EXTENDS CliRun, TLAPS

Lifecycle(c) ==
  /\ pc[c] \in {"off", "checking", "adding", "probing", "collecting", "returned"} => target[c] = c
  /\ pc[c] \in {"reusing", "reporting", "destroying", "vanishing"} => holder[c] = target[c]
  /\ pc[c] \in {"destroying", "vanishing"} => report[c] /\ ~keep[c]
  /\ ~keep[c] => target[c] = c
  /\ report[c] => pc[c] \in {"destroying", "vanishing", "closing", "ended"}

\* What the exit code of a report vouches for.
Released(c) ==
  code[c] = "report" =>
    /\ pc[c] \in {"closing", "ended"}
    /\ IF keep[c] THEN target[c] \in told[c] ELSE ~Listed(target[c])

LeftoverNamed(c) ==
  pc[c] \in {"closing", "ended"} /\ report[c] /\ target[c] = c /\ Listed(c) => c \in told[c]

LifecycleInv == \A c \in Clients : Lifecycle(c)
CliInv == TypeOK /\ LifecycleInv /\ (\A c \in Clients : Released(c) /\ LeftoverNamed(c))
                 /\ NotDestroyedUnseen

-----------------------------------------------------------------------------
\* No invocation has started and there is no model.
LEMMA InitCli == Init => CliInv
  BY DEF Init, CliInv, TypeOK, LifecycleInv, Lifecycle, Released, LeftoverNamed, Listed,
         NotDestroyedUnseen, Codes, Places

\* What an invocation names is a model.
LEMMA NamedType == TypeOK => \A c \in Clients : Named(c) \subseteq Clients
  BY DEF TypeOK, Named

\* Every step keeps the types.
LEMMA NextType == TypeOK /\ [Next]_cliVars => TypeOK'
<1> SUFFICES ASSUME TypeOK, [Next]_cliVars PROVE TypeOK'
  OBVIOUS
<1> USE DEF TypeOK, Codes, Places, At
<1>1. CASE UNCHANGED cliVars
  BY <1>1 DEF cliVars
<1>2. ASSUME NEW c \in Clients, Refuse(c) PROVE TypeOK'
  BY <1>2 DEF Refuse
<1>3. ASSUME NEW c \in Clients, NEW k \in BOOLEAN, StartNew(c, k) PROVE TypeOK'
  BY <1>3 DEF StartNew
<1>4. ASSUME NEW c \in Clients, NEW m \in Clients, StartReuse(c, m) PROVE TypeOK'
  BY <1>4 DEF StartReuse
<1>5. ASSUME NEW c \in Clients,
             NoModelsListed(c) \/ WaitsEnd(c) \/ RunNewReturns(c) \/ RunReuseReturns(c)
      PROVE  TypeOK'
  BY <1>5 DEF NoModelsListed, WaitsEnd, RunNewReturns, RunReuseReturns
<1>15. ASSUME NEW c \in Clients, Connect(c) PROVE TypeOK'
  BY <1>15 DEF Connect
<1>16. ASSUME NEW c \in Clients, ConnectFails(c) PROVE TypeOK'
  BY <1>16, NamedType DEF ConnectFails, Fail
<1>6. ASSUME NEW c \in Clients, AddModel(c) PROVE TypeOK'
  BY <1>6 DEF AddModel
<1>7. ASSUME NEW c \in Clients, HoldModel(c) PROVE TypeOK'
  BY <1>7 DEF HoldModel
<1>8. ASSUME NEW c \in Clients, SaveReport(c) PROVE TypeOK'
  BY <1>8 DEF SaveReport
<1>9. ASSUME NEW c \in Clients, RequestDestroy(c) PROVE TypeOK'
  BY <1>9 DEF RequestDestroy
<1>10. ASSUME NEW c \in Clients, SeesGone(c) PROVE TypeOK'
  BY <1>10 DEF SeesGone
<1>11. ASSUME NEW c \in Clients, CallFails(c) PROVE TypeOK'
  BY <1>11, NamedType DEF CallFails, Fail
<1>12. ASSUME NEW c \in Clients, Disconnect(c) PROVE TypeOK'
  BY <1>12, NamedType DEF Disconnect
<1>13. ASSUME NEW c \in Clients, Sigint(c) PROVE TypeOK'
  BY <1>13, NamedType DEF Sigint
<1>14. ASSUME NEW m \in Clients, OperatorDestroys(m) \/ ModelGone(m) PROVE TypeOK'
  BY <1>14 DEF OperatorDestroys, ModelGone
<1>. QED
  BY <1>1, <1>2, <1>3, <1>4, <1>5, <1>6, <1>7, <1>8, <1>9, <1>10, <1>11, <1>12, <1>13, <1>14,
     <1>15, <1>16
  DEF Next, Step

\* What one invocation does to its own state, the others' and the models'.
LEMMA Own ==
  ASSUME TypeOK, NEW c \in Clients,
         \/ Refuse(c) \/ (\E k \in BOOLEAN : StartNew(c, k))
         \/ (\E m \in Clients : StartReuse(c, m)) \/ Step(c) \/ Sigint(c)
  PROVE  \A d \in Clients \ {c} :
           /\ pc'[d] = pc[d] /\ target'[d] = target[d] /\ keep'[d] = keep[d]
           /\ holder'[d] = holder[d] /\ report'[d] = report[d] /\ told'[d] = told[d]
           /\ code'[d] = code[d]
  BY DEF TypeOK, Refuse, StartNew, StartReuse, Step, Connect, ConnectFails, NoModelsListed,
         AddModel, WaitsEnd, RunNewReturns, HoldModel, RunReuseReturns, SaveReport,
         RequestDestroy, SeesGone, CallFails, Fail, Disconnect, Sigint, At

\* A model appears only in its own invocation's add_model; reports and
\* explanations are not taken back; and only the invocation that reported, or
\* an operator who was told, asks for a destruction.
LEMMA Models ==
  ASSUME TypeOK, LifecycleInv, [Next]_cliVars, NEW m \in Clients
  PROVE  /\ Listed(m)' /\ ~Listed(m) => pc[m] = "adding"
         /\ report[m] => report'[m]
         /\ \A c \in Clients : told[c] \subseteq told'[c]
         /\ models'[m] \in {"dying", "gone"} =>
              \/ models[m] \in {"dying", "gone"}
              \/ report[m]
              \/ \E c \in Clients : m \in told[c]
<1> USE DEF TypeOK, Listed, At
<1>1. CASE UNCHANGED cliVars
  BY <1>1 DEF cliVars
<1>2. CASE \E c \in Clients : \/ Refuse(c) \/ (\E k \in BOOLEAN : StartNew(c, k))
                               \/ (\E n \in Clients : StartReuse(c, n)) \/ Connect(c)
                               \/ NoModelsListed(c) \/ WaitsEnd(c) \/ RunNewReturns(c)
                               \/ HoldModel(c) \/ RunReuseReturns(c)
  BY <1>2 DEF Refuse, StartNew, StartReuse, Connect, NoModelsListed, WaitsEnd, RunNewReturns,
              HoldModel, RunReuseReturns
<1>3. CASE \E c \in Clients :
             SaveReport(c) \/ SeesGone(c) \/ ConnectFails(c) \/ Disconnect(c) \/ Sigint(c)
  BY <1>3 DEF SaveReport, SeesGone, ConnectFails, Fail, Disconnect, Sigint
<1>4. ASSUME NEW c \in Clients, AddModel(c)
      PROVE  /\ Listed(m)' /\ ~Listed(m) => pc[m] = "adding"
             /\ UNCHANGED <<report, told>>
             /\ models'[m] = models[m] \/ models'[m] = "live"
  BY <1>4 DEF AddModel
<1>5. ASSUME NEW c \in Clients, CallFails(c)
      PROVE  /\ Listed(m)' /\ ~Listed(m) => pc[m] = "adding"
             /\ report' = report /\ \A d \in Clients : told[d] \subseteq told'[d]
             /\ models'[m] = models[m] \/ models'[m] = "live"
  BY <1>5 DEF CallFails, Fail
<1>6. ASSUME NEW c \in Clients, RequestDestroy(c)
      PROVE  /\ Listed(m)' => Listed(m)
             /\ UNCHANGED <<report, told>>
             /\ models'[m] = models[m] \/ report[m]
  <2>1. target[c] = c /\ report[c]
    BY <1>6 DEF RequestDestroy, LifecycleInv, Lifecycle
  <2>. QED
    BY <1>6, <2>1 DEF RequestDestroy
<1>7. ASSUME NEW c \in Clients, OperatorDestroys(c) \/ ModelGone(c)
      PROVE  /\ Listed(m)' => Listed(m)
             /\ UNCHANGED <<report, told>>
             /\ models'[m] = models[m] \/ models[m] = "dying" \/ \E d \in Clients : m \in told[d]
  BY <1>7 DEF OperatorDestroys, ModelGone
<1>. QED
  BY <1>1, <1>2, <1>3, <1>4, <1>5, <1>6, <1>7 DEF Next, Step

\* One invocation's own steps.
LEMMA OwnLifecycle ==
  ASSUME CliInv, NEW c \in Clients,
         \/ Refuse(c) \/ (\E k \in BOOLEAN : StartNew(c, k))
         \/ (\E m \in Clients : StartReuse(c, m)) \/ Step(c) \/ Sigint(c)
  PROVE  Lifecycle(c)' /\ Released(c)' /\ LeftoverNamed(c)'
<1>0. TypeOK /\ Lifecycle(c) /\ Released(c) /\ LeftoverNamed(c)
  BY DEF CliInv, LifecycleInv
<1> USE DEF TypeOK, Listed, At, Lifecycle, Released, LeftoverNamed
<1>1. CASE Refuse(c)
  BY <1>0, <1>1 DEF Refuse
<1>2. CASE \E k \in BOOLEAN : StartNew(c, k)
  BY <1>0, <1>2 DEF StartNew
<1>3. CASE \E m \in Clients : StartReuse(c, m)
  BY <1>0, <1>3 DEF StartReuse
<1>15. CASE Connect(c)
  BY <1>0, <1>15 DEF Connect
<1>16. CASE ConnectFails(c)
  BY <1>0, <1>16 DEF ConnectFails, Fail
<1>17. CASE WaitsEnd(c)
  BY <1>0, <1>17 DEF WaitsEnd
<1>4. CASE NoModelsListed(c)
  BY <1>0, <1>4 DEF NoModelsListed
<1>5. CASE AddModel(c)
  BY <1>0, <1>5 DEF AddModel
<1>6. CASE RunNewReturns(c)
  BY <1>0, <1>6 DEF RunNewReturns
<1>7. CASE HoldModel(c)
  BY <1>0, <1>7 DEF HoldModel
<1>8. CASE RunReuseReturns(c)
  BY <1>0, <1>8 DEF RunReuseReturns
<1>9. CASE SaveReport(c)
  BY <1>0, <1>9 DEF SaveReport
<1>10. CASE RequestDestroy(c)
  BY <1>0, <1>10 DEF RequestDestroy
<1>11. CASE SeesGone(c)
  BY <1>0, <1>11 DEF SeesGone
<1>12. CASE CallFails(c)
  <2>1. /\ pc'[c] = "closing" /\ code'[c] = "failure" /\ told'[c] = told[c] \cup Named(c)
        /\ UNCHANGED <<target, keep, holder, report>> /\ pc[c] \in Calls
    BY <1>0, <1>12 DEF CallFails, Fail
  <2>2. pc[c] \in {"destroying", "vanishing"} /\ target[c] = c => c \in Named(c)
    BY <1>0, NoModelAssumption DEF Named
  <2>. QED
    BY <1>0, <2>1, <2>2 DEF Calls
<1>13. CASE Disconnect(c)
  BY <1>0, <1>13 DEF Disconnect
<1>14. CASE Sigint(c)
  <2>1. /\ pc'[c] = "ended" /\ code'[c] = "interrupted" /\ told'[c] = told[c] \cup Named(c)
        /\ UNCHANGED <<models, target, keep, holder, report>> /\ pc[c] # "off" /\ pc[c] # "ended"
    BY <1>0, <1>14 DEF Sigint
  <2>2. pc[c] \in {"destroying", "vanishing"} /\ target[c] = c => c \in Named(c)
    BY <1>0, NoModelAssumption DEF Named
  <2>. QED
    BY <1>0, <2>1, <2>2
<1>. QED
  BY <1>1, <1>2, <1>3, <1>4, <1>5, <1>6, <1>7, <1>8, <1>9, <1>10, <1>11, <1>12, <1>13, <1>14,
     <1>15, <1>16, <1>17
  DEF Step

\* No other invocation, operator or controller disturbs it.
LEMMA OthersLifecycle ==
  ASSUME CliInv, [Next]_cliVars, NEW d \in Clients,
         pc'[d] = pc[d], target'[d] = target[d], keep'[d] = keep[d], report'[d] = report[d],
         holder'[d] = holder[d], told'[d] = told[d], code'[d] = code[d]
  PROVE  Lifecycle(d)' /\ Released(d)' /\ LeftoverNamed(d)'
<1>0. TypeOK /\ LifecycleInv /\ Lifecycle(d) /\ Released(d) /\ LeftoverNamed(d)
  BY DEF CliInv, LifecycleInv
<1>1. Listed(d)' /\ ~Listed(d) => pc[d] = "adding"
  BY <1>0, Models
<1>2. Lifecycle(d)'
  BY <1>0 DEF Lifecycle
<1>3. Released(d)'
  <2>1. code[d] = "report" /\ ~keep[d] => target[d] = d /\ pc[d] # "adding"
    BY <1>0 DEF Released, Lifecycle
  <2>2. code[d] = "report" /\ ~keep[d] => ~Listed(d)'
    BY <1>0, <1>1, <2>1 DEF Released
  <2>3. code[d] = "report" /\ ~keep[d] => ~Listed(target[d])'
    BY <2>1, <2>2 DEF Listed
  <2>. QED
    BY <1>0, <2>3 DEF Released, Listed
<1>4. LeftoverNamed(d)'
  BY <1>0, <1>1 DEF LeftoverNamed
<1>. QED
  BY <1>2, <1>3, <1>4

\* Every step keeps the invariant.
LEMMA NextCli == CliInv /\ [Next]_cliVars => CliInv'
<1> SUFFICES ASSUME CliInv, [Next]_cliVars PROVE CliInv'
  OBVIOUS
<1>0. TypeOK /\ LifecycleInv
  BY DEF CliInv
<1>1. TypeOK'
  BY <1>0, NextType
<1>2. NotDestroyedUnseen'
  <2> SUFFICES ASSUME NEW m \in Clients, models'[m] \in {"dying", "gone"}
               PROVE  report'[m] \/ \E c \in Clients : m \in told'[c]
    BY DEF NotDestroyedUnseen
  <2>1. report[m] \/ \E c \in Clients : m \in told[c]
    BY <1>0, Models DEF CliInv, NotDestroyedUnseen
  <2>. QED
    BY <1>0, <2>1, Models
<1>3. ASSUME NEW d \in Clients PROVE Lifecycle(d)' /\ Released(d)' /\ LeftoverNamed(d)'
  <2>1. CASE UNCHANGED <<pc, target, keep, holder, report, told, code>>
    BY <2>1, OthersLifecycle
  <2>2. ASSUME NEW c \in Clients,
               \/ Refuse(c) \/ (\E k \in BOOLEAN : StartNew(c, k))
               \/ (\E m \in Clients : StartReuse(c, m)) \/ Step(c) \/ Sigint(c)
        PROVE  Lifecycle(d)' /\ Released(d)' /\ LeftoverNamed(d)'
    <3>1. CASE d = c
      BY <2>2, <3>1, OwnLifecycle
    <3>2. CASE d # c
      BY <1>0, <2>2, <3>2, Own, OthersLifecycle
    <3>. QED
      BY <3>1, <3>2
  <2>. QED
    BY <2>1, <2>2 DEF Next, cliVars, OperatorDestroys, ModelGone
<1>. QED
  BY <1>0, <1>1, <1>2, <1>3 DEF CliInv, LifecycleInv

\* The invariant holds throughout.
LEMMA CliInvariant == Spec => []CliInv
  BY InitCli, NextCli, PTL DEF Spec

-----------------------------------------------------------------------------
\* The state of the invocations and of their models is always of its type.
THEOREM CliTypeCorrect == Spec => []TypeOK
  BY CliInvariant, PTL DEF CliInv

\* An invocation that exits with its report's code has released its machines,
\* or has been asked to keep its model and has told how to release it.
THEOREM ReportReleases == Spec => []ReportCodeReleases
<1>1. CliInv => ReportCodeReleases
  BY DEF CliInv, TypeOK, Released, ReportCodeReleases
<1>. QED
  BY <1>1, CliInvariant, PTL

\* Once its report is saved, no invocation leaves a model behind that it has
\* not named, whatever interrupts the destruction.
THEOREM LeftoverIsNamed == Spec => []LeftoverIsNamedAfterReport
<1>1. CliInv => LeftoverIsNamedAfterReport
  BY DEF CliInv, LeftoverNamed, LeftoverIsNamedAfterReport
<1>. QED
  BY <1>1, CliInvariant, PTL

\* No invocation destroys a model whose report is not on disk, least of all
\* one it reuses; the operator does so only when told.
THEOREM DestroyedWithReport == Spec => []NotDestroyedUnseen
<1>1. CliInv => NotDestroyedUnseen
  BY DEF CliInv
<1>. QED
  BY <1>1, CliInvariant, PTL
=============================================================================
