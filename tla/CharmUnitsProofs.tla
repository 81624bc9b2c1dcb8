-------------------------- MODULE CharmUnitsProofs --------------------------
(***************************************************************************)
(* Theorems about CharmUnits, for any number of units, run ids, faults and *)
(* elections.                                                              *)
(*                                                                         *)
(* The inductive invariant follows a run through the hook that executes    *)
(* it: what the payload wrote is the document of the run in arg from       *)
(* "written" on, the last-run file names it from "logged" on, and until    *)
(* the hook reports it the status is not "complete" (Fresh).  The write    *)
(* waiting for the leader's exit is the run being executed, and once the   *)
(* handler has returned it is one the unit has executed (Committable).     *)
(***************************************************************************)
EXTENDS CharmUnits, TLAPS

\* The unit's files, status and running hook agree on the run.
Fresh(u) ==
  /\ pc[u] \in {"written", "logged"} => output[u] = Document(arg[u])
  /\ pc[u] = "logged" => last[u] = arg[u].run
  /\ pc[u] \in {"probing", "written", "logged"} => status[u].kind # "complete"
  /\ status[u].kind = "complete" =>
       /\ output[u].file = "whole" /\ output[u].run = status[u].run
       /\ last[u] = status[u].run

\* What the unit may commit to the databag is a run it has executed.
Committable(u) ==
  /\ last[u] # 0 => last[u] \in ran[u]
  /\ pc[u] \in {"probing", "written", "logged"} /\ write[u] # 0 => write[u] = arg[u].run
  /\ pc[u] = "logged" => arg[u].run \in ran[u]
  /\ pc[u] = "exiting" /\ write[u] # 0 => write[u] \in ran[u]

FreshInv == \A u \in Units : Fresh(u)
CommitInv == (\A u \in Units : Committable(u)) /\ DatabagFollowsProbe

-----------------------------------------------------------------------------
\* Type correctness of the charm's units, their Juju and their history.
LEMMA InitType == Init => TypeOK
  BY DefaultAssumption, BoundsAssumption
  DEF Init, TypeOK, Configs, Runs, Hooks, Busy, Statuses, Outputs, Status, NoOutput

\* A hook that ends in _maybe_run_probe keeps the types, run or no run.
LEMMA BeginHookType ==
  ASSUME TypeOK, NEW u \in Units, NEW k \in {"config", "relation"}, NEW r \in Runs,
         BeginHook(u, k), MaybeRunProbe(u, r), write' \in [Units -> Runs]
  PROVE  TypeOK'
<1>1. /\ config' \in Configs /\ databag' \in Runs /\ leader' \in Units
      /\ pending' \in [Units -> SUBSET Hooks]
      /\ hook' \in [Units -> {"none", "config", "relation"}]
      /\ started' \in [Units -> BOOLEAN]
      /\ last' \in [Units -> Runs] /\ output' \in [Units -> Outputs]
      /\ ran' \in [Units -> SUBSET Runs]
      /\ faults' \in 0 .. MaxFaults /\ elections' \in 0 .. MaxElections
  BY DEF TypeOK, BeginHook
<1>2. /\ pc' \in [Units -> {"installing", "idle", "error"} \cup Busy]
      /\ arg' \in [Units -> Configs]
      /\ status' \in [Units -> Statuses]
  <2>1. CASE r = 0 \/ r = last[u]
    BY <2>1 DEF TypeOK, MaybeRunProbe, Busy
  <2>2. CASE ~(r = 0 \/ r = last[u])
    <3>1. [run |-> r, timeout |-> config.timeout] \in Configs
      BY DEF TypeOK, Configs
    <3>2. Status("running", r) \in Statuses
      BY DEF Status, Statuses
    <3>. QED
      BY <2>2, <3>1, <3>2 DEF TypeOK, MaybeRunProbe, Busy
  <2>. QED
    BY <2>1, <2>2
<1>. QED
  BY <1>1, <1>2 DEF TypeOK

\* So does a hook that dies.
LEMMA DiesType ==
  ASSUME TypeOK, NEW u \in Units, Dies(u)
  PROVE  /\ pc' \in [Units -> {"installing", "idle", "error"} \cup Busy]
         /\ write' \in [Units -> Runs]
         /\ output' \in [Units -> Outputs]
<1>1. TornOutput \in Outputs /\ 0 \in Runs
  BY DefaultAssumption, BoundsAssumption DEF TornOutput, Outputs, Runs
<1>. QED
  BY <1>1 DEF TypeOK, Dies

\* Every step keeps the types; the run id stays under its bound by SetConfig's
\* guard, and the databag takes only values of write.
LEMMA NextType == TypeOK /\ [Next]_charmVars => TypeOK'
<1> SUFFICES ASSUME TypeOK, [Next]_charmVars PROVE TypeOK'
  OBVIOUS
<1> USE DefaultAssumption, BoundsAssumption DEF TypeOK, Configs, Runs, Hooks, Busy, Statuses, Outputs
<1>1. CASE UNCHANGED charmVars
  BY <1>1 DEF charmVars, unitVars
<1>2. ASSUME NEW t \in Timeouts, SetConfig(t) PROVE TypeOK'
  BY <1>2 DEF SetConfig, Installed
<1>3. ASSUME NEW u \in Units, Install(u) PROVE TypeOK'
  BY <1>3 DEF Install, Installed, Status
<1>4. ASSUME NEW u \in Units, InstallFails(u) PROVE TypeOK'
  BY <1>4 DEF InstallFails, Status
<1>5. ASSUME NEW u \in Units, StartHook(u) PROVE TypeOK'
  BY <1>5 DEF StartHook, Status
<1>6. ASSUME NEW u \in Units, ConfigChanged(u) PROVE TypeOK'
  <2>1. config.run \in Runs /\ write' \in [Units -> Runs]
    BY <1>6, 0 \in Runs DEF ConfigChanged
  <2>. QED
    BY <1>6, <2>1, BeginHookType DEF ConfigChanged
<1>7. ASSUME NEW u \in Units, PeerRelationChanged(u) PROVE TypeOK'
  <2>1. databag \in Runs /\ write' \in [Units -> Runs]
    BY <1>7, 0 \in Runs DEF PeerRelationChanged
  <2>. QED
    BY <1>7, <2>1, BeginHookType DEF PeerRelationChanged
<1>8. ASSUME NEW u \in Units, PayloadWrites(u) PROVE TypeOK'
  BY <1>8 DEF PayloadWrites, Document
<1>9. ASSUME NEW u \in Units, RecordRun(u) PROVE TypeOK'
  BY <1>9 DEF RecordRun
<1>10. ASSUME NEW u \in Units, ReportComplete(u) PROVE TypeOK'
  BY <1>10 DEF ReportComplete, Status
<1>11. ASSUME NEW u \in Units, HookExits(u) PROVE TypeOK'
  BY <1>11 DEF HookExits, Installed
<1>12. ASSUME NEW u \in Units, CommitRefused(u) PROVE TypeOK'
  BY <1>12 DEF CommitRefused
<1>13. ASSUME NEW u \in Units, HookKilled(u) PROVE TypeOK'
  BY <1>13, DiesType DEF HookKilled
<1>14. ASSUME NEW u \in Units, Reboot(u) PROVE TypeOK'
  <2>1. /\ pc' \in [Units -> {"installing", "idle", "error"} \cup Busy]
        /\ write' \in [Units -> Runs] /\ output' \in [Units -> Outputs]
    <3>1. CASE pc[u] \in Busy
      BY <1>14, <3>1, DiesType DEF Reboot
    <3>2. CASE pc[u] \notin Busy
      BY <1>14, <3>2 DEF Reboot
    <3>. QED
      BY <3>1, <3>2
  <2>. QED
    <3>1. /\ config' = config /\ databag' = databag /\ leader' = leader
          /\ hook' = hook /\ arg' = arg /\ started' = started
          /\ status' = status /\ last' = last /\ ran' = ran /\ elections' = elections
          /\ faults < MaxFaults /\ faults' = faults + 1
          /\ pending' = [pending EXCEPT ![u] = @ \cup {"start"}]
      BY <1>14 DEF Reboot
    <3>2. pending' \in [Units -> SUBSET Hooks] /\ faults' \in 0 .. MaxFaults
      BY <3>1
    <3>. QED
      BY <2>1, <3>1, <3>2
<1>15. ASSUME NEW u \in Units, Elect(u) PROVE TypeOK'
  BY <1>15 DEF Elect, unitVars
<1>. QED
  BY <1>1, <1>2, <1>3, <1>4, <1>5, <1>6, <1>7, <1>8, <1>9, <1>10, <1>11, <1>12, <1>13, <1>14, <1>15
  DEF Next, UnitStep, AgentStep

\* The charm's state is always of its type, for any number of units and runs.
THEOREM TypeCorrect == Spec => []TypeOK
  BY InitType, NextType, PTL DEF Spec

-----------------------------------------------------------------------------
\* The freshness invariant holds initially: nothing is complete.
LEMMA InitFresh == Init => FreshInv
  BY DEF Init, FreshInv, Fresh, Status

\* One step of the unit's own agent keeps its files, status and hook in step;
\* a step of another unit does not touch them.
LEMMA NextFresh == TypeOK /\ FreshInv /\ [Next]_charmVars => FreshInv'
<1> SUFFICES ASSUME TypeOK, FreshInv, [Next]_charmVars, NEW v \in Units PROVE Fresh(v)'
  BY DEF FreshInv
<1>0. Fresh(v)
  BY DEF FreshInv
<1> USE DEF Fresh
<1>1. CASE UNCHANGED charmVars
  BY <1>0, <1>1 DEF charmVars, unitVars
<1>2. ASSUME NEW t \in Timeouts, SetConfig(t) PROVE Fresh(v)'
  BY <1>0, <1>2 DEF SetConfig
<1>3. ASSUME NEW u \in Units, Install(u) PROVE Fresh(v)'
  BY <1>0, <1>3 DEF Install, Status, TypeOK
<1>4. ASSUME NEW u \in Units, InstallFails(u) PROVE Fresh(v)'
  BY <1>0, <1>4 DEF InstallFails, Status, TypeOK
<1>5. ASSUME NEW u \in Units, StartHook(u) PROVE Fresh(v)'
  BY <1>0, <1>5 DEF StartHook, Status, TypeOK
<1>6. ASSUME NEW u \in Units, NEW k, NEW r, BeginHook(u, k), MaybeRunProbe(u, r) PROVE Fresh(v)'
  <2>1. last' = last /\ output' = output
    BY <1>6 DEF BeginHook
  <2>2. CASE r = 0 \/ r = last[u]
    BY <1>0, <1>6, <2>1, <2>2 DEF MaybeRunProbe, TypeOK
  <2>3. CASE ~(r = 0 \/ r = last[u])
    <3>1. /\ pc' = [pc EXCEPT ![u] = "probing"]
          /\ status' = [status EXCEPT ![u] = Status("running", r)]
          /\ v # u => arg'[v] = arg[v]
      BY <1>6, <2>3 DEF MaybeRunProbe, TypeOK
    <3>2. v = u => pc'[v] = "probing" /\ status'[v].kind = "running"
      BY <3>1 DEF TypeOK, Status
    <3>3. v # u => pc'[v] = pc[v] /\ status'[v] = status[v]
      BY <3>1 DEF TypeOK
    <3>. QED
      BY <1>0, <2>1, <3>1, <3>2, <3>3
  <2>. QED
    BY <2>2, <2>3
<1>8. ASSUME NEW u \in Units, PayloadWrites(u) PROVE Fresh(v)'
  BY <1>0, <1>8 DEF PayloadWrites, TypeOK
<1>9. ASSUME NEW u \in Units, RecordRun(u) PROVE Fresh(v)'
  BY <1>0, <1>9 DEF RecordRun, TypeOK
<1>10. ASSUME NEW u \in Units, ReportComplete(u) PROVE Fresh(v)'
  BY <1>0, <1>10 DEF ReportComplete, Status, Document, TypeOK
<1>11. ASSUME NEW u \in Units, HookExits(u) PROVE Fresh(v)'
  BY <1>0, <1>11 DEF HookExits, TypeOK
<1>12. ASSUME NEW u \in Units, CommitRefused(u) PROVE Fresh(v)'
  BY <1>0, <1>12 DEF CommitRefused, TypeOK
<1>13. ASSUME NEW u \in Units, Dies(u), status' = status, last' = last, arg' = arg
       PROVE  Fresh(v)'
  BY <1>0, <1>13 DEF Dies, TypeOK
<1>14. ASSUME NEW u \in Units, Reboot(u) PROVE Fresh(v)'
  <2>1. status' = status /\ last' = last /\ arg' = arg
    BY <1>14 DEF Reboot
  <2>2. CASE Dies(u)
    BY <1>13, <2>1, <2>2
  <2>3. CASE pc' = pc /\ output' = output
    BY <1>0, <2>1, <2>3
  <2>. QED
    BY <1>14, <2>2, <2>3 DEF Reboot
<1>15. ASSUME NEW u \in Units, Elect(u) PROVE Fresh(v)'
  BY <1>0, <1>15 DEF Elect, unitVars
<1>. QED
  BY <1>1, <1>2, <1>3, <1>4, <1>5, <1>6, <1>8, <1>9, <1>10, <1>11, <1>12, <1>13, <1>14, <1>15
  DEF Next, UnitStep, AgentStep, ConfigChanged, PeerRelationChanged, HookKilled

\* A unit that shows a run complete has that run's whole output on disk and
\* that run as its last, for any number of units, runs, crashes and reboots.
THEOREM CompleteIsFresh == Spec => []CompleteMeansFresh
<1>1. FreshInv => CompleteMeansFresh
  BY DEF FreshInv, Fresh, CompleteMeansFresh
<1>. QED
  BY InitType, NextType, InitFresh, NextFresh, <1>1, PTL DEF Spec

-----------------------------------------------------------------------------
\* Nothing is recorded, written or committed initially.
LEMMA InitCommit == Init => CommitInv
  BY DEF Init, CommitInv, Committable, DatabagFollowsProbe

\* No step forgets an executed run, so a databag that no step changes stays
\* that of an executed run.
LEMMA RanGrows ==
  ASSUME TypeOK, DatabagFollowsProbe, databag' = databag,
         \A w \in Units : ran[w] \subseteq ran'[w]
  PROVE  DatabagFollowsProbe'
  BY DEF DatabagFollowsProbe

\* The commit comes last: the write a hook carries to its exit is the run it
\* executed, or one the unit had executed before.
LEMMA NextCommit == TypeOK /\ FreshInv /\ CommitInv /\ [Next]_charmVars => CommitInv'
<1> SUFFICES ASSUME TypeOK, FreshInv, CommitInv, [Next]_charmVars PROVE CommitInv'
  OBVIOUS
<1>0. DatabagFollowsProbe /\ \A v \in Units : Committable(v) /\ Fresh(v)
  BY DEF CommitInv, FreshInv
<1> USE DEF Committable
<1>1. CASE UNCHANGED charmVars
  BY <1>0, <1>1 DEF charmVars, unitVars, CommitInv, DatabagFollowsProbe
<1>2. ASSUME NEW t \in Timeouts, SetConfig(t) PROVE CommitInv'
  BY <1>0, <1>2 DEF SetConfig, CommitInv, DatabagFollowsProbe
<1>3. ASSUME NEW u \in Units, Install(u) PROVE CommitInv'
  <2>1. \A v \in Units : Committable(v)'
    BY <1>0, <1>3 DEF Install, TypeOK
  <2>. QED
    BY <1>0, <1>3, <2>1, RanGrows DEF Install, CommitInv
<1>4. ASSUME NEW u \in Units, InstallFails(u) PROVE CommitInv'
  BY <1>0, <1>4 DEF InstallFails, CommitInv, DatabagFollowsProbe
<1>5. ASSUME NEW u \in Units, StartHook(u) PROVE CommitInv'
  BY <1>0, <1>5 DEF StartHook, CommitInv, DatabagFollowsProbe
<1>6. ASSUME NEW u \in Units, NEW k, NEW r \in Runs, BeginHook(u, k), MaybeRunProbe(u, r),
             NEW w \in {0, r}, write' = [write EXCEPT ![u] = w]
      PROVE  CommitInv'
  <2>1. last' = last /\ ran' = ran /\ databag' = databag
    BY <1>6 DEF BeginHook
  <2>2. \A v \in Units : v # u => Committable(v)'
    <3>1. \A v \in Units : v # u => pc'[v] = pc[v] /\ arg'[v] = arg[v] /\ write'[v] = write[v]
      BY <1>6 DEF MaybeRunProbe, TypeOK
    <3>. QED
      BY <1>0, <2>1, <3>1
  <2>3. Committable(u)'
    <3>1. CASE r = 0 \/ r = last[u]
      <4>1. pc'[u] = "exiting" /\ write'[u] = w
        BY <1>6, <3>1 DEF MaybeRunProbe, TypeOK
      <4>. QED
        BY <1>0, <1>6, <2>1, <3>1, <4>1
    <3>2. CASE ~(r = 0 \/ r = last[u])
      <4>1. pc'[u] = "probing" /\ write'[u] = w /\ arg'[u].run = r
        BY <1>6, <3>2 DEF MaybeRunProbe, TypeOK
      <4>. QED
        BY <1>0, <1>6, <2>1, <3>2, <4>1
    <3>. QED
      BY <3>1, <3>2
  <2>. QED
    BY <1>0, <2>1, <2>2, <2>3 DEF CommitInv, DatabagFollowsProbe
<1>7. ASSUME NEW u \in Units, ConfigChanged(u) PROVE CommitInv'
  <2>1. PICK w \in {0, config.run} : write' = [write EXCEPT ![u] = w]
    BY <1>7 DEF ConfigChanged
  <2>. QED
    BY <1>6, <1>7, <2>1 DEF ConfigChanged, TypeOK, Configs
<1>8. ASSUME NEW u \in Units, PeerRelationChanged(u) PROVE CommitInv'
  BY <1>6, <1>8 DEF PeerRelationChanged, TypeOK
<1>9. ASSUME NEW u \in Units, PayloadWrites(u) PROVE CommitInv'
  <2>1. \A v \in Units : Committable(v)'
    BY <1>0, <1>9 DEF PayloadWrites, TypeOK
  <2>. QED
    BY <1>0, <1>9, <2>1, RanGrows DEF PayloadWrites, CommitInv
<1>10. ASSUME NEW u \in Units, RecordRun(u) PROVE CommitInv'
  <2>1. \A v \in Units : Committable(v)'
    BY <1>0, <1>10 DEF RecordRun, TypeOK
  <2>2. \A v \in Units : ran[v] \subseteq ran'[v]
    BY <1>10 DEF RecordRun, TypeOK
  <2>. QED
    BY <1>0, <1>10, <2>1, <2>2, RanGrows DEF RecordRun, CommitInv
<1>11. ASSUME NEW u \in Units, ReportComplete(u) PROVE CommitInv'
  <2>1. \A v \in Units : Committable(v)'
    BY <1>0, <1>11 DEF ReportComplete, TypeOK
  <2>. QED
    BY <1>0, <1>11, <2>1, RanGrows DEF ReportComplete, CommitInv
<1>12. ASSUME NEW u \in Units, HookExits(u) PROVE CommitInv'
  <2>1. \A v \in Units : Committable(v)'
    BY <1>0, <1>12 DEF HookExits, TypeOK
  <2>2. ran' = ran /\ (databag' = databag \/ databag' \in ran[u])
    BY <1>0, <1>12 DEF HookExits
  <2>. QED
    BY <1>0, <2>1, <2>2 DEF CommitInv, DatabagFollowsProbe
<1>13. ASSUME NEW u \in Units, CommitRefused(u) PROVE CommitInv'
  <2>1. \A v \in Units : Committable(v)'
    BY <1>0, <1>13 DEF CommitRefused, TypeOK
  <2>. QED
    BY <1>0, <1>13, <2>1, RanGrows DEF CommitRefused, CommitInv
<1>14. ASSUME NEW u \in Units, Dies(u), last' = last, arg' = arg, ran' = ran, databag' = databag
       PROVE  CommitInv'
  <2>1. \A v \in Units : Committable(v)'
    BY <1>0, <1>14 DEF Dies, TypeOK
  <2>. QED
    BY <1>0, <1>14, <2>1, RanGrows DEF CommitInv
<1>15. ASSUME NEW u \in Units, Reboot(u) PROVE CommitInv'
  <2>1. last' = last /\ arg' = arg /\ ran' = ran /\ databag' = databag
    BY <1>15 DEF Reboot
  <2>2. CASE Dies(u)
    BY <1>14, <2>1, <2>2
  <2>3. CASE pc' = pc /\ write' = write
    BY <1>0, <2>1, <2>3 DEF CommitInv, DatabagFollowsProbe
  <2>. QED
    BY <1>15, <2>2, <2>3 DEF Reboot
<1>16. ASSUME NEW u \in Units, Elect(u) PROVE CommitInv'
  BY <1>0, <1>16 DEF Elect, unitVars, CommitInv, DatabagFollowsProbe
<1>. QED
  BY <1>1, <1>2, <1>3, <1>4, <1>5, <1>7, <1>8, <1>9, <1>10, <1>11, <1>12, <1>13, <1>14, <1>15, <1>16
  DEF Next, UnitStep, AgentStep, HookKilled

\* The peer databag only ever names a run that some unit has executed to the
\* end: no follower learns a run id from it before the leader's probe is over.
THEOREM DatabagIsExecuted == Spec => []DatabagFollowsProbe
<1>1. CommitInv => DatabagFollowsProbe
  BY DEF CommitInv
<1>. QED
  BY InitType, NextType, InitFresh, NextFresh, InitCommit, NextCommit, <1>1, PTL DEF Spec

-----------------------------------------------------------------------------
\* A request or a document d is no newer than the configuration, and if it is
\* of the configured run it has the configured timeout.
OfConfig(d) == d.run <= config.run /\ (d.run = config.run => d.timeout = config.timeout)

\* Every run id in the system came from the configuration, and a payload of
\* the configured run was started with the timeout set along with it.
ConfigInv ==
  /\ databag <= config.run
  /\ \A u \in Units : /\ write[u] <= config.run
                      /\ OfConfig(arg[u])
                      /\ output[u].file = "whole" => OfConfig(output[u])

\* At the start there is no run and the timeout is the default.
LEMMA InitConfig == Init => ConfigInv
  BY DEF Init, ConfigInv, OfConfig, NoOutput

\* A payload takes its timeout from the configuration in the hook that starts
\* it; a new run id leaves everything older behind.
LEMMA NextConfig == TypeOK /\ ConfigInv /\ [Next]_charmVars => ConfigInv'
<1> SUFFICES ASSUME TypeOK, ConfigInv, [Next]_charmVars PROVE ConfigInv'
  OBVIOUS
<1> USE DEF ConfigInv, OfConfig
<1>0. /\ config.run \in Nat /\ databag \in Nat
      /\ \A u \in Units : write[u] \in Nat /\ arg[u].run \in Nat /\ output[u].run \in Nat
  BY BoundsAssumption DEF TypeOK, Configs, Outputs, Runs
<1>1. CASE UNCHANGED charmVars
  BY <1>1 DEF charmVars, unitVars
<1>2. ASSUME NEW t \in Timeouts, SetConfig(t) PROVE ConfigInv'
  BY <1>0, <1>2 DEF SetConfig
<1>3. ASSUME NEW u \in Units, Install(u) \/ InstallFails(u) \/ StartHook(u) \/ RecordRun(u)
                               \/ ReportComplete(u) \/ Elect(u)
      PROVE  ConfigInv'
  BY <1>3 DEF Install, InstallFails, StartHook, RecordRun, ReportComplete, Elect, unitVars
<1>4. ASSUME NEW u \in Units, NEW k, NEW r \in Nat, r <= config.run, BeginHook(u, k),
             MaybeRunProbe(u, r), NEW w \in {0, r}, write' = [write EXCEPT ![u] = w]
      PROVE  ConfigInv'
  <2>1. config' = config /\ databag' = databag /\ output' = output
    BY <1>4 DEF BeginHook
  <2>2. \A v \in Units : write'[v] <= config.run
    BY <1>0, <1>4 DEF TypeOK
  <2>3. \A v \in Units : arg'[v] = arg[v] \/ arg'[v] = [run |-> r, timeout |-> config.timeout]
    BY <1>4 DEF MaybeRunProbe, TypeOK
  <2>. QED
    BY <1>4, <2>1, <2>2, <2>3
<1>5. ASSUME NEW u \in Units, ConfigChanged(u) PROVE ConfigInv'
  <2>1. PICK w \in {0, config.run} : write' = [write EXCEPT ![u] = w]
    BY <1>5 DEF ConfigChanged
  <2>2. BeginHook(u, "config") /\ MaybeRunProbe(u, config.run)
    BY <1>5 DEF ConfigChanged
  <2>3. config.run \in Nat /\ config.run <= config.run
    BY <1>0
  <2>. QED
    BY <1>4, <2>1, <2>2, <2>3
<1>6. ASSUME NEW u \in Units, PeerRelationChanged(u) PROVE ConfigInv'
  BY <1>0, <1>4, <1>6 DEF PeerRelationChanged
<1>7. ASSUME NEW u \in Units, PayloadWrites(u) PROVE ConfigInv'
  BY <1>7 DEF PayloadWrites, Document, TypeOK
<1>8. ASSUME NEW u \in Units, HookExits(u) PROVE ConfigInv'
  BY <1>0, <1>8 DEF HookExits, TypeOK
<1>9. ASSUME NEW u \in Units, CommitRefused(u) PROVE ConfigInv'
  BY <1>0, <1>9 DEF CommitRefused, TypeOK
<1>10. ASSUME NEW u \in Units, Dies(u), config' = config, databag' = databag, arg' = arg
       PROVE  ConfigInv'
  BY <1>0, <1>10 DEF Dies, TornOutput, TypeOK
<1>11. ASSUME NEW u \in Units, Reboot(u) PROVE ConfigInv'
  <2>1. config' = config /\ databag' = databag /\ arg' = arg
    BY <1>11 DEF Reboot
  <2>2. CASE Dies(u)
    BY <1>10, <2>1, <2>2
  <2>3. CASE write' = write /\ output' = output
    BY <2>1, <2>3
  <2>. QED
    BY <1>11, <2>2, <2>3 DEF Reboot
<1>. QED
  BY <1>1, <1>2, <1>3, <1>5, <1>6, <1>7, <1>8, <1>9, <1>10, <1>11
  DEF Next, UnitStep, AgentStep, HookKilled

-----------------------------------------------------------------------------
\* A payload runs for a run that was asked for, and so does the document it
\* leaves: the id 0 of an empty configuration starts nothing.
NumberedInv ==
  \A u \in Units : /\ pc[u] = "probing" => arg[u].run # 0
                   /\ output[u].file = "whole" => output[u].run # 0

\* Initially there is neither payload nor document.
LEMMA InitNumbered == Init => NumberedInv
  BY DEF Init, NumberedInv, NoOutput

\* Only _maybe_run_probe starts a payload, and it returns on the empty id.
LEMMA NextNumbered == TypeOK /\ NumberedInv /\ [Next]_charmVars => NumberedInv'
<1> SUFFICES ASSUME TypeOK, NumberedInv, [Next]_charmVars, NEW v \in Units
             PROVE  /\ pc'[v] = "probing" => arg'[v].run # 0
                    /\ output'[v].file = "whole" => output'[v].run # 0
  BY DEF NumberedInv
<1>0. /\ pc[v] = "probing" => arg[v].run # 0
      /\ output[v].file = "whole" => output[v].run # 0
  BY DEF NumberedInv
<1>1. ASSUME output'[v] = output[v], arg'[v] = arg[v], pc'[v] = "probing" => pc[v] = "probing"
      PROVE  /\ pc'[v] = "probing" => arg'[v].run # 0
             /\ output'[v].file = "whole" => output'[v].run # 0
  BY <1>0, <1>1
<1>2. CASE UNCHANGED charmVars
  BY <1>1, <1>2 DEF charmVars, unitVars
<1>3. CASE \E t \in Timeouts : SetConfig(t)
  BY <1>1, <1>3 DEF SetConfig
<1>4. CASE \E u \in Units : Install(u) \/ InstallFails(u) \/ StartHook(u) \/ RecordRun(u)
                            \/ ReportComplete(u) \/ HookExits(u) \/ CommitRefused(u) \/ Elect(u)
  BY <1>1, <1>4 DEF Install, InstallFails, StartHook, RecordRun, ReportComplete, HookExits,
                    CommitRefused, Elect, unitVars, TypeOK
<1>5. ASSUME NEW u \in Units, NEW k, NEW r, BeginHook(u, k), MaybeRunProbe(u, r)
      PROVE  /\ pc'[v] = "probing" => arg'[v].run # 0
             /\ output'[v].file = "whole" => output'[v].run # 0
  <2>1. output' = output
    BY <1>5 DEF BeginHook
  <2>2. \/ pc'[v] # "probing" /\ arg'[v] = arg[v]
        \/ pc'[v] = pc[v] /\ arg'[v] = arg[v]
        \/ r # 0 /\ arg'[v] = [run |-> r, timeout |-> config.timeout]
    BY <1>5 DEF MaybeRunProbe, TypeOK
  <2>. QED
    BY <1>0, <2>1, <2>2
<1>6. ASSUME NEW u \in Units, PayloadWrites(u)
      PROVE  /\ pc'[v] = "probing" => arg'[v].run # 0
             /\ output'[v].file = "whole" => output'[v].run # 0
  <2>1. /\ arg' = arg /\ pc[u] = "probing"
        /\ v = u => pc'[v] = "written" /\ output'[v].run = arg[v].run
        /\ v # u => pc'[v] = pc[v] /\ output'[v] = output[v]
    BY <1>6 DEF PayloadWrites, Document, TypeOK
  <2>. QED
    BY <1>0, <2>1
<1>7. ASSUME NEW u \in Units, HookKilled(u) \/ Reboot(u)
      PROVE  /\ pc'[v] = "probing" => arg'[v].run # 0
             /\ output'[v].file = "whole" => output'[v].run # 0
  <2>1. arg' = arg /\ (Dies(u) \/ UNCHANGED <<pc, output>>)
    BY <1>7 DEF HookKilled, Reboot
  <2>2. /\ pc'[v] = "probing" => pc[v] = "probing"
        /\ output'[v] = output[v] \/ output'[v] = TornOutput
    BY <2>1 DEF Dies, TypeOK
  <2>. QED
    BY <1>0, <2>1, <2>2 DEF TornOutput
<1>. QED
  BY <1>2, <1>3, <1>4, <1>5, <1>6, <1>7
  DEF Next, UnitStep, AgentStep, ConfigChanged, PeerRelationChanged

\* No step forgets an executed run.
LEMMA NextRan == TypeOK /\ [Next]_charmVars => \A u \in Units : ran[u] \subseteq ran'[u]
<1> SUFFICES ASSUME TypeOK, [Next]_charmVars PROVE \A u \in Units : ran[u] \subseteq ran'[u]
  OBVIOUS
<1>1. CASE \E u \in Units : RecordRun(u)
  BY <1>1 DEF RecordRun, TypeOK
<1>2. CASE UNCHANGED ran
  BY <1>2
<1>. QED
  BY <1>1, <1>2
  DEF charmVars, unitVars, Next, SetConfig, UnitStep, AgentStep, Install, InstallFails, StartHook,
      ConfigChanged, PeerRelationChanged, BeginHook, PayloadWrites, ReportComplete, HookExits,
      CommitRefused, HookKilled, Reboot, Elect
=============================================================================
