----------------------------- MODULE CharmUnits -----------------------------
(***************************************************************************)
(* The network-tester charm (src/charm/src/charm.py): one unit per tested  *)
(* machine, and the part of Juju the charm talks to.                       *)
(*                                                                         *)
(* A unit's agent runs one hook at a time.  A probe run is requested by a  *)
(* new probe-run-id in the model's configuration; every unit learns of it  *)
(* through its own config-changed hook, and the leader also writes it to   *)
(* the application databag of the peer relation, which reaches the other   *)
(* units as relation-changed once the leader's hook has exited.  Both      *)
(* hooks end in _maybe_run_probe, which compares the id with the one in    *)
(* the last-probe-run-id file.                                             *)
(*                                                                         *)
(* What is Juju's and not the charm's (queueing of hooks, commit of        *)
(* relation data at hook exit, leadership, retry of failed hooks, start    *)
(* after a reboot) is modelled from how the charm relies on it.            *)
(***************************************************************************)
EXTENDS Naturals, FiniteSets

CONSTANTS
  Units,         \* units of the application
  Timeouts,      \* values of the probe-timeout option
  DefaultTimeout,\* its default in charmcraft.yaml
  MaxRun,        \* bound: run ids ever issued
  MaxFaults,     \* bound: killed hooks and reboots
  MaxElections   \* bound: changes of leader

ASSUME DefaultAssumption == DefaultTimeout \in Timeouts
ASSUME BoundsAssumption == MaxRun \in Nat /\ MaxFaults \in Nat /\ MaxElections \in Nat

VARIABLES
  config,     \* model configuration: probe-run-id (0: empty) and probe-timeout
  databag,    \* committed probe-run-id of the peer relation (0: never written)
  leader,     \* the unit Juju holds for leader
  pending,    \* per unit, hooks Juju has queued
  pc,         \* per unit, where its agent is
  hook,       \* per unit, the hook being run or to be retried
  arg,        \* per unit, run id and timeout of the payload being run
  write,      \* per unit, run id to commit to the databag at hook exit (0: none)
  started,    \* per unit, whether its first start hook has run
  status,     \* per unit, workload status and message set by the charm
  last,       \* per unit, content of last-probe-run-id (0: no file)
  output,     \* per unit, the probe output file
  ran,        \* history: per unit, the run ids it recorded as executed
  faults,     \* killed hooks and reboots so far
  elections   \* changes of leader so far

unitVars == <<pending, pc, hook, arg, write, started, status, last, output, ran>>
charmVars == <<config, databag, leader, unitVars, faults, elections>>

Runs == 0 .. MaxRun
Hooks == {"config", "relation", "start"}
Busy == {"probing", "written", "logged", "exiting"}

Configs == [run : Runs, timeout : Timeouts]
Statuses == [kind : {"installing", "blocked", "ready", "running", "complete"}, run : Runs]
Outputs == [file : {"absent", "torn", "whole"}, run : Runs, timeout : Timeouts]

Status(k, r) == [kind |-> k, run |-> r]
NoOutput == [file |-> "absent", run |-> 0, timeout |-> DefaultTimeout]
TornOutput == [file |-> "torn", run |-> 0, timeout |-> DefaultTimeout]
\* Faulty form, for mutation: write_output drops probe_run_id.
DocumentUnstamped(a) == [file |-> "whole", timeout |-> a.timeout]
Document(a) == [file |-> "whole", run |-> a.run, timeout |-> a.timeout]

Installed(u) == pc[u] # "installing"
\* What `juju status` shows: a failed hook overrides the charm's own status.
ActiveIdle(u) == pc[u] = "idle" /\ status[u].kind \in {"ready", "complete"}

-----------------------------------------------------------------------------
Init ==
  /\ config = [run |-> 0, timeout |-> DefaultTimeout]
  /\ databag = 0
  /\ leader \in Units
  /\ pending = [u \in Units |-> {}]
  /\ pc = [u \in Units |-> "installing"]
  /\ hook = [u \in Units |-> "none"]
  /\ arg = [u \in Units |-> [run |-> 0, timeout |-> DefaultTimeout]]
  /\ write = [u \in Units |-> 0]
  /\ started = [u \in Units |-> FALSE]
  /\ status = [u \in Units |-> Status("installing", 0)]
  /\ last = [u \in Units |-> 0]
  /\ output = [u \in Units |-> NoOutput]
  /\ ran = [u \in Units |-> {}]
  /\ faults = 0
  /\ elections = 0

\* The operator sets a fresh probe-run-id, and probe-timeout if asked to
\* (t \in Timeouts); every installed unit is due a config-changed.
SetConfig(t) ==
  /\ config.run < MaxRun
  /\ config' = [run |-> config.run + 1, timeout |-> t]
  /\ pending' = [u \in Units |-> IF Installed(u) THEN pending[u] \cup {"config"} ELSE pending[u]]
  /\ UNCHANGED <<databag, leader, pc, hook, arg, write, started, status, last, output, ran,
                 faults, elections>>

\* _on_install succeeds: first config-changed is due here, and the peers
\* already in the relation see the unit join.
Install(u) ==
  /\ pc[u] = "installing"
  /\ pc' = [pc EXCEPT ![u] = "idle"]
  /\ pending' = [v \in Units |->
       CASE v = u -> {"config"} \cup (IF \E w \in Units : Installed(w) THEN {"relation"} ELSE {})
         [] v # u /\ Installed(v) -> pending[v] \cup {"relation"}
         [] OTHER -> pending[v]]
  /\ status' = [status EXCEPT ![u] = Status("installing", 0)]
  /\ UNCHANGED <<config, databag, leader, hook, arg, write, started, last, output, ran,
                 faults, elections>>

\* _on_install without topology resource or with unknown MACs: Blocked, raise.
InstallFails(u) ==
  /\ pc[u] = "installing"
  /\ status[u].kind = "installing"
  /\ status' = [status EXCEPT ![u] = Status("blocked", 0)]
  /\ UNCHANGED <<config, databag, leader, pending, pc, hook, arg, write, started, last, output,
                 ran, faults, elections>>

\* _on_start, first after install and again after every reboot.
StartHook(u) ==
  /\ pc[u] = "idle" /\ "start" \in pending[u]
  /\ pending' = [pending EXCEPT ![u] = @ \ {"start"}]
  /\ started' = [started EXCEPT ![u] = TRUE]
  /\ status' = [status EXCEPT ![u] = Status("ready", 0)]
  /\ UNCHANGED <<config, databag, leader, pc, hook, arg, write, last, output, ran,
                 faults, elections>>

\* Juju dispatches a queued hook k on an idle unit, or the failed one again.
Dispatches(u, k) ==
  \/ /\ pc[u] = "idle"
     /\ k \in pending[u] /\ "start" \notin pending[u]
     /\ k = "relation" => started[u]
  \/ pc[u] = "error" /\ hook[u] = k

\* Faulty form: "running probe" is not shown.
MaybeRunProbeQuietly(u, r) ==
  IF r = 0 \/ r = last[u]
    THEN /\ pc' = [pc EXCEPT ![u] = "exiting"]
         /\ UNCHANGED <<arg, status>>
    ELSE /\ pc' = [pc EXCEPT ![u] = "probing"]
         /\ arg' = [arg EXCEPT ![u] = [run |-> r, timeout |-> config.timeout]]
         /\ UNCHANGED status

\* _maybe_run_probe up to the payload: an empty or already recorded id
\* returns without touching the status.
MaybeRunProbe(u, r) ==
  IF r = 0 \/ r = last[u]
    THEN /\ pc' = [pc EXCEPT ![u] = "exiting"]
         /\ UNCHANGED <<arg, status>>
    ELSE /\ pc' = [pc EXCEPT ![u] = "probing"]
         /\ arg' = [arg EXCEPT ![u] = [run |-> r, timeout |-> config.timeout]]
         /\ status' = [status EXCEPT ![u] = Status("running", r)]

BeginHook(u, k) ==
  /\ Dispatches(u, k)
  /\ hook' = [hook EXCEPT ![u] = k]
  /\ pending' = [pending EXCEPT ![u] = @ \ {k}]
  /\ UNCHANGED <<config, databag, leader, started, last, output, ran, faults, elections>>

\* Faulty form: the leader writes only when it is about to probe.
ConfigChangedWritesOnce(u) ==
  /\ BeginHook(u, "config")
  /\ write' = [write EXCEPT ![u] =
       IF config.run \notin {0, last[u]} /\ leader = u THEN config.run ELSE 0]
  /\ MaybeRunProbe(u, config.run)

\* _on_config_changed: the leader's relation write waits for the hook's exit.
ConfigChanged(u) ==
  /\ BeginHook(u, "config")
  /\ write' = [write EXCEPT ![u] = IF config.run # 0 /\ leader = u THEN config.run ELSE 0]
  /\ MaybeRunProbe(u, config.run)

\* _on_peer_relation_changed: the id is the committed one, whatever the
\* configuration holds by now.
PeerRelationChanged(u) ==
  /\ BeginHook(u, "relation")
  /\ write' = [write EXCEPT ![u] = 0]
  /\ MaybeRunProbe(u, databag)

\* The payload exits 0: its last act was to write the output file.
PayloadWrites(u) ==
  /\ pc[u] = "probing"
  /\ pc' = [pc EXCEPT ![u] = "written"]
  /\ output' = [output EXCEPT ![u] = Document(arg[u])]
  /\ UNCHANGED <<config, databag, leader, pending, hook, arg, write, started, status, last, ran,
                 faults, elections>>

\* LAST_RUN_PATH.write_text(run_id)
RecordRun(u) ==
  /\ pc[u] = "written"
  /\ pc' = [pc EXCEPT ![u] = "logged"]
  /\ last' = [last EXCEPT ![u] = arg[u].run]
  /\ ran' = [ran EXCEPT ![u] = @ \cup {arg[u].run}]
  /\ UNCHANGED <<config, databag, leader, pending, hook, arg, write, started, status, output,
                 faults, elections>>

\* ActiveStatus("probe <run-id> complete")
ReportComplete(u) ==
  /\ pc[u] = "logged"
  /\ pc' = [pc EXCEPT ![u] = "exiting"]
  /\ status' = [status EXCEPT ![u] = Status("complete", arg[u].run)]
  /\ UNCHANGED <<config, databag, leader, pending, hook, arg, write, started, last, output, ran,
                 faults, elections>>

\* The hook exits: Juju commits the databag, and queues what follows.
HookExits(u) ==
  /\ pc[u] = "exiting"
  /\ write[u] # 0 => leader = u
  /\ pc' = [pc EXCEPT ![u] = "idle"]
  /\ hook' = [hook EXCEPT ![u] = "none"]
  /\ write' = [write EXCEPT ![u] = 0]
  /\ databag' = IF write[u] = 0 THEN databag ELSE write[u]
  /\ pending' = [v \in Units |->
       CASE v = u /\ hook[u] = "config" /\ ~started[u] -> pending[v] \cup {"start"}
         [] v # u /\ Installed(v) /\ databag' # databag -> pending[v] \cup {"relation"}
         [] OTHER -> pending[v]]
  /\ UNCHANGED <<config, leader, arg, started, status, last, output, ran, faults, elections>>

\* A unit that lost leadership may not write application data: the hook fails.
CommitRefused(u) ==
  /\ pc[u] = "exiting" /\ write[u] # 0 /\ leader # u
  /\ pc' = [pc EXCEPT ![u] = "error"]
  /\ write' = [write EXCEPT ![u] = 0]
  /\ UNCHANGED <<config, databag, leader, pending, hook, arg, started, status, last, output, ran,
                 faults, elections>>

\* Faulty form: the payload's exit code is not checked.
DiesQuietly(u) ==
  /\ pc' = [pc EXCEPT ![u] = "exiting"]
  /\ UNCHANGED write
  /\ \/ output' = output
     \/ pc[u] = "probing" /\ output' = [output EXCEPT ![u] = TornOutput]

\* A running hook dies (payload exit code, hook timeout, agent crash): its
\* relation write is lost, and a payload killed while writing tears the file.
Dies(u) ==
  /\ pc' = [pc EXCEPT ![u] = "error"]
  /\ write' = [write EXCEPT ![u] = 0]
  /\ \/ output' = output
     \/ pc[u] = "probing" /\ output' = [output EXCEPT ![u] = TornOutput]

HookKilled(u) ==
  /\ pc[u] \in Busy
  /\ faults < MaxFaults
  /\ faults' = faults + 1
  /\ Dies(u)
  /\ UNCHANGED <<config, databag, leader, pending, hook, arg, started, status, last, ran, elections>>

\* The machine reboots: Juju will run start again.
Reboot(u) ==
  /\ started[u]
  /\ faults < MaxFaults
  /\ faults' = faults + 1
  /\ IF pc[u] \in Busy THEN Dies(u) ELSE UNCHANGED <<pc, write, output>>
  /\ pending' = [pending EXCEPT ![u] = @ \cup {"start"}]
  /\ UNCHANGED <<config, databag, leader, hook, arg, started, status, last, ran, elections>>

Elect(u) ==
  /\ u # leader
  /\ elections < MaxElections
  /\ leader' = u
  /\ elections' = elections + 1
  /\ UNCHANGED <<config, databag, unitVars, faults>>

\* Steps of one unit's agent, in the order a hook takes them.
AgentStep(u) ==
  \/ StartHook(u) \/ ConfigChanged(u) \/ PeerRelationChanged(u)
  \/ PayloadWrites(u) \/ RecordRun(u) \/ ReportComplete(u)
  \/ HookExits(u) \/ CommitRefused(u)

UnitStep(u) ==
  \/ Install(u) \/ InstallFails(u) \/ AgentStep(u)
  \/ HookKilled(u) \/ Reboot(u) \/ Elect(u)

Next ==
  \/ \E t \in Timeouts : SetConfig(t)
  \/ \E u \in Units : UnitStep(u)

Spec == Init /\ [][Next]_charmVars

\* Juju keeps dispatching queued hooks and retrying failed ones, and a payload
\* ends on its own timer; faults, elections and installs owe nothing.
AgentFairness == \A u \in Units : WF_charmVars(AgentStep(u))
FairSpec == Spec /\ AgentFairness

-----------------------------------------------------------------------------
TypeOK ==
  /\ config \in Configs
  /\ databag \in Runs
  /\ leader \in Units
  /\ pending \in [Units -> SUBSET Hooks]
  /\ pc \in [Units -> {"installing", "idle", "error"} \cup Busy]
  /\ hook \in [Units -> {"none", "config", "relation"}]
  /\ arg \in [Units -> Configs]
  /\ write \in [Units -> Runs]
  /\ started \in [Units -> BOOLEAN]
  /\ status \in [Units -> Statuses]
  /\ last \in [Units -> Runs]
  /\ output \in [Units -> Outputs]
  /\ ran \in [Units -> SUBSET Runs]
  /\ faults \in 0 .. MaxFaults
  /\ elections \in 0 .. MaxElections

\* A unit that shows "probe R complete" has the whole output of run R on disk
\* and R recorded as its last run, through every crash, retry, reboot and
\* stale re-trigger: the message is the CLI's primary freshness gate
\* (juju_run.py:167) and must never outlive the file it vouches for.
CompleteMeansFresh ==
  \A u \in Units : status[u].kind = "complete" =>
    /\ output[u].file = "whole" /\ output[u].run = status[u].run
    /\ last[u] = status[u].run

\* The peer databag names a run only after some unit has executed it to the
\* end: relation data commits when the leader's hook exits, after its probe,
\* so the catch-up path never makes a follower probe ahead of the leader
\* (charm.py:76-83).
DatabagFollowsProbe == databag # 0 => \E u \in Units : databag \in ran[u]

\* While leadership is stable, once run ids stop changing every installed unit
\* ends with the newest one as its last run, however often its hooks die and
\* whatever older ids the databag feeds it on the way: config-changed and the
\* relation write together leave no unit behind (charm.py:79-83).
Converges ==
  [](elections = 0) => \A u \in Units : <>[](Installed(u) => last[u] = config.run)

\* While leadership is stable, once run ids stop changing the peer databag
\* ends with the newest one: the leader writes a non-empty probe-run-id to the
\* peer relation when it is set (README.md:186), also when its hook dies after
\* recording the run and before committing the write.
Propagates == [](elections = 0) => <>[](Installed(leader) => databag = config.run)
=============================================================================
