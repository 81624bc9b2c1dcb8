# A TLA+ model of network-tester

network-tester validates the network of a set of machines before they are used.
A CLI (`src/cli`) reads the machines from MAAS, deploys one unit of a Juju charm
(`src/charm`) on each, triggers a probe run, collects one JSON document per
machine and turns the documents into a report with an exit code. This directory
holds TLA+ modules of that program, TLC configurations that check them on small
instances, and proofs checked by TLAPS. Line numbers in the modules and below
refer to the sources under `src/`.

    tlc -workers 2 -config coord.cfg Coordinator     # one run
    tlapm CoordinatorProofs.tla                             # one proof module

## 1. The system

```
 operator ── SIGINT, destroy-model
    │
 CLI  main.py ── juju_run.py ────────── Juju controller ───── units (charm.py), one per machine
    │   report_generator.py    config,    hooks, databag,        │ hook runs the payload
    │                          status,    leadership             ▼
    │                          actions               probe.py ── probe_runner.py
    ▼                                                   phase 1: bond, vlan   (threads)
 report, exit code  ◄── documents (JSON) ◄──            phase 2: mtu          (thread)
                                                        phase 3: bgp          (thread)
```

| Component | State it keeps | Operations | Hard behaviour | What makes it correct |
|---|---|---|---|---|
| charm unit (`charm.py`) | workload status, `last-probe-run-id`, output file, peer databag | install, start, config-changed, relation-changed hooks; collect-results | the same id arrives by two ways, ids coalesce or come late, hooks die and are retried, the leader changes, reboots | "probe R complete" vouches for the file; every unit ends with the newest id |
| CLI coordination (`juju_run.py`) | which machines were placed, finished, collected or missing, and why | deploy and wait, trigger and wait, gather, aggregate, reuse | the units go on between two awaits; deadlines race completions; a reused model has a history | a report holds only this run's documents, and every machine once |
| CLI lifecycle (`main.py`) | `model_holder`, exit code, hints printed | run, reuse, keep, destroy, wait, SIGINT | interruptions anywhere; concurrent invocations; slow destruction | machines are released or the operator is told how |
| probe runner (`probe_runner.py`) | phase, cancellation (lock, reason, event, registry), sections | run phases, cancel, terminate, register, flush, write | validator threads, deadline and a signal handler interleave with the lock's critical sections | one reason, no child left over, an output always, "complete" means whole |
| VLAN validator | plans, attempted and answered peers | sweeps, classification, ICMP pass, flush | killed children look like silent peers | definitive findings are true |
| MTU validator | binary search | DF pings | filtered ICMP, interruptions | a measured MTU is a lower bound, and close |
| BGP inference | remaining racks, records | ping representative, fallback, traceroute | killed children look like broken paths | what is blamed is broken |
| representative selection | none (pure) | source, target and fallback of a rack | the payload and the report must agree | |
| report generator | the report | VLAN edges, rack links, MTU asymmetry, MAC manifest, exit code | documents missing, partial, interrupted or contradicting | exit code 0 vouches for the network |
| bond validator | captures, LACP actors heard | capture, compare with the host, flush | a capture cut short looks like a silent switch | a finding is true of the cabling |
| MAAS topology (`maas_topology.py`) | the topology document | two requests, rack and role derivation, selection, retained peers, preflight | the inventory changes between the requests; machines out of scope must still be recognised | whoever can be heard is known |
| dry-run plan (`plan_checks`) | none (pure) | lists the checks a run will make | must agree with what validators and report derive, which is separate code on another host | what is probed and judged was announced |
| schemas | none (pure) | validation of JSON documents | | not modelled |
| test bed (`src/testbed`) | a virtual lab | scripts | | not part of the program |

Interactions: the CLI writes `probe-run-id` and `probe-timeout` to the model
configuration and reads unit status and action results; units speak to each
other only through the peer databag; the hook starts the payload and trusts its
exit code and its file; the payload's threads share the `Cancellation`; the
report joins the documents of machines that shared nothing while they probed.

## 2. The modules

| Module | Models | Composes |
|---|---|---|
| `CharmUnits` | the charm's hooks and the Juju they rely on | |
| `Coordinator` | `run_new`, `run_reuse`, `_trigger_and_collect` | EXTENDS `CharmUnits`: CLI and units interleave |
| `CliRun` | `cmd_run`, `_deploy_and_report`, `_reuse_and_report`, SIGINT, the model's life | |
| `ProbeOutcome` | what one payload promises its hook (abstract) | |
| `ProbeRunner` | `run_probe`, `Cancellation`, the validator threads | implements `ProbeOutcome` |
| `Representatives` | `representatives.py` (pure) | |
| `CrossRack` | `bgp_inference.run`, the report's rack links, exit code | EXTENDS `Representatives` |
| `VlanNeighbors` | `vlan_neighbor_validator.run`, the report's VLAN edges, exit code | |
| `PathMtu` | `mtu_validator._measure_mtu` | |
| `BondCapture` | `bond_validator.run` | |
| `CrossRackMtu` | two payloads' phases 1 and 2, the report's MTU asymmetry, exit code | EXTENDS `PathMtu`, INSTANCE of `BondCapture` |
| `MaasTopology` | `maas_topology.py`: fetch, derivations, selection, preflight | |
| `CheckUniverse` | `plan_checks`, `derive_peer_sets`, `_expected_l2_edges` | EXTENDS `MaasTopology`, INSTANCE of `Representatives` |
| `CharmUnitsProofs`, `CoordinatorProofs`, `ProbeRunnerProofs`, `CliRunProofs`, `CrossRackProofs`, `VlanNeighborsProofs`, `CrossRackMtuProofs`, `CheckUniverseProofs` | theorems and their proofs | each EXTENDS the module it is named after; `CoordinatorProofs` builds on `CharmUnitsProofs` |
| `MCCrossRack`, `MCVlanNeighbors`, `MCCrossRackMtu`, `MCCheckUniverse` | small topologies for TLC | |

### CharmUnits

Per unit: `pc` is where the agent is (`idle`, inside a hook, in `error`),
`pending` the hooks Juju has queued, `status`, `last` and `output` what the
charm writes. A hook is several actions, because it can die between them:
`ConfigChanged` or `PeerRelationChanged` up to the payload (`_maybe_run_probe`
with its early return), `PayloadWrites`, `RecordRun`, `ReportComplete`,
`HookExits`. The leader's write of the databag is held in `write` until the hook
exits, as Juju commits relation data then, and is lost if it dies; if leadership
moved meanwhile the commit is refused (`CommitRefused`) and the hook retried.
`HookKilled` stands for the payload's exit code, the hook timeout and an agent
crash; a payload killed while writing tears the file, which it writes in place.
Run ids are natural numbers in the order they were issued; 0 is "none".
Everything that is Juju's (queueing, retry, leadership, commit, `start` after a
reboot) is external and modelled from how the charm uses it.

### Coordinator

`cli` is the await the CLI is in. `Deploy`, `DeployWaitEnds`, `Trigger`,
`ProbeWaitEnds`, `ActionReturns` and `Aggregate` are the pieces of `run_new` and
`_trigger_and_collect` between two awaits; `Reuse`, `ReadTopology`,
`TopologyUnreadable` and `NoTopology` those of `run_reuse`. A wait ends with
the status snapshot it last saw, all done or deadline expired. Between any two
pieces the units of `CharmUnits` take steps of their own. The reasons of
missing entries are the code's. `agent` says whether a machine still answers: a
lost one (`AgentLost`) takes no step any more and leaves actions and commands
unanswered, and its status stays what it was until Juju notices (`LossNoticed`).
An action that fails on its unit returns no document (`ActionFails`); a call
that raises ends the run (`Abort`), with the other units' documents.

### CliRun

Each client is one invocation; its model bears its name. `holder` is
`model_holder["model"]`, `told` the models its messages named. `Connect` is
where `run_reuse` fills the holder; `run_new` does so in `HoldModel`, when it has
returned. Connecting may fail (`ConnectFails`), a controller
call can fail anywhere (`CallFails`), SIGINT comes anywhere, `disconnect` may
raise in the `finally` clause (`Disconnect`), and the operator may destroy the
models she was told about.

### ProbeRunner and ProbeOutcome

`frames` is the main thread's stack of `cancel` and `terminate_processes`
calls: SIGTERM pushes a `cancel` on top of whatever runs, also on a call that
holds a lock. There are two, neither reentrant: the cancellation's own
(`Acquire`, `SetReason`, `CopyRegistry`) and the one inside
`threading.Event.set()` (`AcquireEvent`, `SetEvent`, `ReleaseEvent`). `Register`
is one critical
section, so `KillLate` (register's own kill) and `KillVictims` share the work
as in the code. A validator is the loop all four share: test the event, spawn,
register, wait. A document that does not validate or cannot be written ends the
payload without a whole file (`WriteFails`). `ProbeOutcome` says the same of the
reason, the ending and the file only; `KeepsPromise` is the refinement.

### Representatives, CrossRack

The network is chosen at the start: which machines answer, which links are cut,
which representatives have a definitive phase-1 finding. `left` is the set of
remote racks still to probe, taken in the order of their names (`Remote`). The
representatives probe in turn, since they share nothing before the report. An interruption
kills every child from then on: one that is started later is killed as it
registers, so a traceroute started after the interruption has no hop to show
(`StartTraceroute`), while one killed on its way leaves the hops it had
(`TracerouteEnds`). `Verdict`, `FailingAlone`, `TargetUnhealthy`,
`Directional`, `Unconfirmed`, `Indeterminate` are the branches of
`_reconcile_bgp_link`, written as sets of directed paths over all links at once.

### VlanNeighbors

The wire is chosen at the start too: edges on which ARP is not answered, edges
on which ICMP is not, independently, since a ping is routed while ARP is not.
`todo` is the rest of the plan in the current pass, visited interface by
interface (`Upcoming`); `sent` the arpings of the
sweep in flight. `SpawnArping`, `ReapSweep`, `WaitForSweep`, `WindowCloses`,
`Classify`, `StartPing`, `PingEnds`, `Complete` follow `run`; `Flush` is
`_flush_unattempted` with its `return`. A ping uses a raw socket, which no
interruption touches, or, on a machine that may not open one (`Unprivileged`), a
child, which an interruption kills (`Answered`). A working edge may lose single replies
(`lost`). The cap that also ends the spawning of a sweep falls into the last
one, whose peers earlier sweeps have attempted, and is not a step. What the passive capture hears of neighbours that are not expected is
a free choice in `Classify`. `Direction`, `Passed`, `NoData`, `Unidirectional`
and `Skipped` are the report's.

### PathMtu, BondCapture, CrossRackMtu

`PathMtu` is one measurement: hops of a path with their MTU and whether they
report a dropped packet; the machine's own interface always does. `TopOfLoop`,
`StandardProbe`, `JumboProbe` and `SearchStep` are the interruption check and
the pings of `_measure_mtu` with their early returns. From an interruption on
every ping is a killed one.

`BondCapture` is `bond_validator.run`: the cabling and both ends' LACP modes are
chosen at the start, `Hear` is an inbound PDU in a capture, the window closes
when every port that speaks was heard (it is longer than the slow LACP rate),
`Judge` compares, and `WindowCut` is the interruption that flushes.

`CrossRackMtu` puts them together. A payload listens on its bonds (phase 1),
then measures (phase 2) unless it was interrupted, writes a document, which is
collected or not; `GenerateReport` compares the two directions as
`_classify_mtu` does. `Asymmetric`, `Unmeasured`, `Incomplete` and `Failed` are
the report's. Two abstractions keep the state space small and lose no document:
the two machines, which share nothing while they probe, go one after the other,
and only the first has bonds; and what no later step reads is overwritten with
one fixed value (`Forget` after the verdict, `EndMeasurement` after the document
is written). The document carries the facts about the path and the cabling that
the properties compare it with.

### MaasTopology, CheckUniverse

The inventory (how each machine is configured, which are Ready, which controller
leads which VLAN) is chosen at the start. `GetRackControllers` and `GetMachines`
are the two requests, and controllers may register between them. `MachineRack`,
`Role`, `Selection`, `Retained` and `Failures` are the derivations of the same
names in the code. A segment is a (fabric, VLAN) pair and a node has at most
one interface on each, a bond standing for its members; what a link gives is its
kind: nothing (`link_up`), a subnet without an address yet (`auto`), or both. A
`bridge` is listed by MAAS and not recorded in the document: racks, roles and
retention read `Listed`, everything after the document reads `On`.

`CheckUniverse` adds the three readings of the document: `VlanLines` and
`PlanChecks` (the CLI), `Expected`, `OutOfScope` and `Forbidden` (the validator),
`ExpectedEdges`, `Judged` and `Skipped` (the report). The plan's lines about
bonds and the text of each line are left out. `Follow` is the operator who does
what the report advises: a second run is asked for with one more node, any that
ends a skipped edge, and goes through selection, preflight and plan again, on
the same inventory, with the rack controllers read anew.

## 3. The runs

Nine passing runs, and three that show a disagreement.

| Run | Instance | States | Shows |
|---|---|---|---|
| `charm` | 2 units, 2 run ids, 1 fault, 1 election, agent fairness | 306k | `CompleteMeansFresh`, `DatabagFollowsProbe`, and, without an election, `Converges` and `Propagates` |
| `coord` | 2 units, a new run and a reuse, 2 timeouts, the other one asked for, 1 fault | 1.99M | `CollectedIsCurrent`, `AccountedOnce`, `SpoiltMeansOverwritten` |
| `coord_live` | 1 unit, a new run and two reuses, 2 timeouts, an override asked for or not, 2 faults, 1 lost agent, fair CLI and agents | 128k | `CollectedIsCurrent` with left-over overrides, `CliFinishes` |
| `runner` | 4 validators, 3 phases, 2 SIGTERMs | 306k | `CompleteIsWhole`, `FlushedAgrees`, `PhasesApart`, `NoLeakedChild`, `EndsUnlessSelfDeadlock`, refinement of `ProbeOutcome` |
| `cli` | 2 concurrent invocations | 7.6k | `ReportCodeReleases`, `LeftoverIsNamedAfterReport`, `NotDestroyedUnseen`, `InvocationEnds` |
| `crossrack` | racks of 2, 2 and 1 machines, 2 troubles, 2 interruptions, any documents | 459k | `CleanMeansOpen`, `OneHostIsNotTheFabric`, `LinkAccounted`, `UnreachableIsTrue` |
| `vlan` | 4 machines under test, one of them without raw sockets, and one not, 2 segments, 2 sweeps, 2 troubles, 1 interruption | 608k | `CleanMeansConnected`, `DefinitiveIsTrue`, `UnidirectionalMeansCutShort` |
| `mtu` | an interface of 3 MTUs and 2 hops of 6; a bond of 3 members on 2 switches; interruption in either phase of each machine | 1.28M | `BondFindingIsTrue`, `MeasuredIsClose`, `ReportIsTrue` |
| `universe` | 3 machines of 10 configurations, 2 controllers, 3 segments, 3 leaderships, any request, a second run | 2.06M | `ViewsAgree`, `NeighboursKnown`, `AdviceIsRight` |
| `runner_sigterm` | 1 SIGTERM | | violates `SigtermWritesOutput` |
| `cli_sigint` | 2 invocations | | violates `InterruptNamesModel` |
| `vlan_killed` | as `vlan` | | violates `CutShortIsInconclusive` |

Why these bounds are enough. Two run ids are needed for an id to be stale, and
two units for one to lead and one to follow; the charm compares ids only for
equality, and followers do not see one another. One fault reaches every pair of
a hook's steps, as a killed hook is retried from its start. Two SIGTERMs let
one interrupt the handling of the other. Two invocations suffice for every race
on a model, as each step concerns one model. Three racks are the least in which
a representative has a second remote rack to be interrupted before, and racks
of one and two machines differ in having a fallback target. Two troubles let
both sides of a link go wrong. Two sweeps let an answer be kept over a later
silence. Two hops let one bottleneck hide another; the MTUs are the standard
sizes, their neighbours and values between the points of the binary search. A
bond of three members has a silent one beside two that disagree. Three machines
let one be under test, one retained and one added; the ten configurations are
every role, boot interface on and off the chosen VLAN, each kind of address, an
interface that is listed only, and each thing preflight refuses. Left-over
timeouts, lost agents and liveness are checked on one unit, with three runs and
two faults: an override is a value of the model, and an await on several units
ends no sooner for one of them; two units are where documents go stale, and
`coord` has those.
Every bound on faults, elections, signals, troubles and interruptions is a
named constant of its module.

Deadlock is not checked: in each module the program ends (a report, an exit, an
idle unit), and the modules end with it. What must go on is a liveness property
instead.

Fairness. `charm`: Juju keeps dispatching queued hooks, retries failed
ones, and a payload ends by its own timer, so each agent's step is weakly fair;
faults, elections, installation and new ids owe nothing, and the two liveness
properties are about behaviours without an election. `coord_live`: the
CLI's own steps are fair, since both of its waits have
deadlines and the asyncio loop runs; an action or a command returns only if its
unit's agent is up, as nothing else ends that await, and the agents that are up
go on, because `collect-results` runs only once a hook has ended. A lost agent
owes nothing: the two exceptions of `CliFinishes` are the code's two awaits
without a deadline, the `cat` of `run_reuse` (`juju_run.py:271`) and the
collection (`juju_run.py:149`, `427`). Failing calls are not assumed. `runner`:
only the
main thread is fair; its deadlines pass, a validator may hang in a command for
ever. `cli`: each invocation's steps are fair except where it waits for units'
agents without a deadline (`Unbounded`), and that calls to the controller itself
return or raise is assumed; the controller need never finish
destroying a model and the operator need never act.

### The disagreements

`runner_sigterm`. `Cancellation._lock` is not reentrant, and the SIGTERM handler
runs `cancel` on the main thread. If that thread is inside `cancel("timeout")`
or `terminate_processes` and holds the lock, or inside `Event.set()` and holds
the event's, the handler waits for itself: no output is written, while `probe_runner.py:23-24` says it is within five seconds.

`cli_sigint`. `model_holder` is filled when `run_new` has returned
(`main.py:263`). SIGINT, or a failure, during deployment or probing says that
there is nothing to clean up, although the model exists; `src/README.md:173`
says the message names it.

`vlan_killed`. Where raw sockets are refused, the VLAN validator pings with a
child that it registers (`vlan_neighbor_validator.py:258-289`). The timeout
kills the child, its output has no loss figure, and line 272 reads that as 100%
loss: the peer gets the definitive finding `icmp-unreachable` although it
answers. `src/README.md:157` lists checks that could not be completed (timeout,
cancelled) as inconclusive. `DefinitiveIsTrue` says that this is all that can go
wrong: at most one such finding on an interrupted machine of that kind.

Smaller observations made with these modules, which no run repeats:

- `probe-timeout` given for one run stays in the charm's configuration, because
  it is set only when asked for (`juju_run.py:130-131`): a later run on the same
  model that asks for none probes with it, while `src/README.md:130` says the
  option is for this run. `CollectedIsCurrent` therefore has "the one in force".
- Rack controllers are in the topology and never in scope, so an edge between a
  machine under test and a controller is always counted as skipped, and the
  report says to add the controller (`report_generator.py:152`). A selection that
  names it ends with "Unknown node". `AdviceIsRight` says that for machines the
  advice comes to what it says.
- A run id executed before may be executed again: the guard compares with the
  last id only, and the databag can deliver an older one after a newer one (a
  follower runs 1 and 2 from its own hooks, then 1 from the databag, and 2 once
  more when the leader has written it). The comment at `charm.py:82-83` says the
  guard dedups the double trigger. It costs a probe and shows as
  `stale-probe-output` at worst: `CompleteMeansFresh` and `CollectedIsCurrent`
  hold regardless.
- A unit that finishes a run and reboots before the CLI reads its status says
  "ready" again (`charm.py:71`) and is reported as `probe-timeout`, although it
  has the output.
- With one change of leader `Propagates` and `Converges` would fail, which is why
  both assume none: a new leader
  whose config-changed was dispatched before its election does not write the
  id, so the databag keeps an older one, and a unit that receives it after the
  newest id ends with the older run.
- A pair of machines that shares two segments is judged by the pair: on a
  segment where neither has an address nothing is probed, and a confirmation on
  the other one passes the edge (`report_generator.py:66-76`). A pair of which
  one machine has no address on any shared segment is always warned of as
  unidirectional.
- A hop that reports its MTU ends the measurement although a narrower one may
  be behind it (`mtu_validator.py:86`); `MeasuredIsClose` leaves those paths out.
- Two directions that carry the same packets may be warned of as asymmetric: by
  up to the search's resolution if one of them filters ICMP errors, and by more
  if one was interrupted in the search (`report_generator.py:392-425`).
- One bond member that hears nothing beside members that do is not flagged
  (`bond_validator.py:228`).
- The plan announces VLAN checks that no validator makes: those of a machine
  toward a management machine, and those toward a peer with no static address on
  a shared segment. A management machine may only be checked against its rack
  controller, and rack controllers are never in scope, so it probes nobody.
- A node that is on a segment with a bridge only is retained for that segment and
  recorded without it, so a validator that hears it calls it unexpected
  (`maas_topology.py:219-220`, `289-292`).
- A traceroute that the interruption kills on its way is recorded with the hops
  it had, as an inferred failure of the path (`bgp_inference.py:108-134`). It
  runs only when both pings before it went unanswered without an interruption,
  so `OneHostIsNotTheFabric` holds regardless.
- If a second rack controller registers between the two requests, the machines
  whose VLAN it leads fall to the only controller known then, or, if more are
  known, to no rack, which preflight refuses (`maas_topology.py:112`).

## 4. What is proved

TLAPS checks these theorems for every value of the constants. Every safety
invariant of the runs is the statement of one of them, under the same name.

| Module | Theorem | Statement |
|---|---|---|
| `CharmUnitsProofs` | `TypeCorrect` | `Spec => []TypeOK` |
| | `CompleteIsFresh` | `Spec => []CompleteMeansFresh` |
| | `DatabagIsExecuted` | `Spec => []DatabagFollowsProbe` |
| `CoordinatorProofs` | `CoordTypeCorrect` | `CoordSpec => []CoordTypeOK` |
| | `CoordinatorRefinesCharm` | `CoordSpec => Spec`: under the CLI the units do nothing they would not do on their own |
| | `NoStaleDocument` | `CoordSpec => []CollectedIsCurrent` |
| | `EveryUnitAccounted` | `CoordSpec => []AccountedOnce` |
| | `SpoiltWasOverwritten` | `CoordSpec => []SpoiltMeansOverwritten` |
| `ProbeRunnerProofs` | `RunnerTypeCorrect` | `Spec => []TypeOK` |
| | `DocumentVouches` | `Spec => []CompleteIsWhole` |
| | `FirstReasonWins` | `Spec => []FlushedAgrees` |
| | `PhasesDoNotOverlap` | `Spec => []PhasesApart` |
| | `NoChildIsLeaked` | `Spec => []NoLeakedChild` |
| | `RunnerImplements` | `Spec => KeepsPromise`: the runner refines `ProbeOutcome` |
| `CliRunProofs` | `CliTypeCorrect` | `Spec => []TypeOK` |
| | `ReportReleases` | `Spec => []ReportCodeReleases` |
| | `LeftoverIsNamed` | `Spec => []LeftoverIsNamedAfterReport` |
| | `DestroyedWithReport` | `Spec => []NotDestroyedUnseen` |
| `CrossRackProofs` | `CrossTypeCorrect` | `Spec => []TypeOK` |
| | `CleanExitVouches` | `Spec => []CleanMeansOpen` |
| | `OneSilentHost` | `Spec => []OneHostIsNotTheFabric` |
| | `EveryLinkAccounted` | `Spec => []LinkAccounted` |
| | `UnreachableAreSilent` | `Spec => []UnreachableIsTrue` |
| `VlanNeighborsProofs` | `VlanTypeCorrect` | `Spec => []TypeOK` |
| | `FindingsAreAboutTheWire` | `Spec => []DefinitiveIsTrue` |
| | `CleanExitConnects` | `Spec => []CleanMeansConnected` |
| | `OneSidedIsCutShort` | `Spec => []UnidirectionalMeansCutShort` |
| `CrossRackMtuProofs` | `MtuTypeCorrect` | `RepSpec => []RepTypeOK` |
| | `FindingsAreTrue` | `RepSpec => []BondFindingIsTrue` |
| | `MeasurementIsClose` | `RepSpec => []MeasuredIsClose` |
| | `ReportVouches` | `RepSpec => []ReportIsTrue` |
| `CheckUniverseProofs` | `PlanTypeCorrect` | `Spec => []TypeOK` |
| | `EveryNeighbourKnown` | `Spec => []NeighboursKnown` |
| | `ThreeViewsAgree` | `Spec => []ViewsAgree` |
| | `WiderIsBetter` | `Spec => []AdviceIsRight` |
| | `CrossRackPlanTotal` | `Spec => []CrossRackPlanIsTotal` |

The assumptions are those the modules state about their constants: bounds are
natural numbers; units, machines, racks and segments are numbers, standing for
names the code sorts; inventories, segments and the members of a bond are
finite; a bond's members are its own; machines and controllers are disjoint and
"no machine", "no rack", "no model" are none of them; the default timeout is one
of the timeouts and an override is one of them or none; MTUs are positive. One is about
the situation: `RacksAssumption`, that there is more than one rack, without
which there is no path to probe and the report says nothing of cross-rack
routing.

### The arguments

**CharmUnits.** `CompleteMeansFresh` is not inductive: what happens at
`ReportComplete` depends on what the hook did before. `Fresh` strengthens it
along the hook: from `written` on the file is the document of the run in `arg`,
from `logged` on the last-run file names that run, and while a probe is going on
the status is not "complete". That last conjunct is what makes the torn file
harmless, since `Dies` tears it only while probing. `DatabagFollowsProbe` needs
`Committable`: the write that waits for the hook's exit is the run being
executed, or, once the handler has returned, one that the unit has executed.
When `_maybe_run_probe` returns early because `last` already is that id, this
follows from `last[u] \in ran[u]`.

**Coordinator.** `CollectedIsCurrent` is about a document read after the status
that vouched for it, while its unit goes on. `OfConfig` says that any output or
running payload that bears the current run id bears the current timeout: the two
are set together, and a payload reads the timeout when it starts. `ResultsInv`
carries that over to the documents the CLI holds until `Aggregate` compares
their ids, and keeps that an override asked for is the timeout in force. `AccountedOnce` is a partition kept across two waits: at each place
of the CLI, the machines still in the running and those with a missing entry
are disjoint and make up the placed ones, and no machine has two entries
(`AccountInv`). `SpoiltMeansOverwritten` uses the charm's invariant: the status
that let a unit into the collection named the configured run, so that run was
executed, and what is found instead, stale or torn, is another run's output.

**ProbeRunner.** Four invariants, each needing the ones before it. `CallsInv`:
whatever the depth of the stack of interrupted calls, the event is set only
after the reason, and a reason without the event has a call on the stack that
will set it. `ScheduleInv`: a phase's threads are off before it, started in it
and over after it; the one exception, a phase left early, needs a cancellation
in progress. `SectionsInv`: what each section says, along its thread and the
main thread's assembly. `KillersInv`: a child that is registered after the event
was set has either its own thread, late, or a call on the stack that has yet to
kill it. The refinement maps `SetReason`, the write, its failure, the raise and
the fatal SIGTERM to the promise's steps and every other step to a stutter.

**CliRun.** `Lifecycle` says of one invocation what the order of steps in
`main.py` establishes: until it reuses a model its target is its own, the holder
names the target from the report to the destruction, and only an invocation that
does not keep its model destroys it, after its report.

**CrossRack.** `EvidenceInv` says what each record of a probe is evidence of:
`representative` that both ends answer and nothing is cut, `fallback` that the
representative does not, `inferred` that nothing on either target can answer.
`ProgressInv` is what makes it inductive: having reached the fallback or the
traceroute rules the earlier answers out, or the probe was interrupted; having
started the traceroute (`hops`) rules them out for certain, since a child started
later does not live.
The report is the last step (`NextReport`), so its properties are proved where
it is generated, by cases on the verdicts of a path and its reverse.

**VlanNeighbors.** `SilenceInv` counts: every entry on a working adjacency that
no sweep has heard has cost one lost reply for each sweep that was reaped, as
long as nothing was interrupted. After the last sweep a silent peer is cut off
or `MaxSweeps` replies are gone, which is the first part of `DefinitiveIsTrue`.
A ping killed by the interruption is the last of its machine (`LastPingInv`),
which bounds the findings it makes untrue. `JudgedInv` and
`PastInv` say that an uninterrupted run has found what is wrong with every entry
it no longer has to do, and keeps having done so while the other machines probe;
the report's two properties follow where it is generated.

**CrossRackMtu.** `MtuInv` is the argument of a binary search: the lower end has
passed, the upper end has not, unless an interruption killed the ping, and
`Span` bounds their distance by the number of halvings. `CaptureInv`: what was
heard speaks, and a bond is judged once all that speaks was heard.
`DocumentsInv` carries both into the documents, whose comparison is
`ReportIsTrue`.

**CheckUniverse.** `PlanInv`: once fetched, the topology stays the one derived
from its own selection of Ready machines, preflight has found nothing wrong when
a plan is made, and the plan is the one `plan_checks` makes of it. For a second
run `EarlierInv` adds that the earlier document is the one the same controllers
would give again, and was not refused; `WiderIsBetter` then blames a refusal on
the only machine that is new. The properties then compare derivations from the same inventory; `ViewsAgree` rests
on the two forms of the management machines' restriction being one relation
(`RestrictionsAgree`).

Only model-checked: liveness (`Converges`, `Propagates`, `CliFinishes`,
`EndsUnlessSelfDeadlock`, `InvocationEnds`), which rests on fairness and
ENABLED, beyond the prover. The three properties that the code violates are
TLC's counterexamples.

## 5. What is not modelled, and the plan

Left out for good: packet and command-output parsing, the JSON schemas (they
validate documents field by field, with no state and no order), the MAC
manifest and the text of the report, the HTTP client, the test bed,
`status_lines` (it only reads). The clock: run ids and model names have a
resolution of one second, and two triggers within one second would be one; the
model issues fresh ids. A section is dumped in one step: its status is its
first key and is set last, so a status of "complete" has the records that belong
to it. That `skip_reason` may be added while the dictionary is being iterated
is left out: the validator adds it before its first command, seconds before.

Every safety invariant of the runs has its theorem, and `CrossRackPlanIsTotal`,
which no run repeats, has one too. What is left to prove, the
most useful first:

1. `BondCapture` and `PathMtu` by themselves, as specifications of one payload
   rather than within `CrossRackMtu`.
2. Lemmas between components: that the peers a machine probes in
   `VlanNeighbors` are those `CheckUniverse` derives from a topology, and the
   racks of `CrossRack` those of its plan.
3. Action properties: that the last-run file of a unit changes only through
   `RecordRun`, that a cancellation's reason is never replaced, that the
   coordinator's missing entries are never withdrawn.
