---------------------------- MODULE Coordinator ----------------------------
(***************************************************************************)
(* One CLI (src/cli/juju_run.py) driving the charm's units: run_new, then  *)
(* run_reuse on the kept model.  Between any two awaits of the CLI the     *)
(* units, their machines and Juju move on, so what the CLI decides from a  *)
(* status snapshot may be out of date when it acts on it.                  *)
(*                                                                         *)
(* A wait of the CLI ends when every unit satisfies its predicate or when  *)
(* its deadline passes; time is not modelled, so a deadline may pass       *)
(* whenever the CLI waits.  Actions and `juju run` have no deadline: what   *)
(* is asked of a machine whose agent is gone stays unanswered.             *)
(***************************************************************************)
EXTENDS CharmUnits

CONSTANTS
  Overrides,   \* what --probe-timeout may ask for: timeouts, or NoOverride
  NoOverride,  \* the option is not given
  MaxLost      \* bound: machines whose agent is lost

ASSUME UnitsAssumption == Units \subseteq Nat   \* sorted() orders them
ASSUME OverridesAssumption == Overrides \subseteq Timeouts \cup {NoOverride}
                              /\ NoOverride \notin Timeouts
ASSUME LostAssumption == MaxLost \in Nat

VARIABLES
  agent,       \* per unit, its agent: "up", "lost", or lost and "noticed" by Juju
  cli,        \* where the CLI is
  asked,      \* --probe-timeout of this invocation
  placed,     \* units the model has: add_unit succeeded for their machine
  snapshot,   \* reuse: units active/idle in the first status read
  tried,      \* reuse: units whose topology file could not be read
  eligible,   \* unit_machines of _trigger_and_collect
  results,    \* answers of collect-results so far: unit -> output file
  waitingFor, \* units whose collect-results is outstanding
  missing,    \* <<unit, reason>> entries appended so far
  collected   \* units whose document is in the report

cliVars == <<cli, asked, placed, snapshot, tried, eligible, results, waitingFor, missing,
             collected>>
worldVars == <<charmVars, agent>>
vars == <<worldVars, cliVars>>

Reasons == {"placement-failed", "deployment-timeout", "probe-timeout", "no-probe-output",
            "stale-probe-output"}
Finished == {"reported", "failed"}
Running == {"deploying", "reading", "triggering", "waiting", "collecting"}

Entries(us, reason) == {<<u, reason>> : u \in us}
EmptyResults == [u \in {} |-> NoOutput]
\* _active_idle.  The status of a lost agent stays as it was until Juju notices.
SeenIdle(u) == ActiveIdle(u) /\ agent[u] # "noticed"
\* Faulty form: any active/idle unit counts as done.
ProbeCompleteLoosely(u) == SeenIdle(u)
\* _probe_complete(run_id)
ProbeComplete(u) == SeenIdle(u) /\ status[u] = Status("complete", config.run)
\* Actions and `juju run` queue behind a running hook, not behind a failed one.
RunsActions(u) == agent[u] = "up" /\ pc[u] \in {"idle", "error"}

-----------------------------------------------------------------------------
CoordInit ==
  /\ Init
  /\ agent = [u \in Units |-> "up"]
  /\ cli = "off"
  /\ asked = NoOverride
  /\ placed = {} /\ snapshot = {} /\ tried = {} /\ eligible = {}
  /\ results = EmptyResults /\ waitingFor = {}
  /\ missing = {} /\ collected = {}

\* run_new: model, charm, one add_unit per selected machine; a placement that
\* Juju refuses is recorded and the others go on.
Deploy(ok, t) ==
  /\ cli = "off"
  /\ cli' = "deploying"
  /\ asked' = t
  /\ placed' = ok
  /\ missing' = Entries(Units \ ok, "placement-failed")
  /\ UNCHANGED <<worldVars, snapshot, tried, eligible, results, waitingFor, collected>>

\* Faulty form: the first wait has no deadline.
DeployWaitEndsNever ==
  /\ cli = "deploying"
  /\ \A u \in placed : SeenIdle(u)
  /\ cli' = "triggering"
  /\ eligible' = placed
  /\ UNCHANGED <<worldVars, asked, placed, snapshot, tried, results, waitingFor, missing,
                 collected>>

\* First wait_for_units of run_new returns (ready, not_ready).
DeployWaitEnds ==
  /\ cli = "deploying"
  /\ cli' = "triggering"
  /\ eligible' = {u \in placed : SeenIdle(u)}
  /\ missing' = missing \cup Entries(placed \ eligible', "deployment-timeout")
  /\ UNCHANGED <<worldVars, asked, placed, snapshot, tried, results, waitingFor, collected>>


\* _trigger_and_collect: fresh run id, in one config change with the timeout
\* if one is asked for.  Config reaches every unit, eligible or not.
Trigger ==
  /\ cli = "triggering"
  /\ cli' = "waiting"
  /\ SetConfig(IF asked = NoOverride THEN config.timeout ELSE asked)
  /\ UNCHANGED <<agent, asked, placed, snapshot, tried, eligible, results, waitingFor, missing,
                 collected>>

\* Faulty form: a reason that the report schema does not know.
ProbeWaitEndsMislabelled ==
  /\ cli = "waiting"
  /\ cli' = "collecting"
  /\ waitingFor' = {u \in eligible : ProbeComplete(u)}
  /\ missing' = missing \cup Entries(eligible \ waitingFor', "timeout")
  /\ UNCHANGED <<worldVars, asked, placed, snapshot, tried, eligible, results, collected>>

\* Second wait_for_units returns (done, stragglers); collect-results is sent
\* to every unit that was done in that last snapshot.
ProbeWaitEnds ==
  /\ cli = "waiting"
  /\ cli' = "collecting"
  /\ waitingFor' = {u \in eligible : ProbeComplete(u)}
  /\ missing' = missing \cup Entries(eligible \ waitingFor', "probe-timeout")
  /\ UNCHANGED <<worldVars, asked, placed, snapshot, tried, eligible, results, collected>>

\* run_action returns doc, awaited by asyncio.gather.
Answer(u, doc) ==
  /\ cli = "collecting" /\ u \in waitingFor
  /\ RunsActions(u)
  /\ results' = [v \in DOMAIN results \cup {u} |-> IF v = u THEN doc ELSE results[v]]
  /\ waitingFor' = waitingFor \ {u}
  /\ UNCHANGED <<worldVars, cli, asked, placed, snapshot, tried, eligible, missing, collected>>

\* _on_collect_results on the unit.
ActionReturns(u) == Answer(u, output[u])

\* The action fails on the unit: its results are empty, without a document.
ActionFails(u) == Answer(u, NoOutput)

\* Faulty form: a stale document is noted as missing and aggregated all the same.
AggregateStaleToo ==
  LET absent == {u \in DOMAIN results : results[u].file = "absent"}
      torn == {u \in DOMAIN results : results[u].file = "torn"}
      stale == {u \in DOMAIN results : results[u].file = "whole" /\ results[u].run # config.run}
  IN /\ cli = "collecting" /\ waitingFor = {}
     /\ IF torn # {}
          THEN cli' = "failed" /\ UNCHANGED <<missing, collected>>
          ELSE /\ cli' = "reported"
               /\ missing' = missing \cup Entries(absent, "no-probe-output")
                                     \cup Entries(stale, "stale-probe-output")
               /\ collected' = DOMAIN results \ absent
     /\ UNCHANGED <<worldVars, asked, placed, snapshot, tried, eligible, results, waitingFor>>

\* The loop over the results: an unparsable document raises out of the run;
\* an absent one and one of another run are missing entries.
Aggregate ==
  LET absent == {u \in DOMAIN results : results[u].file = "absent"}
      torn == {u \in DOMAIN results : results[u].file = "torn"}
      stale == {u \in DOMAIN results : results[u].file = "whole" /\ results[u].run # config.run}
  IN /\ cli = "collecting" /\ waitingFor = {}
     /\ IF torn # {}
          THEN cli' = "failed" /\ UNCHANGED <<missing, collected>>
          ELSE /\ cli' = "reported"
               /\ missing' = missing \cup Entries(absent, "no-probe-output")
                                     \cup Entries(stale, "stale-probe-output")
               /\ collected' = DOMAIN results \ (absent \cup stale)
     /\ UNCHANGED <<worldVars, asked, placed, snapshot, tried, eligible, results, waitingFor>>

\* run_reuse reads the unit statuses, once.
Reuse(t) ==
  /\ cli \in Finished
  /\ config.run < MaxRun
  /\ cli' = "reading"
  /\ asked' = t
  /\ snapshot' = {u \in placed : SeenIdle(u)}
  /\ tried' = {} /\ eligible' = {} /\ results' = EmptyResults /\ waitingFor' = {}
  /\ missing' = {} /\ collected' = {}
  /\ UNCHANGED <<worldVars, placed>>

\* Then it looks for the topology file, unit by unit in name order, and goes
\* on with the statuses it read before.
NextToRead(u) == u \in placed \ tried /\ \A v \in placed \ tried : u <= v

ReadTopology(u) ==
  /\ cli = "reading" /\ NextToRead(u)
  /\ RunsActions(u)
  /\ cli' = "triggering"
  /\ eligible' = snapshot
  /\ missing' = Entries(placed \ snapshot, "no-probe-output")
  /\ UNCHANGED <<worldVars, asked, placed, snapshot, tried, results, waitingFor, collected>>

\* A unit whose install hook failed has no topology file; a unit whose agent
\* is not up yet, or no more, keeps the command queued.
TopologyUnreadable(u) ==
  /\ cli = "reading" /\ NextToRead(u)
  /\ agent[u] = "up"
  /\ pc[u] = "installing" /\ status[u].kind = "blocked"
  /\ tried' = tried \cup {u}
  /\ UNCHANGED <<worldVars, cli, asked, placed, snapshot, eligible, results, waitingFor,
                 missing, collected>>

\* "topology resource is unavailable"
NoTopology ==
  /\ cli = "reading" /\ placed \subseteq tried
  /\ cli' = "failed"
  /\ UNCHANGED <<worldVars, asked, placed, snapshot, tried, eligible, results, waitingFor,
                 missing, collected>>

\* SIGINT, or a call that raises, at any await: one unit's does in gather too.
Abort ==
  /\ cli \in Running
  /\ cli' = "failed"
  /\ UNCHANGED <<worldVars, asked, placed, snapshot, tried, eligible, results, waitingFor,
                 missing, collected>>

CliStep ==
  \/ DeployWaitEnds \/ Trigger \/ ProbeWaitEnds \/ Aggregate \/ NoTopology
  \/ \E u \in Units : ActionReturns(u) \/ ReadTopology(u) \/ TopologyUnreadable(u)

\* Only machines the model has come up, and they may go down for good.
PlacedUnitStep(u) ==
  /\ u \in placed /\ agent[u] = "up"
  /\ UnitStep(u)
  /\ UNCHANGED <<agent, cliVars>>

AgentLost(u) ==
  /\ u \in placed /\ agent[u] = "up"
  /\ Cardinality({v \in Units : agent[v] # "up"}) < MaxLost
  /\ agent' = [agent EXCEPT ![u] = "lost"]
  /\ UNCHANGED <<charmVars, cliVars>>

\* Juju shows the agent as lost once it has been silent for long enough.
LossNoticed(u) ==
  /\ agent[u] = "lost"
  /\ agent' = [agent EXCEPT ![u] = "noticed"]
  /\ UNCHANGED <<charmVars, cliVars>>

CoordNext ==
  \/ \E ok \in SUBSET Units, t \in Overrides : Deploy(ok, t)
  \/ \E t \in Overrides : Reuse(t)
  \/ CliStep
  \/ \E u \in Units : ActionFails(u) \/ PlacedUnitStep(u) \/ AgentLost(u) \/ LossNoticed(u)
  \/ Abort

CoordSpec == CoordInit /\ [][CoordNext]_vars

\* The CLI's own steps, deadlines included, and the hooks and actions of units
\* that are up go on.
CoordFairSpec ==
  /\ CoordSpec
  /\ WF_vars(CliStep)
  /\ \A u \in Units : WF_vars(AgentStep(u) /\ PlacedUnitStep(u))

-----------------------------------------------------------------------------
CoordTypeOK ==
  /\ TypeOK
  /\ agent \in [Units -> {"up", "lost", "noticed"}]
  /\ cli \in {"off"} \cup Running \cup Finished
  /\ asked \in Timeouts \cup {NoOverride}
  /\ {placed, snapshot, tried, eligible, waitingFor, collected} \subseteq SUBSET Units
  /\ DOMAIN results \subseteq Units /\ \A u \in DOMAIN results : results[u] \in Outputs
  /\ missing \subseteq Units \X Reasons

\* A report holds, for every unit it collected, a document of the run this
\* invocation triggered, probed with the timeout it asked for, or with the one
\* in force when it asked for none, whatever ran on the unit between its last
\* status and its answer (juju_run.py:129-134, 167-179).
CollectedIsCurrent ==
  cli = "reported" => \A u \in collected :
    /\ results[u].file = "whole" /\ results[u].run = config.run
    /\ results[u].timeout = IF asked = NoOverride THEN config.timeout ELSE asked

\* Every machine of the run is in the report exactly once: collected, or
\* missing for one reason.  The lists are built in four places over two waits.
AccountedOnce ==
  cli = "reported" => \A u \in placed \cup {e[1] : e \in missing} :
    Cardinality({e \in missing : e[1] = u}) = IF u \in collected THEN 0 ELSE 1

\* A document that spoils the collection, reported stale or so torn that it
\* ends the whole run, comes from a unit that did execute this run: the unit
\* was driven back to another run after its status was read
\* (juju_run.py:166-179).
SpoiltMeansOverwritten ==
  cli \in Finished => \A u \in Units :
    /\ <<u, "stale-probe-output">> \in missing =>
         u \in DOMAIN results /\ config.run \in ran[u] /\ results[u].run # 0
    /\ u \in DOMAIN results /\ results[u].file = "torn" => config.run \in ran[u]

\* An invocation ends by itself, with a report or an error, unless it asks a
\* machine that does not answer: reuse for the topology file of one that is not
\* up, or the collection for the document of one lost after its last status.
CliFinishes ==
  cli \in Running ~>
    \/ cli \in Finished
    \/ cli = "reading" /\ \E u \in placed : NextToRead(u) /\ (~Installed(u) \/ agent[u] # "up")
    \/ cli = "collecting" /\ \E u \in waitingFor : agent[u] # "up"
=============================================================================
