------------------------- MODULE CoordinatorProofs -------------------------
(***************************************************************************)
(* Theorems about Coordinator: it drives the units of CharmUnits only by   *)
(* steps CharmUnits allows, so what is proved of the units holds under the *)
(* CLI, and a report holds only documents of the run just triggered.       *)
(***************************************************************************)
EXTENDS Coordinator, CharmUnitsProofs, FiniteSetTheorems

\* A step of the CLI leaves the units alone, except for the trigger, which is
\* a config change; a step of a placed unit is a step of that unit.
LEMMA StepsRefine == CoordTypeOK /\ [CoordNext]_vars => [Next]_charmVars
<1> SUFFICES ASSUME CoordTypeOK, [CoordNext]_vars PROVE [Next]_charmVars
  OBVIOUS
<1>1. CASE UNCHANGED vars
  BY <1>1 DEF vars, worldVars
<1>2. ASSUME NEW ok \in SUBSET Units, NEW t \in Overrides, Deploy(ok, t) PROVE UNCHANGED charmVars
  BY <1>2 DEF Deploy, worldVars
<1>3. ASSUME NEW t \in Overrides, Reuse(t) PROVE UNCHANGED charmVars
  BY <1>3 DEF Reuse, worldVars
<1>4. CASE Trigger
  <2>1. (IF asked = NoOverride THEN config.timeout ELSE asked) \in Timeouts
    BY DEF CoordTypeOK, TypeOK, Configs
  <2>. QED
    BY <1>4, <2>1 DEF Trigger, Next
<1>5. CASE DeployWaitEnds \/ ProbeWaitEnds \/ Aggregate \/ NoTopology \/ Abort
  BY <1>5 DEF DeployWaitEnds, ProbeWaitEnds, Aggregate, NoTopology, Abort, worldVars
<1>6. ASSUME NEW u \in Units,
             \/ ActionReturns(u) \/ ReadTopology(u) \/ TopologyUnreadable(u) \/ ActionFails(u)
             \/ AgentLost(u) \/ LossNoticed(u)
      PROVE  UNCHANGED charmVars
  BY <1>6 DEF ActionReturns, ReadTopology, TopologyUnreadable, ActionFails, Answer, AgentLost,
              LossNoticed, worldVars
<1>7. ASSUME NEW u \in Units, PlacedUnitStep(u) PROVE Next
  BY <1>7 DEF PlacedUnitStep, Next
<1>. QED
  BY <1>1, <1>2, <1>3, <1>4, <1>5, <1>6, <1>7 DEF CoordNext, CliStep

\* The CLI starts with no model.
LEMMA InitCoordType == CoordInit => CoordTypeOK
  BY InitType DEF CoordInit, CoordTypeOK, EmptyResults, Running, Finished

\* Entries for units, with a reason of the schema, are missing entries.
LEMMA EntriesType ==
  ASSUME NEW us \in SUBSET Units, NEW reason \in Reasons
  PROVE  Entries(us, reason) \subseteq Units \X Reasons
  BY DEF Entries

\* What a failed action brings is an output like any other.
LEMMA NoOutputType == NoOutput \in Outputs
  BY DefaultAssumption, BoundsAssumption DEF NoOutput, Outputs, Runs

\* The CLI's sets stay within the units the model has.
LEMMA NextCoordType == CoordTypeOK /\ [CoordNext]_vars => CoordTypeOK'
<1> SUFFICES ASSUME CoordTypeOK, [CoordNext]_vars PROVE CoordTypeOK'
  OBVIOUS
<1>0. TypeOK'
  BY StepsRefine, NextType DEF CoordTypeOK
<1> USE <1>0 DEF CoordTypeOK, Running, Finished, worldVars
<1>1. CASE UNCHANGED vars
  BY <1>1 DEF vars, cliVars
<1>2. ASSUME NEW ok \in SUBSET Units, NEW t \in Overrides, Deploy(ok, t) PROVE CoordTypeOK'
  <2>1. missing' \subseteq Units \X Reasons
    <3>1. "placement-failed" \in Reasons
      BY DEF Reasons
    <3>. QED
      BY <1>2, <3>1, EntriesType DEF Deploy
  <2>. QED
    BY <1>2, <2>1, OverridesAssumption DEF Deploy
<1>3. ASSUME NEW t \in Overrides, Reuse(t) PROVE CoordTypeOK'
  BY <1>3, OverridesAssumption DEF Reuse, EmptyResults
<1>4. CASE Trigger
  BY <1>4 DEF Trigger
<1>5. CASE DeployWaitEnds
  <2>1. "deployment-timeout" \in Reasons
    BY DEF Reasons
  <2>2. Entries(placed \ eligible', "deployment-timeout") \subseteq Units \X Reasons
    BY <2>1, EntriesType
  <2>. QED
    BY <1>5, <2>2 DEF DeployWaitEnds
<1>6. CASE ProbeWaitEnds
  <2>1. "probe-timeout" \in Reasons
    BY DEF Reasons
  <2>2. Entries(eligible \ waitingFor', "probe-timeout") \subseteq Units \X Reasons
    BY <2>1, EntriesType
  <2>. QED
    BY <1>6, <2>2 DEF ProbeWaitEnds
<1>7. CASE Aggregate
  <2>1. "no-probe-output" \in Reasons /\ "stale-probe-output" \in Reasons
    BY DEF Reasons
  <2>2. \A us \in SUBSET Units : /\ Entries(us, "no-probe-output") \subseteq Units \X Reasons
                               /\ Entries(us, "stale-probe-output") \subseteq Units \X Reasons
    BY <2>1, EntriesType
  <2>3. missing' \subseteq Units \X Reasons /\ collected' \in SUBSET Units
    BY <1>7, <2>2 DEF Aggregate
  <2>4. /\ UNCHANGED <<agent, asked, placed, snapshot, tried, eligible, results, waitingFor>>
        /\ cli' \in {"failed", "reported"}
    BY <1>7 DEF Aggregate
  <2>. QED
    BY <2>3, <2>4
<1>8. CASE NoTopology \/ Abort
  BY <1>8 DEF NoTopology, Abort
<1>9. ASSUME NEW u \in Units, ActionReturns(u) \/ ActionFails(u) PROVE CoordTypeOK'
  <2>1. PICK doc \in Outputs : Answer(u, doc)
    BY <1>9, NoOutputType DEF ActionReturns, ActionFails, TypeOK
  <2>. QED
    BY <2>1 DEF Answer
<1>10. ASSUME NEW u \in Units, ReadTopology(u) PROVE CoordTypeOK'
  <2>1. "no-probe-output" \in Reasons
    BY DEF Reasons
  <2>2. Entries(placed \ snapshot, "no-probe-output") \subseteq Units \X Reasons
    BY <2>1, EntriesType
  <2>. QED
    BY <1>10, <2>2 DEF ReadTopology
<1>11. ASSUME NEW u \in Units, TopologyUnreadable(u) PROVE CoordTypeOK'
  BY <1>11 DEF TopologyUnreadable, NextToRead
<1>12. ASSUME NEW u \in Units, PlacedUnitStep(u) \/ AgentLost(u) \/ LossNoticed(u)
       PROVE  CoordTypeOK'
  BY <1>12 DEF PlacedUnitStep, AgentLost, LossNoticed, cliVars
<1>. QED
  BY <1>1, <1>2, <1>3, <1>4, <1>5, <1>6, <1>7, <1>8, <1>9, <1>10, <1>11, <1>12
  DEF CoordNext, CliStep

\* The CLI's state is always of its type, with the units' behind it.
THEOREM CoordTypeCorrect == CoordSpec => []CoordTypeOK
  BY InitCoordType, NextCoordType, PTL DEF CoordSpec

\* Under the CLI the units behave as CharmUnits says, so its safety theorems
\* hold of every run the CLI drives.
THEOREM CoordinatorRefinesCharm == CoordSpec => Spec
<1>1. CoordInit => Init
  BY DEF CoordInit
<1>. QED
  BY <1>1, StepsRefine, CoordTypeCorrect, PTL DEF CoordSpec, Spec

-----------------------------------------------------------------------------
\* What the CLI holds of a unit is a document of no newer run than the
\* configured one, and a report was made of documents of that very run.  From the
\* trigger on the timeout in force is the one that was asked for, if any was.
ResultsInv ==
  /\ cli \in {"waiting", "collecting", "reported"} /\ asked # NoOverride => config.timeout = asked
  /\ \A u \in DOMAIN results : results[u].file = "whole" => OfConfig(results[u])
  /\ CollectedIsCurrent

\* Results are copies of output files, filtered by the run id before the report.
LEMMA NextResults ==
  CoordTypeOK /\ ConfigInv /\ ResultsInv /\ [CoordNext]_vars => ResultsInv'
<1> SUFFICES ASSUME CoordTypeOK, ConfigInv, ResultsInv, [CoordNext]_vars PROVE ResultsInv'
  OBVIOUS
<1> USE DEF ResultsInv, CollectedIsCurrent, OfConfig, worldVars
<1>1. CASE UNCHANGED vars
  BY <1>1 DEF vars, charmVars, cliVars
<1>2. ASSUME NEW ok \in SUBSET Units, NEW t \in Overrides, Deploy(ok, t) PROVE ResultsInv'
  BY <1>2 DEF Deploy, charmVars
<1>3. ASSUME NEW t \in Overrides, Reuse(t) PROVE ResultsInv'
  BY <1>3 DEF Reuse, EmptyResults, charmVars
<1>4. CASE Trigger
  <2>1. /\ config.run \in Nat /\ config'.run = config.run + 1 /\ cli' = "waiting"
        /\ UNCHANGED <<results, asked>> /\ (asked # NoOverride => config'.timeout = asked)
    BY <1>4, BoundsAssumption DEF Trigger, SetConfig, CoordTypeOK, TypeOK, Configs, Runs
  <2>2. \A u \in DOMAIN results : results[u].run \in Nat
    BY BoundsAssumption DEF CoordTypeOK, Outputs, Runs
  <2>. QED
    BY <2>1, <2>2
<1>5. CASE DeployWaitEnds \/ ProbeWaitEnds \/ NoTopology \/ Abort
  BY <1>5 DEF DeployWaitEnds, ProbeWaitEnds, NoTopology, Abort, charmVars
<1>6. CASE Aggregate
  <2>1. UNCHANGED <<config, results, asked>> /\ cli = "collecting"
    BY <1>6 DEF Aggregate, charmVars
  <2>2. ASSUME cli' = "reported", NEW u \in collected'
        PROVE  results[u].file = "whole" /\ results[u].run = config.run /\ u \in DOMAIN results
    <3>1. /\ {w \in DOMAIN results : results[w].file = "torn"} = {}
          /\ u \in DOMAIN results
          /\ results[u].file # "absent"
          /\ ~(results[u].file = "whole" /\ results[u].run # config.run)
      BY <1>6, <2>2 DEF Aggregate
    <3>2. results[u].file \in {"absent", "torn", "whole"}
      BY <3>1 DEF CoordTypeOK, Outputs
    <3>. QED
      BY <3>1, <3>2
  <2>. QED
    BY <2>1, <2>2
<1>7. ASSUME NEW u \in Units, ActionReturns(u) \/ ActionFails(u) PROVE ResultsInv'
  <2>1. PICK doc : Answer(u, doc) /\ (doc.file = "whole" => OfConfig(doc))
    BY <1>7 DEF ActionReturns, ActionFails, NoOutput, ConfigInv
  <2>. QED
    BY <2>1 DEF Answer, charmVars
<1>8. ASSUME NEW u \in Units,
             ReadTopology(u) \/ TopologyUnreadable(u) \/ AgentLost(u) \/ LossNoticed(u)
      PROVE  ResultsInv'
  BY <1>8 DEF ReadTopology, TopologyUnreadable, AgentLost, LossNoticed, charmVars, cliVars
<1>9. ASSUME NEW u \in Units, PlacedUnitStep(u) PROVE ResultsInv'
  <2>1. config' = config
    BY <1>9 DEF PlacedUnitStep, UnitStep, AgentStep, Install, InstallFails, StartHook,
                ConfigChanged, PeerRelationChanged, BeginHook, PayloadWrites, RecordRun,
                ReportComplete, HookExits, CommitRefused, HookKilled, Reboot, Elect
  <2>. QED
    BY <1>9, <2>1 DEF PlacedUnitStep, cliVars
<1>. QED
  BY <1>1, <1>2, <1>3, <1>4, <1>5, <1>6, <1>7, <1>8, <1>9 DEF CoordNext, CliStep

\* No report ever holds a document of another run, or one probed under another
\* timeout than the one it asked for (the one in force, if it asked for none),
\* for any number of units, runs and faults, and whatever the units did between
\* two awaits of the CLI.
THEOREM NoStaleDocument == CoordSpec => []CollectedIsCurrent
<1>1. CoordInit => ConfigInv /\ ResultsInv
  BY InitConfig DEF CoordInit, ResultsInv, CollectedIsCurrent, EmptyResults
<1>2. CoordTypeOK /\ ConfigInv /\ [CoordNext]_vars => ConfigInv'
  BY StepsRefine, NextConfig DEF CoordTypeOK
<1>3. ResultsInv => CollectedIsCurrent
  BY DEF ResultsInv
<1>. QED
  BY <1>1, <1>2, <1>3, CoordTypeCorrect, NextResults, PTL DEF CoordSpec

-----------------------------------------------------------------------------
\* The units with a missing entry.
Named(entries) == {e[1] : e \in entries}
\* No unit has two entries.
Functional(entries) == \A e, f \in entries : e[1] = f[1] => e = f
NoStale(entries) == \A e \in entries : e[2] # "stale-probe-output"

\* A partition of the placed units: those named missing, and those still in
\* the running or collected.
Partition(us) == Named(missing) \cap us = {} /\ placed \subseteq Named(missing) \cup us

\* Wherever the CLI is, every placed unit is named missing once or still in the
\* running, and never both.
AccountInv ==
  /\ Functional(missing)
  /\ cli = "deploying" => Partition(placed)
  /\ cli = "reading" => snapshot \subseteq placed
  /\ cli \in {"triggering", "waiting"} => eligible \subseteq placed /\ Partition(eligible)
  /\ cli \in {"off", "deploying", "triggering", "waiting", "reading"} => DOMAIN results = {}
  /\ cli = "collecting" => /\ DOMAIN results \cap waitingFor = {}
                           /\ Partition(DOMAIN results \cup waitingFor)
  /\ cli = "reported" => Partition(collected)

\* What Entries adds to a list of missing entries.
LEMMA AddEntries ==
  ASSUME NEW m \in SUBSET (Units \X Reasons), NEW us \in SUBSET Units, NEW reason,
         Functional(m), Named(m) \cap us = {}
  PROVE  /\ Functional(m \cup Entries(us, reason))
         /\ Named(m \cup Entries(us, reason)) = Named(m) \cup us
         /\ NoStale(m) /\ reason # "stale-probe-output" => NoStale(m \cup Entries(us, reason))
<1>1. \A e \in Entries(us, reason) : e[1] \in us /\ e[2] = reason /\ e = <<e[1], reason>>
  BY DEF Entries
<1>2. \A u \in us : <<u, reason>> \in Entries(us, reason) /\ <<u, reason>>[1] = u
  BY DEF Entries
<1>3. \A e \in m : e[1] \in Named(m)
  BY DEF Named
<1>4. Functional(m \cup Entries(us, reason))
  <2> SUFFICES ASSUME NEW e \in m \cup Entries(us, reason), NEW f \in m \cup Entries(us, reason),
                      e[1] = f[1]
               PROVE  e = f
    BY DEF Functional
  <2>1. CASE e \in m /\ f \in m
    BY <2>1 DEF Functional
  <2>2. CASE e \in Entries(us, reason) /\ f \in Entries(us, reason)
    BY <1>1, <2>2
  <2>3. CASE (e \in m /\ f \in Entries(us, reason)) \/ (e \in Entries(us, reason) /\ f \in m)
    BY <1>1, <1>3, <2>3
  <2>. QED
    BY <2>1, <2>2, <2>3
<1>5. Named(m \cup Entries(us, reason)) = Named(m) \cup us
  <2>1. Named(m \cup Entries(us, reason)) = Named(m) \cup Named(Entries(us, reason))
    BY DEF Named
  <2>2. Named(Entries(us, reason)) = us
    BY <1>1, <1>2 DEF Named, Zenon
  <2>. QED
    BY <2>1, <2>2
<1>. QED
  BY <1>1, <1>4, <1>5 DEF NoStale

\* The first list of an invocation.
LEMMA FirstEntries ==
  ASSUME NEW us \in SUBSET Units, NEW reason
  PROVE  Functional(Entries(us, reason)) /\ Named(Entries(us, reason)) = us
<1>1. Functional({}) /\ Named({}) = {} /\ {} \in SUBSET (Units \X Reasons)
  BY DEF Functional, Named
<1>2. Named({}) \cap us = {}
  BY <1>1
<1>3. /\ Functional({} \cup Entries(us, reason))
      /\ Named({} \cup Entries(us, reason)) = Named({}) \cup us
  BY <1>1, <1>2, AddEntries
<1>4. {} \cup Entries(us, reason) = Entries(us, reason)
  OBVIOUS
<1>. QED
  BY <1>1, <1>3, <1>4

\* A wait splits the units in the running: those that satisfied its predicate
\* go on, the others are named; the loop over the results does the same.
LEMMA NextAccount == CoordTypeOK /\ AccountInv /\ [CoordNext]_vars => AccountInv'
<1> SUFFICES ASSUME CoordTypeOK, AccountInv, [CoordNext]_vars PROVE AccountInv'
  OBVIOUS
<1>0. /\ placed \subseteq Units /\ snapshot \subseteq Units /\ eligible \subseteq Units
      /\ waitingFor \subseteq Units /\ DOMAIN results \subseteq Units
      /\ missing \in SUBSET (Units \X Reasons)
  BY DEF CoordTypeOK
<1> USE DEF AccountInv, Partition
<1>1. CASE UNCHANGED cliVars
  BY <1>1 DEF cliVars
<1>2. ASSUME NEW ok \in SUBSET Units, NEW t \in Overrides, Deploy(ok, t) PROVE AccountInv'
  <2>1. /\ missing' = Entries(Units \ ok, "placement-failed") /\ placed' = ok
        /\ cli' = "deploying" /\ DOMAIN results' = {}
    BY <1>2 DEF Deploy
  <2>2. Functional(missing') /\ Named(missing') = Units \ ok
    BY <2>1, FirstEntries
  <2>. QED
    BY <2>1, <2>2
<1>3. ASSUME NEW t \in Overrides, Reuse(t) PROVE AccountInv'
  <2>1. Functional({}) /\ DOMAIN EmptyResults = {}
    BY DEF Functional, EmptyResults
  <2>. QED
    BY <1>3, <2>1 DEF Reuse
<1>4. CASE DeployWaitEnds
  <2>1. /\ cli = "deploying" /\ cli' = "triggering" /\ eligible' \subseteq placed
        /\ placed' = placed /\ results' = results
        /\ missing' = missing \cup Entries(placed \ eligible', "deployment-timeout")
    BY <1>4 DEF DeployWaitEnds
  <2>2. placed \ eligible' \in SUBSET Units /\ Named(missing) \cap (placed \ eligible') = {}
    BY <1>0, <2>1
  <2>3. Functional(missing') /\ Named(missing') = Named(missing) \cup (placed \ eligible')
    BY <1>0, <2>1, <2>2, AddEntries
  <2>. QED
    BY <2>1, <2>3
<1>5. CASE Trigger
  BY <1>5 DEF Trigger
<1>6. CASE ProbeWaitEnds
  <2>1. /\ cli = "waiting" /\ cli' = "collecting" /\ waitingFor' \subseteq eligible
        /\ placed' = placed /\ results' = results
        /\ missing' = missing \cup Entries(eligible \ waitingFor', "probe-timeout")
    BY <1>6 DEF ProbeWaitEnds
  <2>2. /\ eligible \ waitingFor' \in SUBSET Units
        /\ Named(missing) \cap (eligible \ waitingFor') = {}
    BY <1>0, <2>1
  <2>3. Functional(missing') /\ Named(missing') = Named(missing) \cup (eligible \ waitingFor')
    BY <1>0, <2>1, <2>2, AddEntries
  <2>. QED
    BY <2>1, <2>3
<1>7. CASE Aggregate
  <2> DEFINE absent == {u \in DOMAIN results : results[u].file = "absent"}
             stale == {u \in DOMAIN results :
                         results[u].file = "whole" /\ results[u].run # config.run}
  <2>1. /\ cli = "collecting" /\ waitingFor = {} /\ UNCHANGED <<placed, results>>
        /\ \/ cli' = "failed" /\ missing' = missing
           \/ /\ cli' = "reported"
              /\ missing' = (missing \cup Entries(absent, "no-probe-output"))
                              \cup Entries(stale, "stale-probe-output")
              /\ collected' = DOMAIN results \ (absent \cup stale)
    BY <1>7 DEF Aggregate
  <2>2. CASE cli' = "failed"
    BY <2>1, <2>2
  <2>3. CASE cli' = "reported"
    <3> DEFINE m == missing \cup Entries(absent, "no-probe-output")
    <3>0. absent \in SUBSET Units /\ Named(missing) \cap absent = {}
      BY <1>0, <2>1
    <3>1. Functional(m) /\ Named(m) = Named(missing) \cup absent
      <4> HIDE DEF absent
      <4>. QED
        BY <1>0, <3>0, AddEntries
    <3>2. "no-probe-output" \in Reasons
      BY DEF Reasons
    <3>3. m \in SUBSET (Units \X Reasons)
      BY <1>0, <3>2, EntriesType
    <3>4. Named(m) \cap stale = {} /\ stale \in SUBSET Units
      BY <1>0, <2>1, <3>1
    <3> HIDE DEF m
    <3>5. /\ Functional(m \cup Entries(stale, "stale-probe-output"))
          /\ Named(m \cup Entries(stale, "stale-probe-output")) = Named(m) \cup stale
      BY <3>1, <3>3, <3>4, AddEntries, ZenonT(30)
    <3>6. missing' = m \cup Entries(stale, "stale-probe-output")
      BY <2>1, <2>3 DEF m
    <3>. QED
      BY <2>1, <2>3, <3>1, <3>5, <3>6
  <2>. QED
    BY <2>1, <2>2, <2>3
<1>8. ASSUME NEW u \in Units, ActionReturns(u) \/ ActionFails(u) PROVE AccountInv'
  BY <1>8 DEF ActionReturns, ActionFails, Answer
<1>9. ASSUME NEW u \in Units, ReadTopology(u) PROVE AccountInv'
  <2>1. /\ missing' = Entries(placed \ snapshot, "no-probe-output") /\ cli = "reading"
        /\ cli' = "triggering" /\ eligible' = snapshot /\ UNCHANGED <<placed, results>>
    BY <1>9 DEF ReadTopology
  <2>2. Functional(missing') /\ Named(missing') = placed \ snapshot
    BY <1>0, <2>1, FirstEntries
  <2>. QED
    BY <2>1, <2>2
<1>10. CASE NoTopology \/ Abort \/ \E u \in Units : TopologyUnreadable(u)
  BY <1>10 DEF NoTopology, Abort, TopologyUnreadable
<1>11. ASSUME NEW u \in Units, PlacedUnitStep(u) \/ AgentLost(u) \/ LossNoticed(u)
       PROVE  AccountInv'
  BY <1>1, <1>11 DEF PlacedUnitStep, AgentLost, LossNoticed
<1>. QED
  BY <1>1, <1>2, <1>3, <1>4, <1>5, <1>6, <1>7, <1>8, <1>9, <1>10, <1>11
  DEF CoordNext, CliStep, vars

\* Every machine of the run is in the report exactly once, collected or missing
\* for one reason, for any number of units and whatever happens to them: the
\* lists are built in four places over two waits (juju_run.py:128-186).
THEOREM EveryUnitAccounted == CoordSpec => []AccountedOnce
<1>1. CoordInit => AccountInv
  BY DEF CoordInit, AccountInv, EmptyResults, Functional
<1>2. AccountInv => AccountedOnce
  <2> SUFFICES ASSUME AccountInv, cli = "reported", NEW u \in placed \cup Named(missing)
               PROVE  Cardinality({e \in missing : e[1] = u}) = IF u \in collected THEN 0 ELSE 1
    BY DEF AccountedOnce, Named
  <2>1. Partition(collected) /\ Functional(missing)
    BY DEF AccountInv
  <2>2. CASE u \in collected
    <3>1. {e \in missing : e[1] = u} = {}
      BY <2>1, <2>2 DEF Partition, Named
    <3>. QED
      BY <2>2, <3>1, FS_EmptySet
  <2>3. CASE u \notin collected
    <3>1. PICK e \in missing : e[1] = u
      BY <2>1, <2>3 DEF Partition, Named
    <3>2. {f \in missing : f[1] = u} = {e}
      BY <2>1, <3>1 DEF Functional
    <3>. QED
      BY <2>3, <3>2, FS_Singleton
  <2>. QED
    BY <2>2, <2>3
<1>. QED
  BY <1>1, <1>2, CoordTypeCorrect, NextAccount, PTL DEF CoordSpec

-----------------------------------------------------------------------------
\* A unit that was asked for its document had executed the run, and whatever
\* document it answered with is one of some run.
StaleInv ==
  /\ cli # "reported" => NoStale(missing)
  /\ cli = "collecting" => \A u \in waitingFor \cup DOMAIN results : config.run \in ran[u]
  /\ \A u \in DOMAIN results : results[u].file = "whole" => results[u].run # 0
  /\ cli = "waiting" => config.run # 0
  /\ SpoiltMeansOverwritten

\* The status that lets a unit into the collection names the configured run,
\* and the configured run does not change before the next invocation.
LEMMA NextStale ==
  /\ CoordTypeOK /\ FreshInv /\ CommitInv /\ NumberedInv /\ AccountInv /\ StaleInv
  /\ [CoordNext]_vars
  => StaleInv'
<1> SUFFICES ASSUME CoordTypeOK, FreshInv, CommitInv, NumberedInv, AccountInv, StaleInv,
                    [CoordNext]_vars
             PROVE  StaleInv'
  OBVIOUS
<1>0. /\ placed \subseteq Units /\ snapshot \subseteq Units /\ eligible \subseteq Units
      /\ waitingFor \subseteq Units /\ DOMAIN results \subseteq Units
      /\ missing \in SUBSET (Units \X Reasons)
  BY DEF CoordTypeOK
<1>1. \A u \in Units : ran[u] \subseteq ran'[u]
  BY StepsRefine, NextRan DEF CoordTypeOK
<1> USE DEF StaleInv, worldVars, Finished
<1>15. cli' \notin Finished => SpoiltMeansOverwritten'
  BY DEF SpoiltMeansOverwritten
<1>2. ASSUME UNCHANGED <<config, cli, missing, waitingFor, results>> PROVE StaleInv'
  <2>1. \A u \in DOMAIN results : ran[u] \subseteq ran'[u]
    BY <1>0, <1>1
  <2>2. SpoiltMeansOverwritten'
    BY <1>0, <1>1, <1>2, <2>1 DEF SpoiltMeansOverwritten
  <2>. QED
    BY <1>0, <1>1, <1>2, <2>1, <2>2
<1>3. CASE UNCHANGED vars
  BY <1>2, <1>3 DEF vars, charmVars, cliVars
<1>4. ASSUME NEW ok \in SUBSET Units, NEW t \in Overrides, Deploy(ok, t) PROVE StaleInv'
  <2>1. /\ missing' = Entries(Units \ ok, "placement-failed")
        /\ cli' = "deploying" /\ results' = results
    BY <1>4 DEF Deploy
  <2>2. NoStale(missing')
    BY <2>1 DEF NoStale, Entries
  <2>. QED
    BY <2>1, <2>2, <1>15
<1>5. ASSUME NEW t \in Overrides, Reuse(t) PROVE StaleInv'
  <2>1. NoStale({}) /\ DOMAIN EmptyResults = {}
    BY DEF NoStale, EmptyResults
  <2>. QED
    BY <1>5, <2>1, <1>15 DEF Reuse
<1>6. CASE DeployWaitEnds
  <2>1. /\ cli = "deploying" /\ cli' = "triggering" /\ results' = results
        /\ missing' = missing \cup Entries(placed \ eligible', "deployment-timeout")
    BY <1>6 DEF DeployWaitEnds
  <2>2. NoStale(missing')
    BY <2>1 DEF NoStale, Entries
  <2>. QED
    BY <2>1, <2>2, <1>15
<1>7. CASE Trigger
  <2>1. /\ cli = "triggering" /\ cli' = "waiting" /\ UNCHANGED <<missing, results>>
        /\ config'.run = config.run + 1 /\ config.run \in Nat
    BY <1>7, BoundsAssumption DEF Trigger, SetConfig, CoordTypeOK, TypeOK, Configs, Runs
  <2>. QED
    BY <2>1, <1>15
<1>8. CASE ProbeWaitEnds
  <2>1. /\ cli = "waiting" /\ cli' = "collecting" /\ UNCHANGED <<config, ran, results>>
        /\ waitingFor' = {u \in eligible : ProbeComplete(u)}
        /\ missing' = missing \cup Entries(eligible \ waitingFor', "probe-timeout")
    BY <1>8 DEF ProbeWaitEnds, charmVars, unitVars
  <2>2. NoStale(missing')
    BY <2>1 DEF NoStale, Entries
  <2>3. ASSUME NEW u \in waitingFor' PROVE config.run \in ran[u]
    <3>1. status[u].kind = "complete" /\ status[u].run = config.run /\ u \in Units
      BY <1>0, <2>1 DEF ProbeComplete, Status
    <3>2. last[u] = config.run
      BY <3>1 DEF FreshInv, Fresh
    <3>. QED
      BY <2>1, <3>1, <3>2 DEF CommitInv, Committable
  <2>4. DOMAIN results = {}
    BY <2>1 DEF AccountInv
  <2>. QED
    BY <2>1, <2>2, <2>3, <2>4, <1>15
<1>9. CASE Aggregate
  <2> DEFINE absent == {u \in DOMAIN results : results[u].file = "absent"}
             stale == {u \in DOMAIN results :
                         results[u].file = "whole" /\ results[u].run # config.run}
  <2>1. /\ cli = "collecting" /\ UNCHANGED <<config, ran, results>>
        /\ \/ cli' = "failed" /\ missing' = missing
           \/ /\ cli' = "reported"
              /\ missing' = (missing \cup Entries(absent, "no-probe-output"))
                              \cup Entries(stale, "stale-probe-output")
    BY <1>9 DEF Aggregate, charmVars, unitVars
  <2>2. ASSUME NEW u \in Units, <<u, "stale-probe-output">> \in missing'
        PROVE  u \in DOMAIN results /\ config.run \in ran[u] /\ results[u].run # 0
    <3>1. <<u, "stale-probe-output">> \notin missing
      BY <2>1 DEF NoStale
    <3>2. <<u, "stale-probe-output">> \notin Entries(absent, "no-probe-output")
      BY DEF Entries
    <3>3. u \in stale
      BY <2>1, <2>2, <3>1, <3>2 DEF Entries
    <3>. QED
      BY <2>1, <3>3
  <2>3. SpoiltMeansOverwritten'
    BY <2>1, <2>2 DEF SpoiltMeansOverwritten
  <2>. QED
    BY <2>1, <2>3
<1>10. ASSUME NEW u \in Units, ActionReturns(u) \/ ActionFails(u) PROVE StaleInv'
  <2>0. PICK doc : Answer(u, doc) /\ (doc.file = "whole" => doc.run # 0)
    BY <1>10 DEF ActionReturns, ActionFails, NoOutput, NumberedInv
  <2>1. /\ cli = "collecting" /\ u \in waitingFor /\ UNCHANGED <<config, ran, cli, missing>>
        /\ waitingFor' = waitingFor \ {u} /\ DOMAIN results' = DOMAIN results \cup {u}
        /\ \A v \in DOMAIN results' : results'[v] = IF v = u THEN doc ELSE results[v]
    BY <2>0 DEF Answer, charmVars, unitVars
  <2>. QED
    BY <2>0, <2>1, <1>15
<1>11. ASSUME NEW u \in Units, ReadTopology(u) PROVE StaleInv'
  <2>1. /\ missing' = Entries(placed \ snapshot, "no-probe-output")
        /\ cli' = "triggering" /\ results' = results
    BY <1>11 DEF ReadTopology
  <2>2. NoStale(missing')
    BY <2>1 DEF NoStale, Entries
  <2>. QED
    BY <2>1, <2>2, <1>15
<1>12. CASE NoTopology \/ Abort
  <2>1. /\ cli \in Running /\ cli' = "failed"
        /\ UNCHANGED <<config, ran, missing, waitingFor, results>>
    BY <1>12 DEF NoTopology, Abort, charmVars, unitVars, Running
  <2>2. \A u \in DOMAIN results : config.run \in ran[u]
    BY <2>1 DEF AccountInv, Running
  <2>3. SpoiltMeansOverwritten'
    BY <2>1, <2>2 DEF SpoiltMeansOverwritten, NoStale, Running
  <2>. QED
    BY <2>1, <2>3 DEF Running
<1>13. CASE \E u \in Units : TopologyUnreadable(u) \/ AgentLost(u) \/ LossNoticed(u)
  BY <1>2, <1>13 DEF TopologyUnreadable, AgentLost, LossNoticed, charmVars, cliVars
<1>14. ASSUME NEW u \in Units, PlacedUnitStep(u) PROVE StaleInv'
  <2>1. config' = config
    BY <1>14 DEF PlacedUnitStep, UnitStep, AgentStep, Install, InstallFails, StartHook,
                 ConfigChanged, PeerRelationChanged, BeginHook, PayloadWrites, RecordRun,
                 ReportComplete, HookExits, CommitRefused, HookKilled, Reboot, Elect
  <2>. QED
    BY <1>2, <1>14, <2>1 DEF PlacedUnitStep, cliVars
<1>. QED
  BY <1>3, <1>4, <1>5, <1>6, <1>7, <1>8, <1>9, <1>10, <1>11, <1>12, <1>13, <1>14
  DEF CoordNext, CliStep

\* A unit whose document spoils the collection, reported stale or so torn that
\* it ends the run, did execute the run that was asked for: another hook of the
\* unit overwrote the document after the CLI read its status
\* (juju_run.py:166-179).
THEOREM SpoiltWasOverwritten == CoordSpec => []SpoiltMeansOverwritten
<1>1. CoordInit => FreshInv /\ CommitInv /\ NumberedInv /\ AccountInv /\ StaleInv
  BY InitFresh, InitCommit, InitNumbered
  DEF CoordInit, AccountInv, StaleInv, EmptyResults, Functional, NoStale, SpoiltMeansOverwritten,
      Finished
<1>2. CoordTypeOK /\ FreshInv /\ CommitInv /\ NumberedInv /\ [CoordNext]_vars
        => FreshInv' /\ CommitInv' /\ NumberedInv'
  BY StepsRefine, NextFresh, NextCommit, NextNumbered DEF CoordTypeOK
<1>3. StaleInv => SpoiltMeansOverwritten
  BY DEF StaleInv
<1>. QED
  BY <1>1, <1>2, <1>3, CoordTypeCorrect, NextAccount, NextStale, PTL DEF CoordSpec
=============================================================================
