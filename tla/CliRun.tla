------------------------------- MODULE CliRun -------------------------------
(***************************************************************************)
(* Invocations of `network-tester run` against one Juju controller         *)
(* (src/cli/main.py, with the lifecycle functions of src/cli/juju_run.py): *)
(* who creates, keeps, reuses and destroys which test model, and what the  *)
(* operator is told when an invocation ends.                               *)
(*                                                                         *)
(* A model is named after the invocation that creates it.  SIGINT may      *)
(* arrive between any two steps once the handler is installed; it ends the *)
(* invocation where it is.  The operator may run juju destroy-model on     *)
(* every model an invocation has told them to destroy, at any time.        *)
(***************************************************************************)
CONSTANTS
  Clients,   \* invocations
  NoModel    \* model_holder has no "model"

ASSUME NoModelAssumption == NoModel \notin Clients

VARIABLES
  models,   \* per model, whether the controller lists it, live or dying
  pc,       \* per invocation, where it is
  target,   \* per invocation, the model it creates or reuses
  keep,     \* per invocation, --keep-model or reuse mode
  holder,   \* per invocation, model_holder["model"]
  report,   \* per invocation, whether its report files are written
  told,     \* per invocation, models whose release it has explained
  code      \* per invocation, its exit code, by origin

cliVars == <<models, pc, target, keep, holder, report, told, code>>

Codes == {"none", "refused", "report", "failure", "interrupted"}
Places == {"off", "connecting", "checking", "adding", "probing", "collecting", "returned",
           "reusing", "reporting", "destroying", "vanishing", "closing", "ended"}
Calls == {"checking", "adding", "probing", "collecting", "reusing", "reporting", "destroying",
          "vanishing"}
\* Where it waits for the agents of units without a deadline: collect-results,
\* and in reuse mode the topology file as well.
Unbounded == {"collecting", "reusing"}

Listed(m) == models[m] \in {"live", "dying"}
\* Faulty form, for mutation: no test of the empty holder.
NamedUnguarded(c) == {holder[c]}
Named(c) == {holder[c]} \ {NoModel}
At(c, from, to) == pc[c] = from /\ pc' = [pc EXCEPT ![c] = to]

Init ==
  /\ models = [m \in Clients |-> "none"]
  /\ pc = [c \in Clients |-> "off"]
  /\ target = [c \in Clients |-> c]
  /\ keep = [c \in Clients |-> FALSE]
  /\ holder = [c \in Clients |-> NoModel]
  /\ report = [c \in Clients |-> FALSE]
  /\ told = [c \in Clients |-> {}]
  /\ code = [c \in Clients |-> "none"]

\* Usage errors, MAAS errors, failed pre-flight and --dry-run end a new run
\* before its SIGINT handler is installed.
Refuse(c) ==
  /\ At(c, "off", "ended")
  /\ code' = [code EXCEPT ![c] = "refused"]
  /\ UNCHANGED <<models, target, keep, holder, report, told>>

StartNew(c, k) ==
  /\ At(c, "off", "connecting")
  /\ keep' = [keep EXCEPT ![c] = k]
  /\ UNCHANGED <<models, target, holder, report, told, code>>

\* --reuse-model m
StartReuse(c, m) ==
  /\ m # c
  /\ At(c, "off", "connecting")
  /\ target' = [target EXCEPT ![c] = m]
  /\ keep' = [keep EXCEPT ![c] = TRUE]
  /\ UNCHANGED <<models, holder, report, told, code>>

\* facade.connect() returns.  _reuse_and_report sets the holder before
\* anything else, _deploy_and_report does not.
Connect(c) ==
  /\ \/ target[c] = c /\ At(c, "connecting", "checking") /\ holder' = holder
     \/ /\ target[c] # c /\ At(c, "connecting", "reusing")
        /\ holder' = [holder EXCEPT ![c] = target[c]]
  /\ UNCHANGED <<models, target, keep, report, told, code>>

\* ensure_no_existing_models finds none; model_name is chosen.
NoModelsListed(c) ==
  /\ \A m \in Clients : ~Listed(m)
  /\ At(c, "checking", "adding")
  /\ UNCHANGED <<models, target, keep, holder, report, told, code>>

AddModel(c) ==
  /\ At(c, "adding", "probing")
  /\ models' = [models EXCEPT ![c] = "live"]
  /\ UNCHANGED <<target, keep, holder, report, told, code>>

\* deploy, add_unit and both waits, which have deadlines, are over.
WaitsEnd(c) ==
  /\ models[c] = "live"
  /\ At(c, "probing", "collecting")
  /\ UNCHANGED <<models, target, keep, holder, report, told, code>>

\* collect-results is back from every unit.
RunNewReturns(c) ==
  /\ models[c] = "live"
  /\ At(c, "collecting", "returned")
  /\ UNCHANGED <<models, target, keep, holder, report, told, code>>

\* model_holder["model"] = model_name
HoldModel(c) ==
  /\ At(c, "returned", "reporting")
  /\ holder' = [holder EXCEPT ![c] = c]
  /\ UNCHANGED <<models, target, keep, report, told, code>>

RunReuseReturns(c) ==
  /\ models[target[c]] = "live"
  /\ At(c, "reusing", "reporting")
  /\ UNCHANGED <<models, target, keep, holder, report, told, code>>

\* Faulty form: reuse mode and --keep-model are forgotten.
SaveReportForgetsKeep(c) ==
  /\ At(c, "reporting", "destroying")
  /\ report' = [report EXCEPT ![c] = TRUE]
  /\ UNCHANGED <<models, target, keep, holder, told, code>>

\* _finish_run; a kept model is named with the way to release it.
SaveReport(c) ==
  /\ At(c, "reporting", IF keep[c] THEN "closing" ELSE "destroying")
  /\ report' = [report EXCEPT ![c] = TRUE]
  /\ IF keep[c]
       THEN /\ told' = [told EXCEPT ![c] = @ \cup {target[c]}]
            /\ code' = [code EXCEPT ![c] = "report"]
       ELSE UNCHANGED <<told, code>>
  /\ UNCHANGED <<models, target, keep, holder>>

\* Faulty form: the holder is emptied before the model is gone.
RequestDestroyForgets(c) ==
  /\ At(c, "destroying", "vanishing")
  /\ models' = [models EXCEPT ![c] = IF @ = "live" THEN "dying" ELSE @]
  /\ holder' = [holder EXCEPT ![c] = NoModel]
  /\ UNCHANGED <<target, keep, report, told, code>>

\* destroy_model only asks for the destruction.
RequestDestroy(c) ==
  /\ At(c, "destroying", "vanishing")
  /\ models' = [models EXCEPT ![target[c]] = IF @ = "live" THEN "dying" ELSE @]
  /\ UNCHANGED <<target, keep, holder, report, told, code>>

\* Faulty form: the exit does not wait for the model to be gone.
SeesGoneAtOnce(c) ==
  /\ At(c, "vanishing", "closing")
  /\ holder' = [holder EXCEPT ![c] = NoModel]
  /\ code' = [code EXCEPT ![c] = "report"]
  /\ UNCHANGED <<models, target, keep, report, told>>

\* wait_model_destroyed: the controller no longer lists it.
SeesGone(c) ==
  /\ ~Listed(target[c])
  /\ At(c, "vanishing", "closing")
  /\ holder' = [holder EXCEPT ![c] = NoModel]
  /\ code' = [code EXCEPT ![c] = "report"]
  /\ UNCHANGED <<models, target, keep, report, told>>

\* _report_run_failure: exit code 1, and the held model named.
Fail(c, to) ==
  /\ pc' = [pc EXCEPT ![c] = to]
  /\ code' = [code EXCEPT ![c] = "failure"]
  /\ told' = [told EXCEPT ![c] = @ \cup Named(c)]
  /\ UNCHANGED <<target, keep, holder, report>>

\* Faulty form: the destruction wait has no deadline.
CallFailsButTheWait(c) ==
  /\ pc[c] \in Calls \ {"vanishing"}
  /\ Fail(c, "closing")
  /\ \/ models' = models
     \/ pc[c] = "adding" /\ models' = [models EXCEPT ![c] = "live"]

\* Any awaited call may raise, and so may writing the report; the destruction
\* wait times out.  add_model may raise after the controller created it.
CallFails(c) ==
  /\ pc[c] \in Calls
  /\ Fail(c, "closing")
  /\ \/ models' = models
     \/ pc[c] = "adding" /\ models' = [models EXCEPT ![c] = "live"]

\* connect raises: the call is outside the try, there is no disconnect.
ConnectFails(c) ==
  /\ pc[c] = "connecting"
  /\ Fail(c, "ended")
  /\ UNCHANGED models

\* disconnect, in _with_facade's finally clause, may raise as well.
Disconnect(c) ==
  /\ At(c, "closing", "ended")
  /\ \/ UNCHANGED <<code, told>>
     \/ /\ code' = [code EXCEPT ![c] = "failure"]
        /\ told' = [told EXCEPT ![c] = @ \cup Named(c)]
  /\ UNCHANGED <<models, target, keep, holder, report>>

\* The SIGINT handler: names the held model, or says there is none, and exits.
Sigint(c) ==
  /\ pc[c] \notin {"off", "ended"}
  /\ pc' = [pc EXCEPT ![c] = "ended"]
  /\ code' = [code EXCEPT ![c] = "interrupted"]
  /\ told' = [told EXCEPT ![c] = @ \cup Named(c)]
  /\ UNCHANGED <<models, target, keep, holder, report>>

OperatorDestroys(m) ==
  /\ models[m] = "live" /\ \E c \in Clients : m \in told[c]
  /\ models' = [models EXCEPT ![m] = "dying"]
  /\ UNCHANGED <<pc, target, keep, holder, report, told, code>>

\* The machines are released: the controller forgets the model.
ModelGone(m) ==
  /\ models[m] = "dying"
  /\ models' = [models EXCEPT ![m] = "gone"]
  /\ UNCHANGED <<pc, target, keep, holder, report, told, code>>

Step(c) ==
  \/ Connect(c) \/ ConnectFails(c) \/ NoModelsListed(c) \/ AddModel(c) \/ WaitsEnd(c)
  \/ RunNewReturns(c) \/ HoldModel(c) \/ RunReuseReturns(c) \/ SaveReport(c)
  \/ RequestDestroy(c) \/ SeesGone(c) \/ CallFails(c) \/ Disconnect(c)

Next ==
  \E c \in Clients :
    \/ Refuse(c) \/ (\E k \in BOOLEAN : StartNew(c, k)) \/ (\E m \in Clients : StartReuse(c, m))
    \/ Step(c) \/ Sigint(c) \/ OperatorDestroys(c) \/ ModelGone(c)

\* An invocation goes on by itself where its calls return or raise; the agents
\* of units, the controller and the operator need not.
Fairness == \A c \in Clients : WF_cliVars(pc[c] \notin Unbounded /\ Step(c))
Spec == Init /\ [][Next]_cliVars /\ Fairness

-----------------------------------------------------------------------------
TypeOK ==
  /\ models \in [Clients -> {"none", "live", "dying", "gone"}]
  /\ pc \in [Clients -> Places]
  /\ target \in [Clients -> Clients]
  /\ keep \in [Clients -> BOOLEAN]
  /\ holder \in [Clients -> Clients \cup {NoModel}]
  /\ report \in [Clients -> BOOLEAN]
  /\ told \in [Clients -> SUBSET Clients]
  /\ code \in [Clients -> Codes]

\* A run that exits with its report's code has released its machines: its
\* model is gone from the controller, not just dying, unless it was asked to
\* keep it, and then the operator knows how to release it (main.py:272-282).
ReportCodeReleases ==
  \A c \in Clients : pc[c] = "ended" /\ code[c] = "report" =>
    ~Listed(target[c]) \/ (keep[c] /\ target[c] \in told[c])

\* Once the report is saved the model is never left behind unnamed, whatever
\* interrupts the destruction: SIGINT, its timeout, a lost connection.
LeftoverIsNamedAfterReport ==
  \A c \in Clients : pc[c] = "ended" /\ report[c] /\ target[c] = c /\ Listed(c) => c \in told[c]

\* A test model is destroyed only with its report on disk, or by the operator
\* whom some invocation has told so; reusing a model never costs it.
NotDestroyedUnseen ==
  \A m \in Clients : models[m] \in {"dying", "gone"} => report[m] \/ \E c \in Clients : m \in told[c]

\* Every invocation ends, though the controller may never finish destroying,
\* unless it waits for a unit's agent where the code sets no deadline
\* (juju_run.py:149, 271); once past that it ends for certain.
InvocationEnds ==
  \A c \in Clients : pc[c] \notin {"off"} \cup Unbounded ~> pc[c] \in {"ended"} \cup Unbounded

\* An interrupted run names the model to destroy if one was created
\* (README.md:173).
InterruptNamesModel ==
  \A c \in Clients : code[c] = "interrupted" /\ target[c] = c /\ Listed(c) => c \in told[c]
=============================================================================
