---------------------------- MODULE ProbeOutcome ----------------------------
(***************************************************************************)
(* What one probe payload promises its hook: it is interrupted at most     *)
(* once, for one reason, and ends by writing one whole document that bears *)
(* that reason ("complete" when there was none), by failing loudly when it *)
(* was not interrupted, or by failing to write the document or being       *)
(* killed, which may tear the file and never leave one that looks whole.   *)
(***************************************************************************)
CONSTANTS Reasons   \* reasons of an interruption

VARIABLES
  reason,   \* "none", or why the probe was interrupted
  ending,   \* "running", "written", "failed", "unwritten" or "killed"
  file      \* status of the output document, "absent" or "torn"

outcomeVars == <<reason, ending, file>>

Init == reason = "none" /\ ending = "running" /\ file = "absent"

Interrupt(r) ==
  /\ ending = "running" /\ reason = "none"
  /\ reason' = r
  /\ UNCHANGED <<ending, file>>

Write ==
  /\ ending = "running"
  /\ ending' = "written"
  /\ file' = IF reason = "none" THEN "complete" ELSE reason
  /\ UNCHANGED reason

Fail ==
  /\ ending = "running" /\ reason = "none"
  /\ ending' = "failed"
  /\ UNCHANGED <<reason, file>>

\* Its document is refused or cannot be written, or the process is killed.
Break(end) ==
  /\ ending = "running"
  /\ ending' = end
  /\ file' \in {"absent", "torn"}
  /\ UNCHANGED reason

Next == (\E r \in Reasons : Interrupt(r)) \/ Write \/ Fail
        \/ (\E end \in {"unwritten", "killed"} : Break(end))

Spec == Init /\ [][Next]_outcomeVars
=============================================================================
