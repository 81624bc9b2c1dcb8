---------------------------- MODULE BondCapture ----------------------------
(***************************************************************************)
(* The bond validator of the payload                                       *)
(* (src/charm/payload/bond_validator.py): it listens for LACP on every     *)
(* member of every bond for one window and compares what it heard with the *)
(* host's configuration.  A port that speaks sends within the window, which *)
(* is longer than the slowest LACP rate; an interruption kills the         *)
(* captures and keeps what they had.                                       *)
(***************************************************************************)
EXTENDS Naturals, FiniteSets

CONSTANTS
  Bonds,      \* bonds of the host
  MembersOf,  \* their member interfaces, each of one bond
  Switches    \* switches a member may be cabled to

VARIABLES
  bondMode,      \* of each bond: "802.3ad" or a static one
  lacpActive,    \* of each bond: the host speaks first
  port,          \* of each member: its switch, and what the port does
  heard,         \* members whose capture has an LACP PDU
  captureStage,  \* where run is
  bondRecords,   \* of each bond: none, its verdict was given, or why not
  bondFindings,  \* findings: type and bond
  interrupted    \* cancellation is set

bondConfig == <<bondMode, lacpActive, port>>
bondVars == <<bondConfig, heard, captureStage, bondRecords, bondFindings>>

Members == UNION {MembersOf[b] : b \in Bonds}
Ports == [switch : Switches, lacp : {"active", "passive", "static", "down"}]

\* An LACP-passive port answers a partner that speaks first.
Speaks(b, m) ==
  \/ port[m].lacp = "active"
  \/ port[m].lacp = "passive" /\ bondMode[b] = "802.3ad" /\ lacpActive[b]
Speakers == UNION {{m \in MembersOf[b] : Speaks(b, m)} : b \in Bonds}

BondInit ==
  /\ bondMode \in [Bonds -> {"802.3ad", "static"}]
  /\ lacpActive \in [Bonds -> BOOLEAN]
  /\ port \in [Members -> Ports]
  /\ heard = {}
  /\ captureStage = "enumerate"
  /\ bondRecords = [b \in Bonds |-> "none"]
  /\ bondFindings = {}

\* _flush_unattempted, which run calls with nothing attempted, and the return.
Flush ==
  /\ captureStage' = "flushed"
  /\ bondRecords' = [b \in Bonds |-> "interrupted"]
  /\ UNCHANGED bondFindings

\* _enumerate_bonds and the captures: an interruption just before, none to
\* listen on, or all of them at once.
StartCaptures ==
  /\ captureStage = "enumerate"
  /\ IF interrupted THEN Flush
     ELSE /\ captureStage' = IF Bonds = {} THEN "complete" ELSE "window"
          /\ UNCHANGED <<bondRecords, bondFindings>>
  /\ UNCHANGED <<bondConfig, heard>>

\* Faulty form, for mutation: the capture also holds the host's own PDUs.
HearAlsoOwn(m) ==
  /\ captureStage = "window" /\ ~interrupted
  /\ m \in Members \ heard
  /\ heard' = heard \cup {m}
  /\ UNCHANGED <<bondConfig, captureStage, bondRecords, bondFindings>>

\* An inbound PDU arrives in a capture that still runs (-Q in).
Hear(m) ==
  /\ captureStage = "window" /\ ~interrupted
  /\ m \in Speakers \ heard
  /\ heard' = heard \cup {m}
  /\ UNCHANGED <<bondConfig, captureStage, bondRecords, bondFindings>>

\* The window is over for its time: every port that speaks was heard.
WindowCloses ==
  /\ captureStage = "window" /\ ~interrupted
  /\ Speakers \subseteq heard
  /\ captureStage' = "judge"
  /\ UNCHANGED <<bondConfig, heard, bondRecords, bondFindings>>

\* Faulty form: what was heard until then is judged.
WindowCutJudges ==
  /\ captureStage = "window" /\ interrupted
  /\ captureStage' = "judge"
  /\ UNCHANGED <<bondConfig, heard, bondRecords, bondFindings>>

WindowCut ==
  /\ captureStage = "window" /\ interrupted
  /\ Flush
  /\ UNCHANGED <<bondConfig, heard>>

HeardOn(b) == heard \cap MembersOf[b]
ActorsOn(b) == {port[m].switch : m \in HeardOn(b)}
ModeMismatch(b) ==
  \/ bondMode[b] = "802.3ad" /\ HeardOn(b) = {}
  \/ bondMode[b] = "static" /\ HeardOn(b) # {}

\* One pass over the bonds; an interruption during it is not looked at.
Judge ==
  /\ captureStage = "judge"
  /\ bondFindings' = {<<"bond-mode-mismatch", b>> : b \in {c \in Bonds : ModeMismatch(c)}}
       \cup {<<"asymmetric-bond-cable", b>> : b \in {c \in Bonds : Cardinality(ActorsOn(c)) > 1}}
  /\ bondRecords' = [b \in Bonds |-> "judged"]
  /\ captureStage' = "complete"
  /\ UNCHANGED <<bondConfig, heard>>

\* Nothing of the bonds matters any more.
Forget ==
  /\ bondMode' = [b \in Bonds |-> "802.3ad"]
  /\ lacpActive' = [b \in Bonds |-> TRUE]
  /\ port' = [m \in Members |-> CHOOSE p \in Ports : p.lacp = "active"]
  /\ heard' = {} /\ captureStage' = "complete"
  /\ bondRecords' = [b \in Bonds |-> "none"] /\ bondFindings' = {}

BondNext ==
  \/ StartCaptures \/ WindowCloses \/ WindowCut \/ Judge
  \/ \E m \in Members : Hear(m)

-----------------------------------------------------------------------------
\* Host and switch disagree on whether the bond aggregates with LACP: no port
\* of an LACP bond speaks to it, or a port speaks to a static bond.
ModesDisagree(b) ==
  IF bondMode[b] = "802.3ad"
    THEN \A m \in MembersOf[b] : ~Speaks(b, m)
    ELSE \E m \in MembersOf[b] : Speaks(b, m)

\* The ports that speak to the bond are of one switch.
OneSwitch(b) ==
  \A m, n \in MembersOf[b] : Speaks(b, m) /\ Speaks(b, n) => port[m].switch = port[n].switch

BondIsSound(b) == ~ModesDisagree(b) /\ OneSwitch(b)

BondTypeOK ==
  /\ heard \subseteq Members
  /\ captureStage \in {"enumerate", "window", "judge", "complete", "flushed"}
  /\ bondRecords \in [Bonds -> {"none", "judged", "interrupted"}]
  /\ bondFindings \subseteq {"bond-mode-mismatch", "asymmetric-bond-cable"} \X Bonds
=============================================================================
