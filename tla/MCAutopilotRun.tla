--------------------------- MODULE MCAutopilotRun ---------------------------
(***************************************************************************)
(* Three instances of AutopilotRun in one run, chosen at the start: one    *)
(* thread of the lane under a failure or crash, with undos ("alone"), one  *)
(* thread whose passes find two facts, with undos ("more"), and two        *)
(* threads without failures and undos ("both").                            *)
(***************************************************************************)
EXTENDS AutopilotRun

VARIABLE focus

Undoing(c) == trigger[c].at = "revert"
InFocus ==
  /\ focus # "both" => actor["t2"] = Resting
  /\ focus # "alone" => slips = 0
  /\ focus # "more" => facts \subseteq {"f1"}
  /\ focus = "both" => \A c \in Trigger : ~Undoing(c)

FocusInit == AutoInit /\ focus \in {"alone", "more", "both"}
FocusNext == AutoNext /\ UNCHANGED focus /\ InFocus'

\* Threads finish their stages and claim what they could claim again and again;
\* triggers finish, and the detection sweep comes again and again.
FocusFairness ==
  /\ \A t \in Actor : WF_autoVars(RunsStage(t))
  /\ \A s \in Stage : SF_autoVars(\E t \in Actor : ClaimStage(t, s))
  /\ \A c \in Trigger : WF_autoVars(TriggerProceeds(c)) /\ SF_autoVars(BeginSweep(c))

FocusSpec == FocusInit /\ [][FocusNext]_<<autoVars, focus>> /\ FocusFairness
=============================================================================
