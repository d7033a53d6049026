------------------------------- MODULE Survey -------------------------------
(***************************************************************************)
(* What is on this machine, as the agent's loop finds out: visits to the   *)
(* database engines and walks of the places where backups land.  The loop  *)
(* is one thread, so one of them is under way at a time; what a visit or a *)
(* walk returned stays until the next of its kind begins.                  *)
(***************************************************************************)
EXTENDS StatsSession, BackupSurvey

SurveyInit == Init /\ WalkInit

SurveyNext ==
    \/ ~scanning /\ Next /\ UNCHANGED walkVars
    \/ pc = "idle" /\ WalkNext /\ UNCHANGED vars

SurveySpec == SurveyInit /\ [][SurveyNext]_<<vars, walkVars>>
=============================================================================
