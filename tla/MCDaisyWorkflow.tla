--------------------------- MODULE MCDaisyWorkflow ---------------------------
(***************************************************************************)
(* DaisyWorkflow for TLC.  The .cfg gives the times of the sources in      *)
(* units of 2 seconds: polls every 30, 10 and 2 seconds, 3 and 5 minutes.  *)
(***************************************************************************)
EXTENDS DaisyWorkflow

AllBreaks == {"mount", "umount"}
AllVerdicts == {"success", "failure"}
=============================================================================
