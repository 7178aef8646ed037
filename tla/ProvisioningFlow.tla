-------------------------- MODULE ProvisioningFlow --------------------------
(***************************************************************************)
(* What the provisioner promises whoever starts a build, with no disk, no  *)
(* state file and no reboot in it: the steps are completed in order, each  *)
(* at least once, and success is reported only when all are.  A machine    *)
(* that goes down may run steps again, but it never loses track of one:    *)
(* what has been completed stays completed.                                *)
(***************************************************************************)
EXTENDS Naturals

VARIABLES
  total,      \* the number of steps of this build
  completed,  \* the steps that have run to their end at least once
  status      \* building, succeeded, failed, or off once nothing runs

flowVars == <<total, completed, status>>

FlowTypeOK ==
  /\ total \in Nat
  /\ completed \subseteq 1 .. total
  /\ status \in {"building", "succeeded", "failed", "off"}

FlowInit ==
  /\ total \in Nat
  /\ completed = {}
  /\ status = "building"

\* A step is completed for the first time, after those before it.
CompleteStep ==
  /\ status = "building"
  /\ \E i \in 1 .. total :
       /\ 1 .. (i - 1) \subseteq completed
       /\ completed' = completed \cup {i}
  /\ UNCHANGED <<total, status>>

ReportSuccess ==
  /\ status = "building"
  /\ completed = 1 .. total
  /\ status' = "succeeded"
  /\ UNCHANGED <<total, completed>>

ReportFailure ==
  /\ status = "building"
  /\ status' = "failed"
  /\ UNCHANGED <<total, completed>>

\* The VM goes down after it has reported and starts anew.
Restart ==
  /\ status \in {"succeeded", "failed"}
  /\ status' = "building"
  /\ UNCHANGED <<total, completed>>

End ==
  /\ status \in {"succeeded", "failed"}
  /\ status' = "off"
  /\ UNCHANGED <<total, completed>>

FlowNext == CompleteStep \/ ReportSuccess \/ ReportFailure \/ Restart \/ End

FlowSpec == FlowInit /\ [][FlowNext]_flowVars
=============================================================================
