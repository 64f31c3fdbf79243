------------------------------ MODULE MCAgents ------------------------------
(* Small instances of Onboarding and WindowsAgent: an agent arrives, and a  *)
(* Windows agent works.  They share no state; a behaviour is about one of   *)
(* them, the other rests in its initial state, where none of its fair steps *)
(* is enabled.                                                              *)
EXTENDS MCWindows, Onboarding

VARIABLE part

\* Bound: at most two of the things that may go wrong with an enrollment.
FewFaults == used.faults + used.restarts + used.retries + used.resets <= 2

\* Bound: one job that only reads, beside an apply.
OneReads == Cardinality({j \in WorkId : work[j].op # "none" /\ work[j].mode # "apply"}) <= 1

agentVars == <<part, windowsVars, onboardingVars>>
MCInit == part \in {"windows", "onboarding"} /\ WindowsInit /\ OnboardingInit
MCNext ==
  \/ part = "windows" /\ WindowsNext /\ OneReads' /\ UNCHANGED <<part, onboardingVars>>
  \/ part = "onboarding" /\ OnboardingNext /\ FewFaults' /\ UNCHANGED <<part, windowsVars>>
MCSpec == MCInit /\ [][MCNext]_agentVars /\ WindowsFairness /\ OnboardingFairness
=============================================================================
