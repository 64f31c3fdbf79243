------------------------------ MODULE MCQueue -------------------------------
(* Two shapes of the queue in one run: one worker that crashes and times    *)
(* out, and two workers that are never restarted.                           *)
EXTENDS MCJobQueue

CONSTANTS w1, w2, t1, t2

VARIABLE part

\* What a part keeps to, as a condition on the states it reaches.
Alone ==
    /\ \A w \in Workers \ {w1} : pc[w] = "idle"
    /\ \A j \in JobId : job[j] # NoJob => job[j].target = t1
Steady == faults = 0 /\ retries = 0 /\ job[MaxJobs] = NoJob

mcVars == <<vars, part>>
MCInit == Init /\ part \in {"alone", "steady"}
MCNext ==
    /\ Next /\ part' = part
    /\ part = "alone" => Alone'
    /\ part = "steady" => Steady'
\* Fairness of JobQueue, for the workers of the part.
MCFairness ==
    \A w \in Workers :
        /\ WF_mcVars((w = w1 \/ part = "steady") /\ Start(w) /\ part' = part)
        /\ WF_mcVars((w = w1 \/ part = "steady") /\ WorkerStep(w) /\ part' = part)
MCSpec == MCInit /\ [][MCNext]_mcVars /\ MCFairness
=============================================================================
