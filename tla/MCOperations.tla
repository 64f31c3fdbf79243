---------------------------- MODULE MCOperations ----------------------------
(* Small instances of Executions and Terminal: what an operator asks of the *)
(* controller.  They share no state; a behaviour is about one of them and   *)
(* the other rests.                                                         *)
EXTENDS Executions, Terminal

VARIABLE part

operationVars == <<part, vars, terminalVars>>
MCInit == part \in {"executions", "terminal"} /\ Init /\ TerminalInit
MCNext ==
  \/ part = "executions" /\ Next /\ UNCHANGED <<part, terminalVars>>
  \/ part = "terminal" /\ TerminalNext /\ UNCHANGED <<part, vars>>
\* The fairness of the two modules, each for its own part.
Fair(c) == part = "executions" /\ Handler(c)
FairInterval == part = "terminal" /\ Interval
FairStep(i) == part = "terminal" /\ OwnStep(i)
FairDeadline(i) == part = "terminal" /\ Deadline(i)
MCSpec ==
  /\ MCInit /\ [][MCNext]_operationVars
  /\ \A c \in Clients : WF_vars(Fair(c))
  /\ WF_terminalVars(FairInterval)
  /\ \A i \in Sessions :
       /\ WF_terminalVars(FairStep(i))
       /\ SF_terminalVars(FairDeadline(i))

(* Nobody waits for ever: every request about an execution is answered (the *)
(* retries of the agent client end), and every terminal session gives its   *)
(* place back (its deadlines) unless browser or host keep it waiting.       *)
EveryoneAnswered == RequestsAnswered /\ SessionsEnd
=============================================================================
