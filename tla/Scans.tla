------------------------------- MODULE Scans -------------------------------
(***************************************************************************)
(* Scans of a container for updates: start_scan and run_scan of the        *)
(* controller, the agent that runs `apt list --upgradable`, writes the     *)
(* list as records and sends them through safe_detail, and the parser that *)
(* makes updates of them.                                                  *)
(*                                                                         *)
(* A text is a sequence of lines, a line a sequence of `Key: value`        *)
(* fields; an empty line separates records.  safe_detail is modelled by    *)
(* what it does: every line break becomes a space and the end is cut.      *)
(* A line of apt's list is the package it names; normalize_apt_list drops  *)
(* the lines it cannot read (another language, a notice among them).       *)
(* The agent is a Linux one, the agents of containers.                     *)
(***************************************************************************)
EXTENDS Naturals, SequencesExt

CONSTANTS
  ScanIds,            \* scans of one container
  Listings,           \* lists of packages apt may print as upgradable
  SecurityPackages,   \* those whose line names a security repository
  Unreadable,         \* those whose line has no name, candidate or "[upgradable from: "
  DetailFields,       \* how many fields the 240 characters of safe_detail hold
  MaxScanRetries,     \* AgentClientConfig::max_retries
  MaxEvents           \* bound on what happens around the scans

ASSUME ScanAssumption ==
  /\ Listings \subseteq Seq(UNION {ToSet(l) : l \in Listings})
  /\ DetailFields \in Nat \ {0} /\ MaxScanRetries \in Nat /\ MaxEvents \in Nat

VARIABLES
  scan,        \* ApiStore::scans: status and updates
  scanner,     \* the run_scan handler of a scan
  agentKnown,  \* whether the container has an agent in ApiState::agents
  attempt,     \* the attempts of the command at the agent
  answers,     \* LocalAgentState::results, by idempotency key
  upgradable,  \* what apt would print now
  since,       \* history: what it would have printed since the scan runs
  told,        \* history: the answer run_scan got
  events

scanVars == <<scan, scanner, agentKnown, attempt, answers, upgradable, since, told, events>>

Ended == {"succeeded", "failed"}
ScanStatus == {"none", "pending", "running", "lost"} \cup Ended
Tries == 0..MaxScanRetries
NoAnswer == [ok |-> FALSE, list |-> <<>>]
Answer(ok, list) == [ok |-> ok, list |-> list]
Quiet == [at |-> "none", answer |-> NoAnswer]
Resting == [at |-> "idle", try |-> 0]

----------------------------------------------------------------------------
(* The text between the agent and the parser *)

Field(k, v) == [key |-> k, value |-> v]
Classification(p) == IF p \in SecurityPackages THEN "security" ELSE "normal"

AptRecord(p) ==
  << <<Field("Package", p)>>, <<Field("Installed", "old")>>, <<Field("Candidate", "new")>>,
     <<Field("Security", IF p \in SecurityPackages THEN "yes" ELSE "no")>>,
     <<Field("Held", "no")>>, <<Field("Authenticated", "yes")>> >>

\* The lines that filter_map keeps, joined with an empty line.
Readable(list) == {i \in DOMAIN list : list[i] \notin Unreadable}
Joined(list, i) ==
  IF i \notin Readable(list) THEN <<>>
  ELSE IF \A j \in Readable(list) : i <= j THEN AptRecord(list[i]) ELSE <<<<>>>> \o AptRecord(list[i])
NormalizeAptList(list) == FlattenSeq([i \in DOMAIN list |-> Joined(list, i)])

SafeDetail(text) ==
  LET fields == FlattenSeq(text)
  IN IF fields = <<>> THEN <<>> ELSE <<SubSeq(fields, 1, Min({DetailFields, Len(fields)}))>>

\* The first and the last line of each block between empty lines.
Blocks(text) ==
  {b \in (DOMAIN text) \X (DOMAIN text) :
     /\ b[1] <= b[2] /\ \A i \in b[1]..b[2] : text[i] # <<>>
     /\ b[1] - 1 \in DOMAIN text => text[b[1] - 1] = <<>>
     /\ b[2] + 1 \in DOMAIN text => text[b[2] + 1] = <<>>}

\* A line is split at its first colon: what follows belongs to the value.
ValueOf(line) == IF Len(line) = 1 THEN line[1].value ELSE "with the rest of the line"
Lines(text, b, k) == {i \in b[1]..b[2] : text[i][1].key = k}
Get(text, b, k, default) ==
  IF Lines(text, b, k) = {} THEN default ELSE ValueOf(text[Max(Lines(text, b, k))])

ParseBlock(text, b) ==
  [package |-> Get(text, b, "Package", "missing"), installed |-> Get(text, b, "Installed", "missing"),
   candidate |-> Get(text, b, "Candidate", "missing"), security |-> Get(text, b, "Security", "no"),
   held |-> Get(text, b, "Held", "no"), authenticated |-> Get(text, b, "Authenticated", "yes")]

\* What parse_output and into_available_update accept: a package name has
\* no space, a version may.
Acceptable(r) ==
  /\ r.package \notin {"missing", "with the rest of the line"}
  /\ r.installed # "missing" /\ r.candidate # "missing"
  /\ {r.security, r.held, r.authenticated} \subseteq {"yes", "no"}

AvailableUpdate(r) ==
  [package |-> r.package,
   class |-> IF r.authenticated = "no" THEN "unknown" ELSE IF r.security = "yes" THEN "security" ELSE "normal"]

\* One bad record fails the scan; an agent that could not list fails it too.
BuildScan(answer) ==
  LET text == SafeDetail(NormalizeAptList(answer.list))
      records == {ParseBlock(text, b) : b \in Blocks(text)}
  IN IF answer.ok /\ \A r \in records : Acceptable(r)
       THEN [status |-> "succeeded", updates |-> {AvailableUpdate(r) : r \in records}]
       ELSE [status |-> "failed", updates |-> {}]

----------------------------------------------------------------------------
ScanInit ==
  /\ scan = [s \in ScanIds |-> [status |-> "none", updates |-> {}]]
  /\ scanner = [s \in ScanIds |-> Resting]
  /\ agentKnown \in BOOLEAN
  /\ attempt = [s \in ScanIds |-> [n \in Tries |-> Quiet]]
  /\ answers = [s \in ScanIds |-> Quiet]
  /\ upgradable \in Listings
  /\ since = [s \in ScanIds |-> {}]
  /\ told = [s \in ScanIds |-> Quiet]
  /\ events = 0

\* The row it saves says pending for good and is never read: left out.
StartScan(s) ==
  /\ scan[s].status = "none"
  /\ scan' = [scan EXCEPT ![s].status = "pending"]
  /\ UNCHANGED <<scanner, agentKnown, attempt, answers, upgradable, since, told, events>>

\* run_scan up to its first await outside the lock: the scan is running
\* before the agent is looked up, and stays so when there is none.
RunScan(s) ==
  /\ scan[s].status = "pending"
  /\ scan' = [scan EXCEPT ![s].status = "running"]
  /\ scanner' = IF agentKnown THEN [scanner EXCEPT ![s].at = "send"] ELSE scanner
  /\ since' = [since EXCEPT ![s] = {upgradable}]
  /\ UNCHANGED <<agentKnown, attempt, answers, upgradable, told, events>>

SendScan(s) ==
  /\ scanner[s].at = "send"
  /\ scanner' = [scanner EXCEPT ![s].at = "wait"]
  /\ attempt' = [attempt EXCEPT ![s][scanner[s].try].at = "sent"]
  /\ UNCHANGED <<scan, agentKnown, answers, upgradable, since, told, events>>

\* No answer in time, a broken connection or a server error: the next
\* attempt, or the handler gives up and the scan stays running.
ScanTimeout(s) ==
  /\ scanner[s].at = "wait"
  /\ scanner' = [scanner EXCEPT ![s] = IF @.try < MaxScanRetries THEN [at |-> "send", try |-> @.try + 1] ELSE Resting]
  /\ UNCHANGED <<scan, agentKnown, attempt, answers, upgradable, since, told, events>>

\* Refused by the agent, or an answer that cannot be decoded: no retry.
ScanRefused(s) ==
  /\ scanner[s].at = "wait"
  /\ scanner' = [scanner EXCEPT ![s] = Resting]
  /\ UNCHANGED <<scan, agentKnown, attempt, answers, upgradable, since, told, events>>

\* The answer arrives: run_scan from its second lock on.
FinishScan(s) ==
  LET got == attempt[s][scanner[s].try]
  IN /\ scanner[s].at = "wait" /\ got.at = "answered"
     /\ scan' = [scan EXCEPT ![s] = BuildScan(got.answer)]
     /\ told' = [told EXCEPT ![s] = got]
     /\ scanner' = [scanner EXCEPT ![s] = Resting]
     /\ UNCHANGED <<agentKnown, attempt, answers, upgradable, since, events>>

----------------------------------------------------------------------------
(* The agent *)

\* Mutant: the command is keyed by the container.
ContainerKey(s) == CHOOSE t \in ScanIds : TRUE

\* The idempotency key of the command is the scan's id.
ScanKey(s) == s

AgentTakes(s, n) ==
  /\ attempt[s][n].at = "sent"
  /\ attempt' = [attempt EXCEPT ![s][n] = IF answers[ScanKey(s)].at = "answered" THEN answers[ScanKey(s)] ELSE [attempt[s][n] EXCEPT !.at = "running"]]
  /\ UNCHANGED <<scan, scanner, agentKnown, answers, upgradable, since, told, events>>

\* apt ends: its list is normalised, cut and remembered under the key.
AptListEnds(s, n, ok) ==
  LET result == [at |-> "answered", answer |-> IF ok THEN Answer(TRUE, upgradable) ELSE NoAnswer]
  IN /\ attempt[s][n].at = "running"
     /\ attempt' = [attempt EXCEPT ![s][n] = result]
     /\ answers' = [answers EXCEPT ![ScanKey(s)] = result]
     /\ UNCHANGED <<scan, scanner, agentKnown, upgradable, since, told, events>>

Happens == events < MaxEvents /\ events' = events + 1

\* Full, or the agent restarted: it remembers nothing.
AnswersForgotten ==
  /\ Happens
  /\ answers' = [s \in ScanIds |-> Quiet]
  /\ UNCHANGED <<scan, scanner, agentKnown, attempt, upgradable, since, told>>

----------------------------------------------------------------------------
(* Around them *)

AgentRegistered ==
  /\ Happens
  /\ agentKnown' = ~agentKnown
  /\ UNCHANGED <<scan, scanner, attempt, answers, upgradable, since, told>>

HostChanges ==
  /\ Happens
  /\ upgradable' \in Listings
  /\ since' = [s \in ScanIds |-> IF scanner[s] = Resting THEN since[s] ELSE since[s] \cup {upgradable'}]
  /\ UNCHANGED <<scan, scanner, agentKnown, attempt, answers, told>>

\* The store is empty after a restart: no row of a scan is ever read.
ScansLost ==
  /\ Happens
  /\ scan' = [s \in ScanIds |-> IF scan[s].status = "none" THEN scan[s] ELSE [status |-> "lost", updates |-> {}]]
  /\ scanner' = [s \in ScanIds |-> Resting]
  /\ UNCHANGED <<agentKnown, attempt, answers, upgradable, since, told>>

ScanHandler(s) == SendScan(s) \/ ScanTimeout(s) \/ ScanRefused(s) \/ FinishScan(s)
ScanNext ==
  \/ \E s \in ScanIds :
       \/ StartScan(s) \/ RunScan(s) \/ ScanHandler(s)
       \/ \E n \in Tries : AgentTakes(s, n) \/ \E ok \in BOOLEAN : AptListEnds(s, n, ok)
  \/ AnswersForgotten \/ AgentRegistered \/ HostChanges \/ ScansLost

ScanSpec == ScanInit /\ [][ScanNext]_scanVars

----------------------------------------------------------------------------
Updates(list) == {[package |-> list[i], class |-> Classification(list[i])] : i \in Readable(list)}

ScanTypeOK ==
  /\ \A s \in ScanIds :
       /\ scan[s].status \in ScanStatus
       /\ scan[s].updates \subseteq UNION {Updates(l) : l \in Listings}
       /\ scanner[s] \in [at : {"idle", "send", "wait"}, try : Tries]
       /\ since[s] \subseteq Listings
       /\ {answers[s], told[s]} \cup {attempt[s][n] : n \in Tries}
            \subseteq [at : {"none", "sent", "running", "answered"}, answer : [ok : BOOLEAN, list : Listings \cup {<<>>}]]
  /\ upgradable \in Listings /\ agentKnown \in BOOLEAN
  /\ events \in 0..MaxEvents

\* A succeeded scan hides no update the agent could read in apt's list
\* (build_scan fails as a whole, it never drops a record it cannot parse).
NoUpdateHidden ==
  \A s \in ScanIds : scan[s].status = "succeeded" =>
    told[s].answer.ok /\ scan[s].updates = Updates(told[s].answer.list)

\* The list a scan is built of was printed while the scan ran, not for an
\* earlier one, although the agent answers a key it knows from its memory.
ListIsFresh ==
  \A s \in ScanIds : told[s].answer.ok => told[s].answer.list \in since[s]

\* A scan has one handler, which finds it running.
RunningOnce == \A s \in ScanIds : scanner[s] # Resting => scan[s].status = "running"

\* Scans are true: what a succeeded one shows is what the agent read of
\* apt's list while it ran (run_scan, the agent's memory of answers,
\* build_scan).
ScansTrue == ScanTypeOK /\ NoUpdateHidden /\ ListIsFresh /\ RunningOnce
=============================================================================
