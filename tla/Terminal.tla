------------------------------ MODULE Terminal ------------------------------
(* The admin terminal: a WebSocket the controller joins to a PTY of a       *)
(* target over SSH.  A session takes a place in the registry, is audited,   *)
(* connects, and then serves whatever select! finds ready: its deadlines,   *)
(* the tick that looks at the administrator's rights again, a message of    *)
(* the browser, a message of the host.  Rights go away at any time; browser *)
(* and host may stop reading, fail or close at any time.                    *)
EXTENDS Naturals, FiniteSets, FiniteSetsExt

CONSTANTS
  Sessions,  \* terminal requests
  Admins, Targets, Nobody,
  MaxSessionsPerUser, MaxSessionsPerTarget,
  MaxSessionDuration, IdleTimeout,  \* in intervals of AUTH_RECHECK_INTERVAL
  MaxLost                           \* bound: administrators that lose their rights
ASSUME LimitAssumption ==
  /\ IsFiniteSet(Sessions) /\ MaxSessionsPerUser \in Nat /\ MaxSessionsPerTarget \in Nat
  /\ MaxSessionDuration \in Nat /\ IdleTimeout \in Nat

VARIABLES
  session,   \* step, administrator, target, age and idle time of a request
  registry,  \* TerminalSessionRegistry: sessions that hold a lease
  channel,   \* sessions with an open SSH channel
  inbox,     \* the message of browser or host that waits: "none", "timely" or "late"
  rights,    \* administrators with a valid session, as the database says
  log,       \* auth audit: sessions started and ended
  passed     \* history: messages of someone without rights that were passed on
terminalVars == <<session, registry, channel, inbox, rights, log, passed>>

Unused == [at |-> "new", user |-> Nobody, target |-> Nobody, age |-> 0, idle |-> 0, due |-> FALSE]

TerminalInit ==
  /\ session = [i \in Sessions |-> Unused]
  /\ registry = {} /\ channel = {}
  /\ inbox = [i \in Sessions |-> "none"]
  /\ rights = Admins /\ log = [started |-> {}, ended |-> {}] /\ passed = {}

At(i, step) == session[i].at = step
Goes(i, step) == session' = [session EXCEPT ![i].at = step]
Ends(i) == session' = [session EXCEPT ![i] = [Unused EXCEPT !.at = "done"]]
Admin(i) == session[i].user \in rights

\* terminal_session: the middleware has found the account's session.
TerminalSession(i, u, t) ==
  /\ At(i, "new") /\ u \in rights
  /\ session' = [session EXCEPT ![i].at = "find", ![i].user = u, ![i].target = t]
  /\ UNCHANGED <<registry, channel, inbox, rights, log, passed>>

\* find_terminal_target and load_terminal_connection refuse the target or
\* one of its secrets.
RefuseTerminal(i) ==
  /\ At(i, "find") /\ Ends(i)
  /\ UNCHANGED <<registry, channel, inbox, rights, log, passed>>

OfTarget(t) == {i \in registry : session[i].target = t}
OfUser(u) == {i \in registry : session[i].user = u}

\* reserve_terminal_session, under the registry's lock.
ReserveTerminalSession(i) ==
  /\ At(i, "find")
  /\ IF /\ Cardinality(OfTarget(session[i].target)) < MaxSessionsPerTarget
        /\ Cardinality(OfUser(session[i].user)) < MaxSessionsPerUser
       THEN registry' = registry \cup {i} /\ Goes(i, "started")
       ELSE Ends(i) /\ UNCHANGED registry
  /\ UNCHANGED <<channel, inbox, rights, log, passed>>

\* record_terminal_audit of the start: its failure ends the request.
RecordStarted(i) ==
  /\ At(i, "started")
  /\ \/ log' = [log EXCEPT !.started = @ \cup {i}] /\ Goes(i, "upgrade") /\ UNCHANGED registry
     \/ Ends(i) /\ registry' = registry \ {i} /\ UNCHANGED log
  /\ UNCHANGED <<channel, inbox, rights, passed>>

\* The connection is gone before the upgrade: the lease goes with the
\* handler or with the closure, and nothing says the session ended.
TerminalDropped(i) ==
  /\ session[i].at \in {"started", "upgrade"}
  /\ Ends(i) /\ registry' = registry \ {i}
  /\ UNCHANGED <<channel, inbox, rights, log, passed>>

Upgrade(i) ==
  /\ At(i, "upgrade") /\ Goes(i, "connect")
  /\ UNCHANGED <<registry, channel, inbox, rights, log, passed>>

\* open_ssh_session: the known hosts are written; connection and key
\* exchange have CONNECT_TIMEOUT.
Connect(i) ==
  /\ At(i, "connect") /\ \E step \in {"shell", "refused"} : Goes(i, step)
  /\ UNCHANGED <<registry, channel, inbox, rights, log, passed>>

\* The host authenticates and opens channel, PTY and shell.  What it says
\* of its algorithms and its answers to the three requests are awaited
\* without a timeout.
OpenShell(i) ==
  /\ At(i, "shell")
  /\ \/ channel' = channel \cup {i} /\ Goes(i, "ready")
     \/ Goes(i, "refused") /\ UNCHANGED channel
  /\ UNCHANGED <<registry, inbox, rights, log, passed>>

\* send_error, to a browser that takes the message, is gone or lets it wait.
SendRefusal(i) ==
  /\ At(i, "refused") /\ Goes(i, "finish")
  /\ UNCHANGED <<registry, channel, inbox, rights, log, passed>>

\* run_session says ready; the first tick of the interval is due at once.
SendReady(i) ==
  /\ At(i, "ready")
  /\ \/ session' = [session EXCEPT ![i].at = "select", ![i].due = TRUE]
     \/ Goes(i, "close")
  /\ UNCHANGED <<registry, channel, inbox, rights, log, passed>>

\* Mutant: only the idle deadline.
DeadlineIdleOnly(i) ==
  /\ At(i, "select") /\ session[i].idle >= IdleTimeout /\ Goes(i, "notice")
  /\ UNCHANGED <<registry, channel, inbox, rights, log, passed>>

\* The arms of select!: the two deadlines.  Each tells the browser first.
Deadline(i) ==
  /\ At(i, "select")
  /\ session[i].age >= MaxSessionDuration \/ session[i].idle >= IdleTimeout
  /\ Goes(i, "notice")
  /\ UNCHANGED <<registry, channel, inbox, rights, log, passed>>

\* session_is_admin on the tick.
AuthCheck(i) ==
  /\ At(i, "select") /\ session[i].due
  /\ session' = IF Admin(i) THEN [session EXCEPT ![i].due = FALSE] ELSE [session EXCEPT ![i].at = "notice"]
  /\ UNCHANGED <<registry, channel, inbox, rights, log, passed>>

Incoming(i) ==
  /\ At(i, "select") /\ inbox[i] # "none" /\ Goes(i, "check")
  /\ UNCHANGED <<registry, channel, inbox, rights, log, passed>>

\* Mutant: the rights seen at the last tick are enough.
CheckMessageByTick(i) ==
  /\ At(i, "check") /\ session' = [session EXCEPT ![i].at = "pass", ![i].idle = 0]
  /\ UNCHANGED <<registry, channel, inbox, rights, log, passed>>

\* session_is_admin before a message is looked at; a close, an invalid or
\* too large one ends the session, the last two with a notice; input, a resize and output put the idle
\* deadline off, a ping does not.
CheckMessage(i) ==
  /\ At(i, "check")
  /\ \/ Admin(i) /\ session' = [session EXCEPT ![i].at = "pass", ![i].idle = 0]
     \/ Admin(i) /\ Goes(i, "pass")
     \/ Goes(i, "notice")
     \/ Admin(i) /\ Goes(i, "close")
  /\ UNCHANGED <<registry, channel, inbox, rights, log, passed>>

\* data_bytes, window_change or send returns: the message is with the other
\* side, or the stream failed.  While it does not, no other arm is served.
PassOn(i) ==
  /\ At(i, "pass")
  /\ \/ /\ Goes(i, "select")
        /\ passed' = IF inbox[i] = "late" THEN passed \cup {i} ELSE passed
     \/ Goes(i, "close") /\ UNCHANGED passed
  /\ inbox' = [inbox EXCEPT ![i] = "none"]
  /\ UNCHANGED <<registry, channel, rights, log>>

StreamEnds(i) ==
  /\ At(i, "select") /\ Goes(i, "close")
  /\ UNCHANGED <<registry, channel, inbox, rights, log, passed>>

\* send_json or send_error of the reason returns, sent or not.
SendNotice(i) ==
  /\ At(i, "notice") /\ Goes(i, "close")
  /\ UNCHANGED <<registry, channel, inbox, rights, log, passed>>

\* The channel is closed and the client disconnected.
CloseChannel(i) ==
  /\ At(i, "close") /\ Goes(i, "finish") /\ channel' = channel \ {i}
  /\ inbox' = [inbox EXCEPT ![i] = "none"]
  /\ UNCHANGED <<registry, rights, log, passed>>

\* The end is audited, an error only logged; the lease is dropped.
EndSession(i) ==
  /\ At(i, "finish") /\ Ends(i)
  /\ registry' = registry \ {i}
  /\ log' \in {log, [log EXCEPT !.ended = @ \cup {i}]}
  /\ UNCHANGED <<channel, inbox, rights, passed>>

----------------------------------------------------------------------------
(* The world: a message of the browser or the host arrives, time passes,    *)
(* rights are withdrawn (logout, expiry, another role, a disabled account). *)
MessageArrives(i) ==
  /\ i \in channel /\ inbox[i] = "none"
  /\ inbox' = [inbox EXCEPT ![i] = IF Admin(i) THEN "timely" ELSE "late"]
  /\ UNCHANGED <<session, registry, channel, rights, log, passed>>

Interval ==
  /\ session' = [i \in Sessions |->
       IF session[i].at \in {"select", "check", "pass"}
         THEN [session[i] EXCEPT !.age = Min({@ + 1, MaxSessionDuration}), !.idle = Min({@ + 1, IdleTimeout}), !.due = TRUE]
         ELSE session[i]]
  /\ session' # session
  /\ UNCHANGED <<registry, channel, inbox, rights, log, passed>>

LoseRights(u) ==
  /\ u \in rights /\ Cardinality(Admins \ rights) < MaxLost
  /\ rights' = rights \ {u}
  /\ UNCHANGED <<session, registry, channel, inbox, log, passed>>

\* Steps the controller and its database take by themselves, and steps that
\* end when browser or host take what is sent or answer.
OwnStep(i) ==
  \/ RefuseTerminal(i) \/ ReserveTerminalSession(i) \/ RecordStarted(i) \/ Upgrade(i) \/ Connect(i)
  \/ CheckMessage(i) \/ EndSession(i)
PeerStep(i) ==
  OpenShell(i) \/ SendRefusal(i) \/ SendReady(i) \/ PassOn(i) \/ SendNotice(i) \/ CloseChannel(i)
TerminalNext ==
  \/ \E i \in Sessions :
       \/ \E u \in Admins, t \in Targets : TerminalSession(i, u, t)
       \/ OwnStep(i) \/ PeerStep(i) \/ TerminalDropped(i) \/ MessageArrives(i) \/ StreamEnds(i)
       \/ Deadline(i) \/ AuthCheck(i) \/ Incoming(i)
  \/ Interval \/ \E u \in Admins : LoseRights(u)
TerminalSpec == TerminalInit /\ [][TerminalNext]_terminalVars

(* Futures are polled; select! chooses at random among the arms that are    *)
(* ready, so none that is ready again and again is left out for ever; the   *)
(* database answers.  Nothing is said of PeerStep: no send and no answer of *)
(* browser or host has a timeout, so a session may wait for them for ever.  *)
TerminalFairness ==
  /\ WF_terminalVars(Interval)
  /\ \A i \in Sessions :
       /\ WF_terminalVars(OwnStep(i))
       /\ SF_terminalVars(Deadline(i))
TerminalFairSpec == TerminalSpec /\ TerminalFairness

----------------------------------------------------------------------------
(* The types of the terminal's state.                                       *)
TerminalTypeOK ==
  /\ registry \subseteq Sessions /\ channel \subseteq Sessions /\ rights \subseteq Admins
  /\ channel \cup log.ended \subseteq log.started /\ log.started \subseteq Sessions
  /\ \A i \in Sessions : session[i].user \in Admins \cup {Nobody} /\ session[i].target \in Targets \cup {Nobody}

(* A message that reached the controller after its administrator had lost   *)
(* the rights is never passed on, in either direction.                      *)
NothingPassedLate == passed = {}

(* docs/API.md: "Sessions allow one connection per target and at most two   *)
(* per Admin".  Whoever has a shell holds a lease, and the limits hold for  *)
(* the shells that are open, not just for the registry.                     *)
ShellsWithinLimits ==
  /\ channel \subseteq registry
  /\ \A t \in Targets : Cardinality({i \in channel : session[i].target = t}) <= MaxSessionsPerTarget
  /\ \A u \in Admins : Cardinality({i \in channel : session[i].user = u}) <= MaxSessionsPerUser

(* A shell is one of few and serves an administrator only (the registry's   *)
(* leases, session_is_admin before every message).                          *)
ShellsGuarded == TerminalTypeOK /\ ShellsWithinLimits /\ NothingPassedLate

(* The session waits for browser or host: for an answer, or for a message   *)
(* to be taken.                                                             *)
Waits(i) == session[i].at \in {"shell", "refused", "ready", "pass", "notice", "close"}

(* Every session gives its place back, however busy it is, unless browser   *)
(* or host leave one of its sends or questions waiting for ever (the two    *)
(* deadlines of run_session, which are served between messages only).       *)
SessionsEnd ==
  \A i \in Sessions : (<>[]Waits(i)) \/ (i \in registry ~> i \notin registry)
=============================================================================
