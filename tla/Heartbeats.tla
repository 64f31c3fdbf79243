----------------------------- MODULE Heartbeats -----------------------------
(* An agent's telemetry and package inventory on their way to the           *)
(* controller.  The agent samples the system every few seconds into a       *)
(* window of two heartbeat intervals and sends the whole window with every  *)
(* heartbeat, so that most samples are sent twice; the controller measures  *)
(* their age by the agent's clock, takes the times over into its own, and   *)
(* inserts what no row overlaps.  The inventory is sent until a heartbeat   *)
(* that carried it is answered.  Heartbeats come from the agent's loop and, *)
(* on Windows, from the workflow poller beside it; neither client has a     *)
(* timeout, so a heartbeat can take any time, and it can be lost or cut off *)
(* before any statement of its handler, or be given up while its handler    *)
(* goes on.                                                                 *)
EXTENDS Integers, FiniteSets, Sequences, SequencesExt

CONSTANTS
  Beats,                        \* bound: heartbeats on their way at once
  SampleEvery, HeartbeatEvery,  \* seconds between two samples, two heartbeats
  WindowSeconds, MaxSamples,    \* TelemetryBuffer::WINDOW_SECONDS, MAX_SAMPLES
  Overlap, FutureSkew,          \* seconds around a row that count as the same sample, of clock error
  Skew,                         \* the agent's clock less the controller's
  MaxMissed,                    \* bound: heartbeats that fail
  MaxInventories, Horizon       \* bounds
ASSUME TelemetryAssumption ==
  /\ SampleEvery \in Nat \ {0} /\ HeartbeatEvery \in Nat \ {0} /\ Horizon \in Nat
  /\ Skew \in Int /\ 2 * Overlap < SampleEvery

VARIABLES
  now,          \* seconds, by the controller's clock
  buffer,       \* TelemetryBuffer: collected_at of the samples, by the agent's clock
  due,          \* when the next sample and the loop's next heartbeat are due, and whether the poller has one to send
  held,         \* the inventory the agent still has to deliver: number and validity
  beats,        \* the heartbeats on their way
  timeline,     \* target_telemetry_samples: time of a row, true time of its sample
  snapshot,     \* package_inventory_snapshots: number of the snapshot
  taken,        \* history: the last inventory collected, those ever stored, and those the controller discarded
  crossed,      \* history: two transactions appended at once
  missed        \* heartbeats that failed so far
heartbeatVars == <<now, buffer, due, held, beats, timeline, snapshot, taken, crossed, missed>>

NoInventory == [n |-> 0, valid |-> TRUE]
\* by: who waits for the answer; rows: what the open transaction inserts.
Quiet == [at |-> "quiet", by |-> "nobody", sent |-> 0, samples |-> <<>>, package |-> NoInventory,
          received |-> 0, appended |-> 0, rows |-> {}, replace |-> FALSE]
AgentClock == now + Skew

HeartbeatInit ==
  /\ now = 0 /\ buffer = <<>> /\ held = NoInventory /\ beats = [b \in Beats |-> Quiet]
  /\ \E phase \in 0 .. SampleEvery - 1 : due = [sample |-> 0, beat |-> phase, poller |-> FALSE]
  /\ timeline = {} /\ snapshot = 0 /\ crossed = FALSE /\ missed = 0
  /\ taken = [last |-> NoInventory, stored |-> {}, discarded |-> {}]

Move(b, place) == beats' = [beats EXCEPT ![b].at = place]

----------------------------------------------------------------------------
(* The agent.                                                               *)
Newest(s, n) == IF Len(s) > n THEN SubSeq(s, Len(s) - n + 1, Len(s)) ELSE s
RemoveExpired(s) == SelectSeq(s, LAMBDA t : t >= AgentClock - WindowSeconds)

\* TelemetryBuffer::record, from the sampling loop.
RecordTelemetry ==
  /\ due.sample = now
  /\ buffer' = RemoveExpired(Newest(Append(buffer, AgentClock), MaxSamples))
  /\ due' = [due EXCEPT !.sample = now + SampleEvery]
  /\ UNCHANGED <<now, held, beats, timeline, snapshot, taken, crossed, missed>>

\* record_package_inventory replaces what was not delivered yet: from the
\* collecting loop, or from the poller, which then sends a heartbeat.
RecordInventory ==
  /\ taken.last.n < MaxInventories
  /\ \E valid \in BOOLEAN :
       LET i == [n |-> taken.last.n + 1, valid |-> valid] IN held' = i /\ taken' = [taken EXCEPT !.last = i]
  /\ \/ due' = due
     \/ /\ ~due.poller /\ \A b \in Beats : beats[b].by # "poller"
        /\ due' = [due EXCEPT !.poller = TRUE]
  /\ UNCHANGED <<now, buffer, beats, timeline, snapshot, crossed, missed>>

\* send_agent_heartbeat.
SendAs(b, sender) ==
  /\ beats[b].at = "quiet"
  /\ beats' = [beats EXCEPT ![b] = [Quiet EXCEPT !.at = "sent", !.by = sender, !.sent = AgentClock,
                                                 !.samples = RemoveExpired(buffer), !.package = held]]
  /\ buffer' = RemoveExpired(buffer)
  /\ UNCHANGED <<now, held, timeline, snapshot, taken, crossed, missed>>

\* The loop awaits its heartbeat, then sleeps.
Waiting(sender) == \E b \in Beats : beats[b].by = sender
SendHeartbeat(b) == due.beat <= now /\ ~Waiting("loop") /\ SendAs(b, "loop") /\ UNCHANGED due
\* report_claimed_workflow, beside the loop.
PollerSends(b) == due.poller /\ SendAs(b, "poller") /\ due' = [due EXCEPT !.poller = FALSE]

\* The loop sleeps after the answer or the error.
Sleeps(b) == due' = IF beats[b].by = "loop" THEN [due EXCEPT !.beat = now + HeartbeatEvery] ELSE due

\* No answer, or a storage error: the agent keeps its inventory.  The
\* handler is cut off, or goes on without anyone who waits for it.
HeartbeatFails(b) ==
  /\ beats[b].by # "nobody" /\ missed < MaxMissed /\ missed' = missed + 1
  /\ \/ beats' = [beats EXCEPT ![b] = Quiet]
     \/ beats' = [beats EXCEPT ![b].by = "nobody"]
  /\ Sleeps(b)
  /\ UNCHANGED <<now, buffer, held, timeline, snapshot, taken, crossed>>

\* Mutant: any answer acknowledges whatever is held.
AcknowledgeAny(package) == held' = IF package.n # 0 THEN NoInventory ELSE held

\* acknowledge_package_inventory.
Acknowledge(package) == held' = IF package.n # 0 /\ held.n = package.n THEN NoInventory ELSE held

HeartbeatAnswered(b) ==
  /\ beats[b].at = "answer" /\ beats' = [beats EXCEPT ![b] = Quiet] /\ Sleeps(b)
  /\ IF beats[b].by # "nobody" THEN Acknowledge(beats[b].package) ELSE UNCHANGED held
  /\ UNCHANGED <<now, buffer, timeline, snapshot, taken, crossed, missed>>

----------------------------------------------------------------------------
(* The controller.                                                          *)
\* A sample's time by the controller's clock: received less its age.
Normalized(sample, sent, received) == received - (sent - sample)

\* sanitize_telemetry_window: the newest samples that are neither too old
\* nor from the future, in order of time, each time once.
SanitizeTelemetry(samples, sent, received) ==
  LET fit == SelectSeq(Newest(samples, MaxSamples), LAMBDA t : sent - t \in -FutureSkew .. WindowSeconds)
  IN [i \in DOMAIN fit |-> [at |-> Normalized(fit[i], sent, received), of |-> fit[i] - Skew]]

\* sanitize_agent_package_inventory: from a Windows agent of a Windows target,
\* neither too long, too old nor from the future, with a usable package.
SanitizeInventory(package) == IF package.valid THEN package ELSE NoInventory
\* sanitize_reported_package_inventory: an invalid inventory is discarded and
\* the heartbeat accepted.
Discards(package) == package # SanitizeInventory(package)

\* receive_agent_heartbeat, under the store's lock; the update of the
\* target's row, the first statement, follows.
ReceiveHeartbeat(b) ==
  /\ beats[b].at = "sent"
  /\ beats' = [beats EXCEPT ![b].at = "append", ![b].received = now]
  /\ taken' = IF Discards(beats[b].package) THEN [taken EXCEPT !.discarded = @ \cup {beats[b].package.n}] ELSE taken
  /\ UNCHANGED <<now, buffer, due, held, timeline, snapshot, crossed, missed>>

Overlaps(stored, at) == \E r \in stored : r.at \in at - Overlap .. at + Overlap
TooOld(at, when) == at < when - WindowSeconds
\* Mutant: only the very same second is taken for the same sample.
InsertUnlessEqual(stored, s) ==
  IF s.at > now + FutureSkew \/ TooOld(s.at, now) \/ (\E r \in stored : r.at = s.at)
    THEN stored ELSE stored \cup {s}
\* One sample of append_heartbeat.
InsertSample(stored, s) ==
  IF s.at > now + FutureSkew \/ TooOld(s.at, now) \/ Overlaps(stored, s.at)
    THEN stored ELSE stored \cup {s}

Sanitized(b) == SanitizeTelemetry(beats[b].samples, beats[b].sent, beats[b].received)
\* append_heartbeat: the transaction sees the rows that are committed, and
\* its own.
AppendHeartbeat(b) ==
  /\ beats[b].at = "append"
  /\ beats' = [beats EXCEPT ![b].at = "commit", ![b].appended = now,
                            ![b].rows = FoldLeft(InsertSample, timeline, Sanitized(b)) \ timeline]
  /\ UNCHANGED <<now, buffer, due, held, timeline, snapshot, taken, crossed, missed>>

\* ON CONFLICT DO NOTHING: the key is the target and the time.
CommitHeartbeat(b) ==
  /\ beats[b].at = "commit"
  /\ timeline' = timeline \cup {r \in beats[b].rows : \A s \in timeline : s.at # r.at}
  /\ crossed' = (crossed \/ \E c \in Beats \ {b} : beats[c].at = "commit")
  /\ beats' = [beats EXCEPT ![b].at = IF SanitizeInventory(beats[b].package).n # 0 THEN "latest" ELSE "answer",
                            ![b].rows = {}]
  /\ UNCHANGED <<now, buffer, due, held, snapshot, taken, missed>>

FindLatest(b) ==
  /\ beats[b].at = "latest"
  /\ beats' = [beats EXCEPT ![b].at = "replace", ![b].replace = (snapshot < beats[b].package.n)]
  /\ UNCHANGED <<now, buffer, due, held, timeline, snapshot, taken, crossed, missed>>

ReplaceInventory(b) ==
  /\ beats[b].at = "replace" /\ Move(b, "answer")
  /\ IF beats[b].replace
       THEN /\ snapshot' = beats[b].package.n
            /\ taken' = [taken EXCEPT !.stored = @ \cup {beats[b].package.n}]
       ELSE UNCHANGED <<snapshot, taken>>
  /\ UNCHANGED <<now, buffer, due, held, timeline, crossed, missed>>

----------------------------------------------------------------------------
Second ==
  /\ now < Horizon /\ due.sample > now
  /\ due.beat > now \/ Waiting("loop")
  /\ now' = now + 1
  /\ UNCHANGED <<buffer, due, held, beats, timeline, snapshot, taken, crossed, missed>>

HeartbeatNext ==
  \/ RecordTelemetry \/ RecordInventory \/ Second
  \/ \E b \in Beats :
       \/ SendHeartbeat(b) \/ PollerSends(b) \/ HeartbeatFails(b) \/ HeartbeatAnswered(b)
       \/ ReceiveHeartbeat(b) \/ AppendHeartbeat(b) \/ CommitHeartbeat(b)
       \/ FindLatest(b) \/ ReplaceInventory(b)
HeartbeatSpec == HeartbeatInit /\ [][HeartbeatNext]_heartbeatVars

----------------------------------------------------------------------------
(* The types of the telemetry's state, and the buffer's bounds: its samples *)
(* are in order, few, and none was taken by another clock.                  *)
HeartbeatTypeOK ==
  /\ Len(buffer) <= MaxSamples
  /\ \A i \in 1 .. Len(buffer) - 1 : buffer[i] < buffer[i + 1]
  /\ \A i \in DOMAIN buffer : buffer[i] - Skew \in 0 .. now
  /\ snapshot \in 0 .. MaxInventories /\ held.n \in 0 .. taken.last.n

(* Whatever the agent's clock, a row has the time at which its sample was   *)
(* taken, and the heartbeat's delay: never before, never in the future.     *)
RowsInTheirTime == \A r \in timeline : r.at \in r.of .. now

(* A sample that several heartbeats carried has one row, unless their       *)
(* delays differ by more than the overlap or their transactions overlapped. *)
SamplesStoredOnce ==
  crossed \/ \A r, s \in timeline : r.of = s.of /\ r # s => r.at \notin s.at - Overlap .. s.at + Overlap

(* A heartbeat that is answered left no hole: every sample it carried, but  *)
(* those that were too old when it was written, has a row at its time.      *)
AnsweredIsWritten ==
  \A b \in Beats : beats[b].at \in {"latest", "replace", "answer"} =>
    LET samples == Sanitized(b)
    IN \A i \in DOMAIN samples :
         TooOld(samples[i].at, beats[b].appended) \/ Overlaps(timeline, samples[i].at)

(* The timeline is what the agent measured, however long heartbeats take:   *)
(* every sample near its time, not twice for one delay, and whatever an     *)
(* answered heartbeat carried.                                              *)
TimelineFaithful == HeartbeatTypeOK /\ RowsInTheirTime /\ SamplesStoredOnce /\ AnsweredIsWritten

(* An inventory the agent no longer holds was stored, unless the controller *)
(* found it invalid: nothing collected while a heartbeat was on its way is  *)
(* forgotten with its answer, and no failed statement is acknowledged.      *)
ForgottenIsStored ==
  (held.n = 0 /\ taken.last.n # 0) => taken.last.n \in taken.stored \cup taken.discarded
=============================================================================
