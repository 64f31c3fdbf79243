---------------------------- MODULE WorkerHealth ----------------------------
(***************************************************************************)
(* What the controller says of the Ansible worker, and the artifact store  *)
(* behind it: the task that probes the store and writes heartbeats, the    *)
(* availability read from the last row, and the worker's main loop with    *)
(* the download of agent binaries for a deployment, which runs beside that *)
(* task and has no time limit.                                             *)
(*                                                                         *)
(* Time is in seconds; ages are kept instead of timestamps and stop at     *)
(* Old.  A statement of PostgreSQL takes no time.  SHA-256 of a file is    *)
(* the release it comes from.                                              *)
(***************************************************************************)
EXTENDS Naturals, FiniteSets

CONSTANTS
  HeartbeatInterval, ProbeInterval,  \* of artifact_store.rs
  ProbeTimeout,                      \* of the probe's HTTP client
  WindowSeconds,                     \* WORKER_HEARTBEAT_WINDOW_SECONDS
  MaxMisses,                         \* bound on storage errors in a row
  MaxReleases,                       \* bound on what is published
  TargetKinds                        \* of the targets that get an agent

ASSUME WorkerAssumption ==
  /\ {HeartbeatInterval, ProbeInterval, ProbeTimeout, WindowSeconds} \subseteq Nat \ {0}
  /\ MaxMisses \in Nat /\ MaxReleases \in Nat /\ TargetKinds \subseteq {"linux", "windows"}

\* The window has room for three sleeps and a probe, and two probes are more
\* than two sleeps apart: 10 >= 3 * 2 + 3 and 15 > 2 * 2 in the code.
ASSUME WindowAssumption ==
  /\ HeartbeatInterval + HeartbeatInterval + HeartbeatInterval + ProbeTimeout <= WindowSeconds
  /\ HeartbeatInterval + HeartbeatInterval < ProbeInterval

VARIABLES
  beat,      \* the task report_availability: what it does, its timers,
             \* and (history) whether it has stored a row
  probed,    \* its variables available and checked_at
  beatRow,   \* the row of worker_heartbeats
  misses,    \* writes of it that failed in a row
  skipped,   \* whether the last probe was one of them
  loop,      \* the worker's main loop and the job it prepares
  up,        \* whether the worker runs
  downFor,   \* and for how long it has not
  store      \* the artifact store

beatVars == <<beat, probed, beatRow, misses, skipped>>
workerVars == <<beatVars, loop, up, downFor, store>>

Platforms == {"linux-amd64", "linux-arm64", "windows-amd64"}
Late == WindowSeconds + 1
Old == ProbeInterval + HeartbeatInterval + ProbeTimeout + 1
Older(age, bound) == IF age < bound THEN age + 1 ELSE bound
Down(n) == IF n = 0 THEN 0 ELSE n - 1

NoManifest == [version |-> "none", sha |-> [p \in Platforms |-> 0]]
Polling == [at |-> "poll", kind |-> "linux", manifest |-> NoManifest, written |-> {}]
FirstBeat == [at |-> "sleep", wait |-> 0, next |-> 0, reported |-> FALSE]
NotProbed == [available |-> FALSE, age |-> 0]

WorkerInit ==
  /\ beat = FirstBeat /\ probed = NotProbed
  /\ beatRow = [seen |-> Late, available |-> FALSE, age |-> Old]
  /\ misses = 0 /\ skipped = FALSE
  /\ loop = Polling /\ up = TRUE /\ downFor = 0
  /\ store = [up |-> TRUE, releases |-> 1,
              manifest |-> [version |-> "ours", sha |-> [p \in Platforms |-> 1]],
              file |-> [p \in Platforms |-> [sha |-> 1, machine |-> p]]]

----------------------------------------------------------------------------
(* The reporting task *)

\* The version and one entry per platform, each with a file and a checksum.
SupportsManifest(m) == m.version = "ours" /\ \A p \in Platforms : m.sha[p] # 0

\* is_available: false when nothing answers before the timeout.
ProbeAnswers ==
  {a \in BOOLEAN : IF a THEN store.up /\ SupportsManifest(store.manifest)
                   ELSE ~store.up \/ ~SupportsManifest(store.manifest) \/ beat.wait = 0}

\* WorkerHeartbeatRepository::record, or an error that is only logged.
Record(p, ok) ==
  /\ beatRow' = IF ok THEN [seen |-> 0, available |-> p.available, age |-> p.age] ELSE beatRow
  /\ misses' = IF ok THEN 0 ELSE misses + 1
  /\ ~ok => misses < MaxMisses

StartProbe ==
  /\ up /\ beat.at = "sleep" /\ beat.wait = 0 /\ beat.next = 0
  /\ beat' = [beat EXCEPT !.at = "probe", !.wait = ProbeTimeout]
  /\ UNCHANGED <<probed, beatRow, misses, skipped, loop, up, downFor, store>>

\* probe_and_persist: what was probed is kept only when it was stored.
ProbeEnds(ok) ==
  /\ up /\ beat.at = "probe"
  /\ \E a \in ProbeAnswers :
       LET p == [available |-> a, age |-> 0]
       IN Record(p, ok) /\ probed' = IF ok THEN p ELSE probed
  /\ skipped' = ~ok
  /\ beat' = [at |-> "sleep", wait |-> HeartbeatInterval, next |-> ProbeInterval, reported |-> beat.reported \/ ok]
  /\ UNCHANGED <<loop, up, downFor, store>>

\* Mutant: the row is written when the store is probed, not in between.
HeartbeatQuiet(ok) ==
  /\ up /\ beat.at = "sleep" /\ beat.wait = 0 /\ beat.next > 0 /\ ok
  /\ beat' = [beat EXCEPT !.wait = HeartbeatInterval]
  /\ UNCHANGED <<beatRow, misses, probed, skipped, loop, up, downFor, store>>

\* Between two probes the row is written with what the last one found.
Heartbeat(ok) ==
  /\ up /\ beat.at = "sleep" /\ beat.wait = 0 /\ beat.next > 0
  /\ Record(probed, ok)
  /\ beat' = [beat EXCEPT !.wait = HeartbeatInterval, !.reported = @ \/ ok]
  /\ UNCHANGED <<probed, skipped, loop, up, downFor, store>>

----------------------------------------------------------------------------
(* The main loop: resolve and download of agent_artifacts.rs *)

\* process asks for a job and there may be none.
Poll ==
  /\ up /\ loop.at = "poll"
  /\ \/ UNCHANGED loop
     \/ \E k \in TargetKinds : loop' = [Polling EXCEPT !.at = "manifest", !.kind = k]
  /\ UNCHANGED <<beatVars, up, downFor, store>>

Required(kind) == IF kind = "windows" THEN {"windows-amd64"} ELSE {"linux-amd64"}
\* linux-arm64 is taken along when the manifest lists it.
Wanted(kind, m) ==
  Required(kind) \cup {p \in {"linux-arm64"} : kind = "linux" /\ m.sha[p] # 0}

\* A failed job: the directory is removed and the loop asks for the next.
JobFails == loop' = Polling /\ UNCHANGED <<beatVars, up, downFor, store>>

ReadManifest ==
  /\ up /\ loop.at = "manifest"
  /\ LET m == store.manifest
         usable == store.up /\ m.version = "ours" /\ \A p \in Required(loop.kind) : m.sha[p] # 0
     IN \/ usable /\ loop' = [loop EXCEPT !.at = "download", !.manifest = m] /\ UNCHANGED <<beatVars, up, downFor, store>>
        \/ ~usable /\ JobFails

Missing == Wanted(loop.kind, loop.manifest) \ {w.platform : w \in loop.written}

\* The checksum of the manifest and the format of the platform.
Verified(p, file) == file.sha = loop.manifest.sha[p] /\ file.machine = p

\* linux-amd64 goes first; the status of the answer is not looked at, an
\* error page is a file with another checksum.
Download(p) ==
  /\ up /\ loop.at = "download" /\ p \in Missing
  /\ p = "linux-arm64" => "linux-amd64" \notin Missing
  /\ \/ /\ store.up /\ Verified(p, store.file[p])
        /\ loop' = [loop EXCEPT !.written = @ \cup {[platform |-> p, sha |-> store.file[p].sha, machine |-> store.file[p].machine]}]
        /\ UNCHANGED <<beatVars, up, downFor, store>>
     \/ ~(store.up /\ Verified(p, store.file[p])) /\ JobFails

\* The playbook gets the paths and ends, however it ends.
RunPlaybook ==
  /\ up /\ loop.at = "download" /\ Missing = {}
  /\ loop' = [loop EXCEPT !.at = "playbook"]
  /\ UNCHANGED <<beatVars, up, downFor, store>>
DeploymentEnds == up /\ loop.at = "playbook" /\ JobFails

----------------------------------------------------------------------------
(* The world *)

\* A second passes: timers that are due go first.
Tick ==
  /\ up => beat.wait > 0
  /\ beat' = [beat EXCEPT !.wait = Down(@), !.next = Down(@)]
  /\ probed' = [probed EXCEPT !.age = Older(@, Old)]
  /\ beatRow' = [beatRow EXCEPT !.seen = Older(@, Late), !.age = Older(@, Old)]
  /\ downFor' = IF up THEN 0 ELSE Older(downFor, Late)
  /\ UNCHANGED <<misses, skipped, loop, up, store>>

StoreFails ==
  /\ store' = [store EXCEPT !.up = ~@]
  /\ UNCHANGED <<beatVars, loop, up, downFor>>

\* A file is replaced, then, or before, the manifest of what is there.
PublishFile(p, q) ==
  /\ store.releases < MaxReleases
  /\ store' = [store EXCEPT !.releases = @ + 1, !.file[p] = [sha |-> store.releases + 1, machine |-> q]]
  /\ UNCHANGED <<beatVars, loop, up, downFor>>
PublishManifest(version, listed) ==
  /\ store.releases < MaxReleases
  /\ store' = [store EXCEPT !.releases = @ + 1,
       !.manifest = [version |-> version, sha |-> [p \in Platforms |-> IF p \in listed THEN store.file[p].sha ELSE 0]]]
  /\ UNCHANGED <<beatVars, loop, up, downFor>>

WorkerStops ==
  /\ up /\ up' = FALSE
  /\ beat' = FirstBeat /\ probed' = NotProbed /\ loop' = Polling
  /\ misses' = 0 /\ skipped' = FALSE
  /\ UNCHANGED <<beatRow, downFor, store>>

\* main of the worker: both tasks start anew.
WorkerStarts ==
  /\ ~up /\ up' = TRUE /\ downFor' = 0
  /\ probed' = NotProbed
  /\ UNCHANGED <<beat, beatRow, misses, skipped, loop, store>>

Restarts == WorkerStops \/ WorkerStarts
BeatNext == StartProbe \/ (\E ok \in BOOLEAN : ProbeEnds(ok) \/ Heartbeat(ok)) \/ Tick
LoopNext == Poll \/ ReadManifest \/ (\E p \in Platforms : Download(p)) \/ RunPlaybook \/ DeploymentEnds
StoreNext ==
  \/ StoreFails
  \/ \E p, q \in Platforms : PublishFile(p, q)
  \/ \E version \in {"ours", "other"}, listed \in SUBSET Platforms : PublishManifest(version, listed)
WorkerNext == BeatNext \/ LoopNext \/ StoreNext \/ Restarts

WorkerSpec == WorkerInit /\ [][WorkerNext]_workerVars

----------------------------------------------------------------------------
\* availability_dto, worker_info and scheduled_worker_available.
Available == beatRow.seen <= WindowSeconds

WorkerTypeOK ==
  /\ beat \in [at : {"sleep", "probe"}, wait : Nat, next : 0..ProbeInterval, reported : BOOLEAN]
  /\ probed \in [available : BOOLEAN, age : 0..Old]
  /\ beatRow \in [seen : 0..Late, available : BOOLEAN, age : 0..Old]
  /\ misses \in 0..MaxMisses /\ downFor \in 0..Late
  /\ loop.at \in {"poll", "manifest", "download", "playbook"}

\* A worker that is up and has reported once is available: the window has
\* room for a slow probe and two writes that fail in a row.
LiveIsAvailable == up /\ beat.reported /\ misses <= 2 => Available

\* A worker that is gone for longer than the window is not.
DeadIsNoticed == downFor > WindowSeconds => ~Available

\* What the row says of the store was found by a probe no older than one
\* interval, one sleep and one timeout, unless storing a later one failed.
StoreFlagIsRecent ==
  up /\ beat.reported /\ ~skipped =>
    /\ beatRow.available = probed.available
    /\ beatRow.age <= ProbeInterval + HeartbeatInterval + ProbeTimeout

\* A playbook gets the binaries of its target's platform, each with the
\* checksum of one approved manifest of the right version and the format of
\* its platform, whatever is published while they are downloaded.
BinariesVerified ==
  loop.at = "playbook" =>
    /\ loop.manifest.version = "ours"
    /\ {w.platform : w \in loop.written} = Wanted(loop.kind, loop.manifest)
    /\ \A w \in loop.written : w.machine = w.platform /\ w.sha = loop.manifest.sha[w.platform]

\* The controller's picture of the worker is true within the window, and the
\* worker deploys verified binaries (report_availability, availability_dto,
\* resolve).
WorkerToldTruly ==
  WorkerTypeOK /\ LiveIsAvailable /\ DeadIsNoticed /\ StoreFlagIsRecent /\ BinariesVerified
=============================================================================
