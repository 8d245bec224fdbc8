# Verification of swarmBalancer

TLA+ models of swarmBalancer: of what happens *between* steps in its concurrent
parts (threads, an event loop, messages, crashes, time), and of the discrete
algorithms of the others (formats, checks, schedules, accounting). TLC checks them
on small instances; TLAPS proves the results listed below for every value of their
constants.

- [1. The system](#1-the-system)
- [2. Plan](#2-plan)
- [3. Modules and their correspondence to the code](#3-modules-and-their-correspondence-to-the-code)
- [4. Runs](#4-runs)
- [5. Fairness](#5-fairness)
- [6. Proofs](#6-proofs)
- [7. Where the code and its docs disagree](#7-where-the-code-and-its-docs-disagree)
- [8. Observations](#8-observations)
- [9. Not modelled](#9-not-modelled)

Paths below are relative to `python/swarm/` of the repository unless they start
with `cpp/` or `docs/`. `tlc -config MCx.cfg MCx` repeats a run, `tlapm xProofs.tla`
a proof. `PROJECT.json` maps every definition to the lines it models.

## 1. The system

swarmBalancer spreads the work of a small neural "brain" over a swarm of nodes.
It has a simulator in which strategies are compared, a runtime in which real
nodes share inference over TLS, a guard between the brain and a robot's outputs,
signed bundles and an installer for them, an arena in which brains are trained, a
studio that does so in the background, an SDK for other people's brains, and a
portable C++ engine.

### Components

| component | state it keeps | operations | talks to | module |
|---|---|---|---|---|
| runtime worker (`runtime/node.py`: `_accept`, `_worker`, `close`) | accepted jobs `_work`, bounded `_queue`, result cache, `_closing` | accept, run, expire, share and replay a result, close | plugin on a one-thread executor; `submit` and `_reply` wait for its futures | `Worker` |
| runtime mesh (`_Session`, `submit`, `_select`, `_message`, `_reply`) | per session: pending requests, reservations, the peer's last load; per submission: the nodes tried | submit, request, answer, refuse, retry, disconnect, heartbeat | other nodes over TLS; its own worker | `Mesh` |
| runtime sessions (`start`, `_incoming`, `_connect`, `_serve`, `wait_for_peers`) | `_sessions`, `_sessions_starting`, inbound places | dial, hello, duplicate check, session age, close, restart | the mesh, once a session is registered | `Session` |
| runtime configuration, protocol, native handler (`runtime/config.py`, `protocol.py`, `handlers.py`) | the open model of a handler | accept a configuration, a certificate, a packet, a model | everything in the runtime | `Config` |
| robot guard (`robotics/guard.py`) | armed, fault, lease deadline, last sequence number, watchdog thread | arm, disarm, command, observe, poll, link loss, enter, close | the adapter's callbacks; the application's threads | `Guard`, `Lease` |
| robot profile (`robotics/profile.py`) | none | accept a profile, map outputs to channels | the guard's adapters | `Config` |
| identities and bundles (`deploy/identities.py`, `bundle.py`, `setup.py`) | directories of keys and certificates, archives | init, enroll, renew, accept, pack, export, verify, prepare | operators with drives | `Fleet` |
| installer (`deploy/installer.py`) | `.install.lock`, stage directories, `releases/`, `current.json` | install, status, launch | the file system; other installer processes | `Installer` |
| studio jobs (`studio/jobs.py`, routes of `studio/server.py`, `studio/worker.py`) | queue, `_running`, job states, `status.json` of a training | train, stop, cancel, shutdown, delete | worker processes, HTTP handlers' threads | `JobManager` |
| simulated membership, leadership, camera (`sim/membership.py`, `sim/strategies.py`, `sim/core.py`) | `last_seen`, suspects, role, camera epoch, scheduled events | beat, suspect, readmit, kill, revive, start and stop the camera | the channel; the strategies | `Swarm` |
| simulated work (`Node.compute`, `sim/channel.py`, strategies) | `_queued`, `_epoch`, jobs in flight, metrics | capture, ship, dispatch, compute, report, learn | other nodes over the channel | `Frames` |
| package library (`sdk/install.py`, `sdk/packages.py`, routes of the studio) | package folders, scratch folders | install, replace, remove, list, pack | the file system; other requests and command lines | `Library`, `Uploads` |
| SDK packages (`sdk/packages.py`, `api.py`, `validate.py`, `export.py`) | imported modules | check a manifest, load, register, validate, export | packages' code, the engine | `Packages` |
| arena training (`arena/train.py`, `parallel.py`, `es.py`) | weights, brain files, history, hall of fame, pool of processes | schedule, split, play, learn, save, stop | worker processes, the studio | `Training` |
| arena engagement (`arena/clash.py`) | fates of interceptors and attackers, tracks, stations | sense, relay, choose, shoot, cross | brains | `Clash` |
| arena survey (`arena/recon.py`) | chain of the lead, finders, reports | sense, find, store and forward | brains | `Recon` |
| python brain, C++ engine (`brain/`, `cpp/`) | model, arena of RAM | plan, write, load, place, run | each other through the `.swm` format | `Engine` |
| scenario battery (`bench/`, `scenarios/`) | event logs | plan simulations, pick a brain, derive recovery times, evaluate checks | the simulator | `Bench` |

The rest (heuristics, image training, device profiles, studio page, command lines,
templates, build scripts, examples) is listed in `PROJECT.json` with the reason it
is not modelled, and in section 9.

### Which behaviours are hard, and what makes each component correct

- **Worker.** A duplicate of a job may find it queued, running, cached or just
  evicted; callers time out or are cancelled while others share the future; the
  plugin may hang; `close` cancels the worker anywhere. Correct means: nobody
  waits for a job that is gone, a result belongs to the payload that was sent,
  a remembered job is not run again, `_work` is exactly what is queued or runs,
  and every wait ends.
- **Mesh.** Answers arrive late for their attempt, sessions break and reopen
  with jobs in flight, loads are stale when they are used, processes die.
  Correct means: reservations count exactly the open attempts, an answer is that
  of the attempt, a retry never runs a job twice on one node, and nothing is
  dropped silently while a session lives.
- **Sessions.** A peer that comes back meets its own old session; inbound places
  are as many as peers and are given back late; `wait_for_peers` shares its event
  with everything else. Correct means: a table entry is exactly a connection in
  use, places are exactly the connections served, a waiter is not left asleep
  while its peers are there, and two running nodes meet again.
- **Configuration, profile, handler.** What is accepted once is relied on ever
  after. Correct means: a certificate is one peer's at most, every packet that may
  be sent may be read, a refused model leaves nothing open, and no output outside
  its limits reaches a channel.
- **Guard.** Callbacks take time and fail with the lock held; the lease expires
  meanwhile; `close` ends the watchdog before it has the lock; a mapping that
  is read may call the guard again. Correct means: outputs are driven only under
  an unexpired lease that only a fresh command extends, a fault is final, an
  expired lease is stopped and ends in a fault.
- **Identities and bundles.** Files travel by drive: the wrong drive, a device set
  up again, a file cut short, a clock behind. Correct means: credentials are those
  an operator approved, for the device that asked; a bundle opens on its recipient
  only; what packing wrote unpacking accepts, and nothing else.
- **Installer.** Steps fail, processes are killed, power fails between
  replacement and sync, two installers overlap. Correct means: the pointer always
  names a complete release, what was reported is kept as long as the root is, versions only increase.
- **Studio jobs.** HTTP threads, run threads, a worker process and the main
  thread interleave; three writers share `status.json`. Correct means: slots are
  exact, a job is finished once, a cancelled job never starts, every job ends.
- **Library.** Requests and command lines change one folder without a lock, entry
  by entry. Correct means: no installed folder is a mixture of two packages, a
  scratch folder stays only where the file system refused to remove it or a crash
  came first, and a failed replacement leaves the old package. What is
  uploaded becomes a package under the name that was looked up, or is refused; what
  `pack` wrote installs unchanged.
- **Packages.** Listing, loader, validator and exporter are written apart and all
  trust the manifest check. Correct means: what is accepted never trips them up,
  what is valid can be used, what is exported keeps its claims.
- **Training.** Chunks are rounded, results return in any order, files are
  rewritten in place, and a run may be stopped, killed or lose a process. Correct
  means: scores do not depend on the number of processes, the best file holds what
  scored best, and the history matches the files.
- **Engagement and survey.** Several interceptors meet one attacker in the step it
  crosses; sightings and reports hop over a changing radio. Correct means: one
  fate per attacker, a line without holes, reports never fresher than they are,
  and none that was deliverable kept back.
- **Membership and camera.** Views differ, nodes die and come back with old
  memories, cameras are switched off and on between two ticks. Correct means:
  the dead are suspected and the living trusted in bounded time, the role
  follows the view, one chain of ticks per camera, one camera when it is calm.
- **Simulated work.** Nodes die with work booked and come back before it would
  have finished; leaders are demoted while they pre-process. Correct means:
  the queue counts exactly the work that will finish, no frame is processed or
  learned twice.
- **Engine.** Two implementations plan the same model; the C++ one adds up what it
  needs before it places it. Correct means: what numpy plans, C++ accepts with the
  same shapes, placement stays within what was added up, no access leaves its
  block, every cell of a product is computed once. (What numpy *runs* is less than
  what it plans, see section 7.)
- **Battery.** Strategies are compared by separate simulations, and recovery is
  read off a log. Correct means: every simulation has what its comparison needs,
  recovery counts what followed the failure, a check passes only if it holds.

`PROJECT.json` lists these as hazards, each at its line, with the properties that
cover it or the reason none does.

## 2. Plan

Order: first what runs unattended on real nodes and robots, then what installs
and trains, then the simulator, then pure algorithms.

| step | modules | status |
|---|---|---|
| 1 | `Worker`, `WorkerProofs` | done |
| 2 | `Guard`, abstract `Lease`, `DeviceProofs` with the refinement | done |
| 3 | `Mesh` (composes sessions, `submit` and the accepted jobs of `Worker`), `MeshProofs` | done |
| 4 | `Installer`, `DiskProofs` | done |
| 5 | `JobManager`, `TrainingProofs` | done |
| 6 | `Swarm`, `Frames`, `SimProofs` | done |
| 7 | `Session`, `SessionProofs` | done |
| 8 | `Library`, `DiskProofs` | done |
| 9 | `Engine`, `Packages`, `Uploads`, `Bench`, `Config`: pure algorithms against reference definitions; `Questions`, which states the properties; `QuestionsProofs`, `DeviceProofs` | done, every property proved |
| 10 | `Training`, `Recon`, `Clash`, `TrainingProofs`; `Fleet`, `DiskProofs` | done |

Every invariant of the runs is stated by a theorem. What a theorem could add is
liveness, which the prover cannot reach, and a refinement between components: `Mesh`
contains the jobs of `Worker` and the sessions of `Session` in the form it needs them,
and nothing but reading relates the two forms.

## 3. Modules and their correspondence to the code

Variables carry the names of the attributes they stand for. An action is what the
code does between two points at which somebody else may act: two awaits on the
event loop, the release and the taking of a lock, two system calls, two events of
the simulator. Payloads, results, names and errors are model values or members of
small sets. Definitions commented `Mutant:` are plausible bugs; each is swapped
in for the definition after it to show that a property notices.

**`Worker`** (`runtime/node.py` 328-407, 421-500). All code runs on one asyncio
loop, so an action lasts from one await to the next. `Accept` is `_accept` with
its four ways out (`Join` a job in `_work`, `Replay` the cache, `Refuse`,
`Enqueue`), after the expired heads of the cache are popped. A future is
represented by the calls that wait for it. `StartJob`, `DropExpiredJob` and
`FinishJob` are the loop of `_worker`; while the plugin runs, everything else may
happen. `Expire` and `Abandon` are `wait_for(shield(...))` running out and the
caller's task being cancelled. `BeginClose`, `CancelWorker`, `EndClose` are
`close` between its awaits. `up` becomes false after a job when `_closing` is set,
because the loop condition is read only there.

**`Guard`** (`robotics/guard.py`). An action is the code between two points where
time can pass with the lock held: while a command's mapping is read
("validating"), in `adapter.apply` and in `adapter.observe`. The lock is
reentrant, so during validation the same thread may call any method, `command` and
`observe` too: `pending` is the stack of the commands it is in, the `Innermost` last,
and `Return` goes back to the one outside it. A command that was overtaken by one inside it
is stopped by the second freshness check of `CommandCommit`. `MaxDepth` bounds the stack. `badClock`
stands for `_now_locked` finding a clock that goes back or is not finite. A stop
that fails leaves `driven` as it was and sets `stopError`.
**`Lease`** is the abstract promise: outputs are driven only under a grant with a
known end that only a command extends, each command newer than all before it
(`newest`), and a grant that runs out ends in a fault.
`Guard` implements it under
`mode <- IF fault \/ closed THEN "faulted" ELSE IF armed THEN "granted" ELSE "safe"`,
`until <- deadline`, `unsure <- stopError`, `newest <- lastSeq`.

**`Mesh`** (`runtime/node.py` 54-112, 281-340, 409-466). `Choose` is `_select` with the
reservation that follows it in the same step (or the local `_accept`);
which candidate finishes first is an estimate and left open. `Request`, `Retry`,
`TimeOut`, `Complete` are the attempt and its `finally`, which gives the place
back on the session *object* of the attempt: `old` says that this object is no
longer the pair's session. `wire` is the connection in order; a session's end is
"up", "closing" (disconnected from outside its read loop) or "down". A break
keeps a prefix of what was written. Time is left out: whoever waits may time out.

**`Session`** (`runtime/node.py` 163-279, 468-484, `protocol.py`). A connection is a
slot with one record per end: "new", "accepted", "hello", "up", "closing", "gone".
`Incoming` and `ServeInbound` are the listener's callback and the task it makes,
`ReceiveHello` the duplicate check and the registration, `Finish` every way out of
`_serve`, `TaskDone` the callback that gives the place back. `Cut` takes a connection
from both ends without their knowing; `LateTimeout` is an end that gives up on a
connection that is alive. `waiter` is a call of `wait_for_peers`.

**`Installer`** (`deploy/installer.py`, `deploy/_common.py`). One action per step of `install`
that reaches the file system: lock, check against the current release, make the
stage, write, freeze and sync, rename, sync `releases/`, write the new pointer,
replace `current.json`, sync the root. Any step may fail (`Fail`, then `CleanUp`);
a process may be killed anywhere; `PowerFails` keeps of everything that was not
synced an arbitrary part. `disk` and `entry` are what is certain to survive. `root` says
whether the root was there before ("given") or `install` makes it (`MakeRoot`): nobody
syncs the directory above, so a power failure may take a root that was "made" as a whole;
one that it leaves is on the disk ("kept"). `lostReports` is a history variable, the
reports that went with such a root.

**`JobManager`** (`studio/jobs.py`, the training routes of `studio/server.py`, `studio/worker.py`).
Each thread has a program counter: the handler that starts a training, the one
that stops or cancels it, `_run`, the main thread in `shutdown`. `status.json` is
written by the handler, the worker and `on_done`, and `file` is what it says.

**`Library`** (`sdk/install.py`, `sdk/packages.py`, the package routes of
`studio/server.py`). One action per operation on the file system. A folder has an
identity besides its name, since `rmtree` goes on removing through the folder it
opened. `Undo` is `rmtree(staging, ignore_errors=True)`: any part of the scratch folder may
stay without anybody being told. `orphans` are the scratch folders that stayed.
`crowded` and `lost` are history variables: names that two requests changed
at once, and names whose replacement failed after removing something.

**`Swarm`** (`sim/membership.py`, `sim/strategies.py` 134-157 and 311-326,
`sim/core.py`). Simulated time in whole units; events of one instant in any
order. `Beat` broadcasts and then looks for overdue peers, `Handle` notes a
heartbeat and readmits, each followed by `_ensure_role` (`TakeRole`). With qos a
heartbeat does not wait for the medium, so it takes `Delay`. `FirstBeat` is the stagger of
the first heartbeats. `changed` and
`lostAt` are history variables for the bounds in the properties.

**`Frames`** (`sim/core.py` 153-212, `sim/channel.py`, `sim/strategies.py`). The
handlers of the local, central and striped strategies. Whom a handler takes for
leader is arbitrary at every event: `Swarm` shows that views may differ, and
`Frames` shows that its properties do not depend on their agreement. Durations are
abstracted: any scheduled event may be next.

**`Engine`** (`brain/model.py`, `formats.py`, `layers.py`; `cpp/src/model.cpp`, `nn.cpp`,
`matmul.cpp`, `cpp/include/swarm/arena.hpp`). Operators only. A model is its input
shape and layers; `EncodeSwm` writes it as a sequence of words and blobs,
`ReadSwm` and `LoadFromMemory` are the two readers, `Place` is the arena, `Touched`
the cells a layer reads and writes, `Tiles` the blocks of the matrix product.
`Planned` is what numpy's planning accepts (`Sequential._plan`), `Runnable` what its `forward` runs as well,
with the checks planning does not make.

**`Packages`** (`sdk/packages.py`, `api.py`, `validate.py`, `export.py`). Operators only. A package
is a record of what its manifest says, what its files are and what its code does;
an operation answers "ok", "refused", "raises" or "crash". Of files that cannot be read there are two kinds: a
"broken" one raises what its readers expect, an "odd" one (an empty or torn `.npz`, a `.swm` with a window of 0) an
exception that none of them catches. A report is the set of its
(level, check) pairs, `InOrder` and `Check` keep the code's order and early ends.

**`Uploads`** (`sdk/install.py`, `_save_trained` of the studio). Operators only. `Slug` works on
sequences of five classes of characters, an archive is a sequence of members, a source
file the list of its classes; `ManifestOf` is the manifest the installer writes, in
the fields of `Packages`, whose `CheckManifest` then decides. `Library` has the file
operations around it.

**`Training`** (`arena/train.py`, `parallel.py`, `es.py`, `brains.py` 523-529, `studio/worker.py`). First operators:
`Schedule`, `Split`, `Play`, `Scores` are a generation from its episodes to `es.tell`.
Then the run: `LearnClash` and `LearnRecon` step the weights, `OpenFile` and
`WriteFile` are `NeuralBrain.save`, which truncates first; `AddRow` keeps a row in
memory until it is flushed; `AskStop`, `PoolBreaks` and `Kill` end a run anywhere.
Weights are the number of steps that made them.

**`Fleet`** (`deploy/identities.py`, `bundle.py`, `setup.py`). Directories are written in two
steps (`InitDevice`/`WriteIdentity` and so on), between which `LosePower` may come.
`whole` and `read` say whether the file at hand is complete and whose it is: an
operator may mix up drives. Signatures and encryption are perfect. Then operators:
`Collected`, `Packed`, `StoredZip`, `Unpacks` are an archive's way there and back; the
run asks about them within `PackagesWork`, while `FleetKept` is about the directories.

**`Clash`**, **`Recon`** (`arena/clash.py`, `arena/recon.py`). One episode of a batch, one action per
decision and one per physics step. Who sees, hears, hits or crosses is arbitrary
(`\E`); what follows from it is the code's. An episode that is done goes on being
stepped while others of its batch last. `reports` in `Clash` is a history variable.

**`Bench`** (`bench/scenario.py`, `bench/runner.py`). Operators only: a scenario becomes simulations,
an event log becomes recovery times, measurements become verdicts.

**`Config`** (`runtime/config.py`, `protocol.py`, `handlers.py`, `robotics/profile.py`). Operators only: what is
accepted, and what is made of it later.

**`Questions`** brings the operators together. Its one variable `input` is a question: a record whose
`kind` says which part is asked, with what. `Asked` describes the questions: what a network, a profile, an upload,
a folder, a generation is, in the forms the code's own types allow (a layer has what its type has, a
folder has no file inside a file, a brain learns or is built in whichever side it is on). The five properties
say that the answer is right. The run `tools` asks finitely many questions, the theorems are about all that `Asked` describes.

`MC*` modules give the constants values. `MCDisk` (`Installer`, `Library`), `MCSim`
(`Swarm`, `Frames`) and `MCTools` (all operators, `Training`, `Fleet`, `Clash`, `Recon`)
each check several parts that share no state: `part` says which one runs, the
others stay in one initial state. They EXTEND the parts, whose names are
therefore disjoint: `LibraryInit`, `FramesNext` and so on. `*Proofs` modules hold the theorems:
`SimProofs` those of `Swarm` and `Frames`; `DiskProofs` those of `Installer`, `Library` and `Fleet`'s directories;
`QuestionsProofs` those of `Bench`, `Packages`, `Uploads` and `Fleet`'s archives; `TrainingProofs` those of `JobManager`, `Training`,
`Recon` and `Clash`; `DeviceProofs` those of `Guard`, `Config` and `Engine`; the others those of the module they are
named after. `TrainingProofs` and `DeviceProofs` extend `QuestionsProofs` for its lemmas.

## 4. Runs

| run | instance | what it shows |
|---|---|---|
| `worker` | 3 calls, 3 keys, 2 inputs, queue 2, cache 2, clock to 2, a plugin that may hang | `WorkAccounted` `_work` is the queue and the running job; `NoLostWaiter`; `OwnResult`; `NoRerun`; `CacheKeepsTime`; `EveryCallEnds`, with `close` too; `CapacityReturns` if the plugin returns |
| `guard` | 2 threads, watchdog 2, sequence numbers to 2, commands inside each other to depth 2, clock to 5 | `DrivenOnlyArmed`; `WatchdogStops`; `KeepsPromise` (refinement of `Lease`) |
| `mesh_retry` | 1 job, 3 nodes, 2 retries, 2 sessions | `AttemptsExact` reservations count the open attempts, no node runs a job twice; `AnswerFromTarget` |
| `mesh_load` | 2 jobs for one place at each of 2 nodes | `RequestAccounted` |
| `mesh_calm` | 2 nodes submit to each other, no failures | `EverySubmitAnswered` without any timeout |
| `session` | 2 nodes, a third that is switched off, a stranger, 2 connections, 2 faults | `ConnectionsAccounted` tables and places; `NoMissedPeer`; `PairsReconnect` |
| `disk` | 3 installs of one root (two upgrades of a device, one of another) that is given or has to be made, a power failure; 2 requests to the library, 3 uploads, 1 fault | `PointerUsable`; `ReportedKept`; `VersionsIncrease`; `FoldersWhole`; `ReplaceKeepsOne` |
| `jobs` | 2 trainings, 1 slot, shutdown | `JobsAccounted` slots are exact, a job finishes once; `NoLateStart`; `EveryJobEnds` |
| `sim` | 3 nodes, 2 kills or revivals, 1 lost heartbeat, 14 units; 2 nodes, 3 frames, every strategy, 1 death per node | `RoleFollowsView`; `OneTickChain`; `DetectorAccurate` the dead suspected, the living trusted in time; `OneCamera`; `QueueExact`; `FramesKept` a frame is carried, processed and learned once at most |
| `tools` | see below | `EnginesExact`, `PackagesWork`, `ProcessesInvisible`, `TrainingKept`, `FleetKept`, `EngagementsExact`, `ReportsExact`, `BatteryFair`, `ConfigSound` |
| `jobs_cancel`, `jobs_delete` | 2 trainings, 1 slot | counterexamples, see section 7 |

Why the bounds are enough:

- *Worker.* Three calls are what it takes to have one job run, a second queued
  and a third meet a full queue, or to fill a cache of two and evict from it. The
  clock reaches past a lifetime (1) and past an entry's expiry (1). Calls, keys and
  inputs are interchangeable; `MCWorker` numbers them in the order of their first
  use, which, unlike a symmetry set, is sound for the liveness properties too.
- *Guard.* One thread can hold the lock in a callback while another is in `close`
  or waits; the watchdog is a third. Five units leave room for a lease of two to
  expire, be replaced and expire again. A command inside a command, with two sequence
  numbers, is what it takes to overtake the outer one between its two checks.
- *Mesh.* Two sessions let one break and its successor meet what is left of the
  first; three nodes give a retry somewhere to go besides home. Competition for a
  place needs two jobs, and is a run of its own.
- *Session.* Two connections are an old one that lingers and the one that replaces
  it, or that one and a stranger's; the absent node makes two places, so that the second
  gets as far as the duplicate check. A listener that is full would take a third connection: with three
  the run does not end in the time given to it, and with one place a duplicate is never looked at. So
  `ConnectionsAreAccounted` covers a full listener, for any number of connections, and `PairsReconnect` does not.
- *Disk.* Of three installs two can overlap while the third follows or has
  already been reported, and one is for a device the root may not be changed to. One power
  failure is enough to lose a new root; what follows it starts from a root that is kept or absent again.
  The uploads of the library share a name: a policy, another type, a malformed one.
- *Jobs.* With one slot the second job waits in the queue, which is where stop,
  cancel and shutdown differ.
- *Sim.* The longest chain, a death whose last heartbeat is under way, the
  silence, the next beat that looks, and the settled camera, takes
  `Delay + Timeout + Interval` = 7 units; 14 leave as many before it. A queue of two
  overflows with three frames; a death and a revival with work booked need one death.
- *Tools.* Networks of one or two layers of every kind, and of four, on five images,
  with limits some of them exceed; products up to 5x5x5 over tiles of 2x3x2;
  packages with any two of forty flaws; names of up to five characters cut at four,
  archives of up to five members and folders of up to five files where four are
  allowed, files of two classes; nine episodes over six processes;
  training runs of three generations of each mode with two skills; two device names
  and authorities, two identities, two bundles; folders of three files out of twelve;
  two attackers against two interceptors, and one against three (three hops of
  relay), for three steps; three drones, two targets; logs of three events; two
  peers and two motors; handlers with fewer, as many and more outputs than allowed.

All questions of the run `tools` are questions `Asked` describes. TLC confirmed it with `Asked` as an
invariant of that run; it is not in the cfg, since it says nothing about the code.

Deadlock is not checked: calls, frames, faults and time are bounded, so every
model ends. Symmetry is used in runs without liveness only, over values the
specification treats alike (`MCMesh`, `MCDisk`, `MCTools`).

## 5. Fairness

- `Worker`: the loop runs its ready steps, the clock moves, a wait that has run
  out is ended, and a started `close` proceeds. Not assumed: that the plugin
  returns (it runs in a thread nobody can stop), or that `close` is called.
  `CapacityReturns` alone assumes `PromptPlugin`, the contract of the handler.
- `Guard`: callbacks return (the adapter contract demands bounded callbacks), the
  watchdog thread is scheduled, and a thread in `close` gets the lock in the end
  (strong fairness: the lock is taken and released meanwhile). Nothing is assumed
  of the application.
- `Mesh`: only `mesh_calm` has fairness: messages that are there are read,
  a plugin returns, `submit` proceeds. Heartbeats and connections are not fair.
- `Session`: handlers that are ready run, timers fire, a dialer that sleeps wakes up,
  and an operator restarts a node that stopped (`Start`). Faults are not fair, and
  bounded: `PairsReconnect` is about what follows the last one.
- `JobManager`: threads of the studio are scheduled, and `_run`'s timer kills a
  worker that takes too long. A worker may run for ever otherwise.
- All other modules claim safety only; the bounds on time in `Swarm`
  are safety properties of its explicit clock, which cannot pass a scheduled event.

## 6. Proofs

All theorems are about the modules TLC runs, with no bound on the constants
beyond the assumptions stated in the modules (`...Assumption`): positive limits,
model values that are not members of the sets they are told from, finitely many
nodes, jobs and slots where places are counted, and in `Swarm` a positive interval,
a delay below it, and first heartbeats that arrive within the timeout. `ASSUME`s are
evaluated by TLC on every run. A theorem that names a property of section 4 names the
definition the run checks. Theorems about operators assume `Asked`, or the part of it they are about.

Each invariant of a part with steps is inductive: it is shown for the initial states, kept by each action
in a lemma of its own, and implies the properties. The invariants were checked by TLC on the
instances of section 4 before they were proved.

**`WorkerProofs`.** Invariant: types; an ended worker runs nothing
(`WorkerDown`); `WorkAccounted`; the accepted jobs are finitely many and within
the limit; `NoLostWaiter` and `OwnResult`; no cached key is accepted
(`CachedIsDone`); the cache is in the order of its expiry (`CacheOrder`). `NoLostWaiter` needs
`WorkAccounted`, since `Forget` must meet exactly the job whose waiters were settled. `NoRerun` needs
`CachedIsDone`: a key becomes accepted only when it is not cached, and cached only when it leaves
`_work`. `CacheKeepsTime` needs `CacheOrder`: the code pops expired heads only, which finds every
expired entry because all have the same time to live and are appended. Theorems: `TypeCorrect`,
`WorkIsBounded` (`put_nowait` cannot raise), `WaitersKept`, `ResultsAreOwn`, `RemembersJobs`, `CacheIsTimely`.

**`DeviceProofs`, the guard.** Every step is shown to have one of four shapes (granting,
driving, stopping, passing); the theorems are proved from the shapes, so no
method has to be looked at twice. The invariant adds to the types that a stop is
needed exactly while armed, an armed guard is healthy, a disarmed one has no
deadline, and every command on the stack ends within the watchdog (`CallsExact`). Without the first a
soft stop could be skipped while outputs are driven. `CommandsAreFresh` rests on the second check of a
commit alone: the first was made before the commands inside it moved `lastSeq`. Theorems: `TypeCorrect`,
`NeverDrivenDisarmed`, `FaultsAreFinal`, `CommandsAreFresh`, and
`GuardImplementsLease`, the refinement, step by step.

**`MeshProofs`.** Invariant: what is on the wire (`WireExact`: a job is on its way once, to a
node it is tried on and that does not have it yet; a result comes from a node that ran the job);
a node has or ran only jobs that were tried on it, each once (`WorkExact`); what the stage of a
submission says of its attempt (`AttemptExact`); reservations, also of pairs without a session
(`PlacesExact`); `RequestAccounted`. That a job runs once on a node rests on `tried` only
growing and on the wire never doubling a message, so both are parts. The wire's lemmas (`Kept...`) say
what appending, taking and breaking do to a sequence of messages. Theorems:
`AttemptsAreExact`, `AnswersAreTheTargets`, `RequestsAreAccounted`.

**`SessionProofs`.** Invariant: types; which phases an end may be in (`EndsExact`); an end in its
handshake is in `_sessions_starting`, an end with a session in `_sessions` (`TablesHold`), and back
(`TablesBack`); a node shakes hands with a peer on one connection (`HelloOnce`); places of the listener
(`PlacesExact`); `NoMissedPeer`. Without `HelloOnce` a handshake that ends
would discard the entry of another one from `_sessions_starting`. Ways in and out of a phase
(`EnterHello`, `EnterUp`, `LeaveEnd`) are lemmas the actions share. Theorems: `ConnectionsAreAccounted`, `WaitersAreWoken`.

**`DiskProofs`, the installer.** Invariant: whatever is named by the pointer, the disk's
pointer or `launch` is complete and synced (`Safe`); the holder of the lock has
achieved what its program counter says, and its version still exceeds the
pointer's (`Progress`); the disk's pointer is no newer than the visible one and
no older than any report that is not lost. `ReportsAreKept` says that a report is lost with the whole of a root
that an install made and in no other way, so never if the root was there before. Theorems: `TypeCorrect`, `PointerStaysUsable`,
`ReportsAreKept`, `VersionsOnlyIncrease`.

**`DiskProofs`, the library.** Invariant: a scratch folder belongs to a request that installs, has
files of its upload only, and loads before anything is removed for it (`Scratch`); a request that is
the only one to change its name finds there what it left (`Solo`); two that change the same name at
once are a crowd (`Crowds`); a folder has the files of one upload (`Whole`). `Solo` needs the identity of the
opened folder: without a crowd, what `rmtree` unlinks from is what is in the library. Scratch folders
that stay are at most as many as crashes and refused removals (`OneOrphan`).
Theorems: `FoldersStayWhole`, `ReplacementsKeepOne`.

**`DiskProofs`, the fleet.** Nothing that was made is changed, but for what is still being
written of it (`MadeStays`): directories keep their node id, enrolments and credentials their certificate,
and a bundle that is whole stays as it is. So what `enroll`, `accept` and `verify` compared stays true of
the files they compared. Invariant: types; an enrolment is of a directory that exists, with its node id,
approved, within the authority's life and its own (`FolderApproved`); a credential's key is that of
its directory and was approved under the authority it pins (`CredentialApproved`); a bundle that was
verified is whole, for that recipient and of that signer (`BundleOpened`). Theorem: `FleetStaysSafe`, for any
numbers of devices, authorities and drives and any clock.

**`TrainingProofs`, the jobs.** Invariant: `SlotsExact`; a job waits in the queue once and is then nobody's
(`QueueOnce`); where its thread (`ThreadExact`) and its callers (`CallerExact`) are says what its state and process
are; who has told `on_done` (`ToldExact`). `CallerExact` separates the two ways to finish a job, by
its thread and by the caller that took it off the queue, which is why it happens once. `PumpQueue` says
what the loop of `_pump` takes, for any queue. Theorems: `JobsAreAccounted`, `CancelledStays`.

**`TrainingProofs`, the run of a training.** Invariant: types; steps, rows and generations count
alike (`Counted`); `best` is the last generation with the highest skill (`BestIsHighest`); what is
still to be written is right and written once, everything else is on disk but for the file being
written (`Saved`); the hall of fame is the latest snapshots in order and a sample of the older
(`Famous`). `Saved` is what a run killed between two writes leaves. `FameIsExact` derives the sizes and the
membership the property states from `FameOf`. Theorem: `TrainingIsKept`.

**`TrainingProofs`, the survey.** The chain of the lead is a recursive function on the number of hops.
`Hops` shows the function equals its explicit definition, by walks of drones as a witness; that the chain is
the least closed set follows from the principle of the least number (`Least`, from the
well-foundedness of finite subsets), as no theorem on induction can be cited. The
invariant of the survey itself: nothing is dated after the present or the end, or before it was found
(`Dated`), and `NoReportKept`. Theorems: `ChainsAreExact`, `SurveysAreExact`, `ReportsAreExact`.

**`TrainingProofs`, the engagement.** Invariant: types; an attacker that flies has no time of its end, and
one that does not ended after it was first seen (`Fates`); stations are the places among the interceptors with
shots left, no interceptor has fired more shots than attackers were hit, and no more were hit than shots
were fired (`LineExact`); a table holds, decision by decision, the age of the freshest report that reached it
(`SightingsExact`). Shots are counted by what they hit (`ShotsCount`): an interceptor's next shot finds another
attacker, since the hit one no longer flies, while two interceptors may spend a shot on the same one. Theorem: `EngagementsAreExact`, for any rules and any flight.

**`SimProofs`, membership and camera.** Invariant: shapes; no tick is of an epoch its camera has not
reached (so the epoch `start_camera` takes is fresh and a stale tick cannot join
the new chain); a camera that is on has one current tick; `RoleFollowsView`. In simulated time
it adds (`TInv`) when beats and messages are due (`Timing`, `Phase`), that the dead fall silent
(`Silence`), that at its last beat a node had heard everybody it trusts in time (`Watch`), that a suspect has
been silent for the timeout (`Doubt`), and that the last two heartbeats of a live node are on their way or were heard
(`Heard`): two, since the last one may still be on its way when a node looks. `OneCamera` then follows, as
settled views are the live nodes and these have one best (`BestExists`). Theorems: `RoleAlwaysFollows`,
`ChainAlwaysOne`, `DetectorIsAccurate`, `OneCameraIsOn`, for any number of nodes, priorities, timing and faults.

**`SimProofs`, frames.** Invariant: types; `QueueExact`; no job is of an epoch its node has not reached; where
each frame is (`FrameOk`): in one job or message, rejected, or processed, and its result on its way or learned once.
`FrameOk` speaks of jobs of the node's present life only, which is why `QueueExact` and the bound on epochs
come first. Theorems: `QueuesAreExact`, `FramesAreOnce`.

**`QuestionsProofs`: induction without a theorem of induction.** The operators are recursive functions and folds over
sequences of layers, files and episodes, and no theorem with an operator as parameter can be cited. What takes
their place is the principle of the least number (`Least`, from the well-foundedness of finite subsets) in the form
`FromOneToNext`: a set of numbers that has 0 and with each number the next has all of them. `Recursion` shows that a
function defined by recursion exists. `BlocksJoined` says where each element of each part is in `FlattenSeq`, `Selected` where the
kept elements of a sequence are. A fold of the library is `CHOOSE` of a function on sets of indices: `FoldExists` exhibits
one, so that the choice is not of nothing, and `FoldAlong` walks along it: the fold over `1..k + 1` is one step from that over `1..k`.
With these a theorem about a fold exhibits its intermediate values as a sequence of states and goes along it.

**`QuestionsProofs`, the battery.** `StrategiesAreCompared`: the simulations are one or two blocks per strategy, in the order of the
names, and the baseline comes first (`OneAfterTheOther`, `BaselineFirst`). `RecoveriesAreExact`: `DelayIsFirst` says a delay leads to the
first of what it waits for, `DelayPasses` that it is not negative; a walk back along the log finds who led last when the first
node was killed, and without a failure there is nothing to measure. `ChecksAreHonest`: a
check that passed compared a number, and no way to get one leads through a strategy that was not simulated or a
baseline of zero. Together: `BatteriesAreFair`.

**`QuestionsProofs`, packages.** `ManifestsAreEnough` is by cases on the type a manifest may have: an accepted package is listed
without an exception exactly unless its model file is odd (section 7). A report is a list of checks of which
the first failing one may end it; `NoFailIsHolding` says that a report without a fail is one in which every check held that can
fail it, and `ValidateListed` and `ExportListed` that the lists `validate` and `export` join are such lists. From there
`ValidPackagesWork` and `ExportsKeepTheirWord` are about single checks.

**`QuestionsProofs`, names and uploads.** A settled name begins with a letter, ends without `_`, has no two in a row and is short
enough. What `slug` makes is settled, also where it is cut (`CutSettles`), and a settled name stays as it is (`SlugStays`):
`NamesSettle`. `UploadsAreAccepted` follows each kind of file to the manifest written for it. The attempt at it
found `UploadAccepted` false as it was stated: of a tactic whose strategy has one letter the manifest is refused, since the
rule for names asks for two. The property is now about files for which a proper name can be derived, and TLC's instance has such an upload.

**`QuestionsProofs`, archives and bundles.** What `pack` writes has no junk, is therefore kept whole (`KeptWhole`), and lies either at
the root or in one folder that is stripped (`FolderStripped`), as does the archive of a desktop with its folders and
companions (`DesktopArranged`): `FoldersComeBack`. The entries of a bundle end where the next begin (`EntryEnds`), so that an
archive that is missing one, doubles one, swaps two or differs in a byte is refused by the position at which it does so
(`DisorderedRefused`): `ArchivesAreExact`. `PreparedPacksUp`: the paths of the parts differ by their first
folder or are compared by `prepare`. `LabelsFitOutputs`: after its last dense layer a network keeps one pixel with as many channels
as that layer has outputs (`DenseOutputs`). Together: `PackagesAreUsable`.

**`TrainingProofs`, the generations.** A split is a row of increasing bounds whose gaps differ by one at most
(`SharesAreEven`, about rounding, and `SplitIsChunked`). A chunk gives each of its episodes its own situation and weights, because
a brain learns in all of its entries or in none (`MixedIsItself`), and chunks are joined in their order (`PlayedInPlace`):
`SharingChangesNothing`. `VariantsAreScored` follows each episode of `Schedule` to the place it is scored at. Together: `ProcessesAreInvisible`.

**`DeviceProofs`, the configuration.** `PeersAreNamed` rests on the two comparisons of an accepted
configuration: as all names differ, the own one included, and all pins, a certificate and a
name determine the same entry. `DrivenAsAsked`: channels are compared by what they read as, so as many are driven as
there are motors (`AllDifferent`), and what is checked first is returned as it was. `AnswersAreOwned`: of finitely many
scores one is the highest (`Smallest`), and the first of these is a class. They hold for any lists, numbers and names.

**`DeviceProofs`, the matrix product.** `MultiplesApart` (two multiples of a number are that number apart) and
`Below` (the multiple below a number) are all the division there is: `RowsTiled` and `NumbersTiled` find the one
range that has a row, a column or a depth, and `TilesAreExact` puts the three together, for any matrices and tile sizes.

**`DeviceProofs`, the engine.** It starts from what the writer wrote: `ImageWritten` says where each layer is in the image, and
`LayerReadBack` that the numbers and blobs there read as that layer, so `ReadBack` gives numpy what was saved. The C++ parser's states are a
sequence (`Parsing`); its invariant `Parsed` says of the state after `k` layers what has been planned, counted and added up, and is
kept by one more layer (`OneMoreParsed`). Where numpy plans a network both plan the same shapes (`SamePlan`, layer by
layer: their ways of rounding differ only where numpy refuses to plan), so the engine refuses it for its limits alone (`RefusedForLimits`) and
agrees on shapes, costs and bytes (`ParsedAgrees`): `EnginesAlwaysAgree`. For the memory, `PlacedWithin` says that blocks placed one
after the other, each aligned, end within the sum of their aligned sizes and never overlap; what the parser added up is that sum
(`BlocksAdded`), for weights, buffers and scratch, and the exporter's estimate is no more (`EstimateIsLess`): `PlacementAlwaysFits`. A
layer's last access is inside what it reads and writes (`TouchedFits`, `PoolInside`), and its two buffers are never the same
(`BuffersDiffer`). Where numpy's forward runs too, windows divide (`PoolsDivide`), and a layer reads what
it is given to the last element (`PoolFills`, `TouchesAll`): `RunsStayInside`. Together with the tiles: `EnginesAreExact`, for any network, caps, matrices and limits.

Only model-checked: the liveness properties (`EveryCallEnds`, `CapacityReturns`,
`WatchdogStops`, `EverySubmitAnswered`, `PairsReconnect`, `EveryJobEnds`), which are out of the prover's
reach, and the two disagreements that section 7 gives a run. All other properties of the runs are stated by a theorem.

## 7. Where the code and its docs disagree

- `jobs_cancel`: `python/swarm/studio/jobs.py:6` says that "`cancel` kills it".
  `cancel` kills `job._proc` if it is set. Between `_pump`'s removal of the job
  from the queue and `Popen`'s return it is not, and `_run` does not look at
  `_cancel` again: the worker starts and runs to its end.
- `jobs_delete`: `python/swarm/studio/server.py:368` says "stop the training before
  deleting it". `_start_training` writes `"queued"` after `submit` has
  returned. If the job is over by then (a worker that cannot start), that write
  replaces the final state, and the training can be neither stopped nor deleted.

The following have no run of their own. The properties say what the code does instead, and
name the case.

- *Membership.* `sim/membership.py:54` says that a revived node trusts "nobody until heard
  from"; the code clears `suspected` and takes every peer as heard now, so it trusts
  all of them, as `docs/ARCHITECTURE.md:52` says and `LiveAreTrusted` needs.
  `sim/membership.py:12` and the same line of `ARCHITECTURE.md` let all views converge "within one
  heartbeat timeout of a failure". The last heartbeat may still be on its way, and a
  peer is looked at once an interval only: `DeadAreSuspected` and `OneCamera` wait for
  `Delay + Timeout + Interval`, and do not hold with `Timeout` alone.
- *Engines.* `brain/layers.py:3` calls every numpy layer an "exact counterpart" of the C++
  one, `ARCHITECTURE.md:39` a mirror "1:1". `MaxPool2D.forward` (`layers.py:247`) refuses windows that do
  not divide their input and `Dense.forward` (104) a tensor that was not flattened, while
  planning, export and C++ take both: such a network saves, loads and runs in C++,
  and numpy raises. `EnginesExact` is about networks numpy plans (`Planned`), and says of those it also
  runs (`Runnable`) that no part of an input is left unread.
- *Listings.* `sdk/packages.py:263` (`policy_info`) turns `OSError`, `ValueError`, `KeyError` and
  `TypeError` of a model file into an entry of what is listed, 223 (`summary`) only the first three. An empty `.npz` raises
  `EOFError`, one cut short `BadZipFile`, a `.swm` with a window of 0 `ZeroDivisionError`. One such policy fails
  the whole list of brains (`arena/brains.py:729`); of a `.swm` only `validate` asks, and it catches everything. `make_policy` (273-289) turns `BrainError` into `PackageError`, and what
  `NeuralBrain.load` (`arena/brains.py:537`) raises for such a file reaches its caller as it is.
  `AcceptedIsEnough` says that these files and nothing else make `summary` of an accepted package raise.
- *Installer.* `deploy/installer.py:221` makes a root that is missing, and nothing syncs the directory
  it is made in: a power failure after the first `install` has returned may take the root and
  all that was reported in it. `ReportedKept` says that nothing else takes a report.

## 8. Observations

Met while modelling; limits of what the properties promise.

- *Session.* The two ends of a pair may sit on different connections for a moment.
  HELLO compares version and workload but not `max_payload`: peers with different
  limits close their session when a packet exceeds the smaller one.
- *Engine.* `conv_out_dim` truncates toward zero, numpy floors: a kernel larger than
  the padded input by less than the stride is accepted by C++ with one output, and
  refused by numpy. The estimate of `check_ram` has no scratch although its comment
  names it, and the exporter's cap may be below what the engine requires.
- *Packages.* `docs/SDK.md` asks for deterministic policies, the validator only warns.
  `install_source` makes a slug of a tactic's `strategy`, so that class and manifest
  may differ and `register` refuses. An exported python brain
  overwrites a package's own `_device.py`. `strategies.py` 375 says "edit -> reload", but
  a module is imported once per path.
- *Library.* A crash leaves its scratch folder listed as a package, and so does a removal that
  is refused: the `except` clauses of `sdk/install.py` (125, 155, 228, 262, 290) ignore its errors and
  report the first failure only.
- *Uploads.* `pack` applies none of the limits of `install_archive`: a folder with too many
  files, a name that is not portable or a file that compresses very well packs, and is
  refused when it comes back. `install_swm` labels a network by its last dense layer,
  which a convolution after it makes wrong; validation then fails the package.
- *Studio.* Old trainings are pruned even while they run; a crash in the middle of
  `delete_run` leaves one that cannot be deleted.
- *Simulator.* A node that has not been heard yet counts as heard at time 0, and the
  first heartbeats are spread over one interval: with `missed_beats` of 1 and a delay the
  last nodes are suspected at start-up although nothing failed. `DelayAssumption` of
  `Swarm` leaves that out; the default of 3 is not affected.
- *Training.* `save` truncates the file it rewrites, so a run aborted in it loses that
  brain; a dead worker process loses up to two seconds of history rows.
- *Fleet.* `prepare` does not apply the rule about names that differ only in case;
  `pack` then refuses. `pack` never compares the node id typed by the operator with the
  recipient's request. What an interrupted write leaves must be replaced under a
  new name.
- *Arena.* The survey's chain follows who hears the lead, while reports travel the
  other way. A finished engagement may still record first sightings.
- *Profile.* An inverted motor with limits that exclude the inverse of every value is
  accepted, though nothing can be mapped to it.
- *Battery.* A node that was already (falsely) suspected when it is killed emits no
  new suspicion: its detection time is infinite. Killing "leader" may name a node
  that is already dead, which does nothing.

## 9. Not modelled

- Numerical code: features and networks over floats, kernels, flight, image
  training, the step of `es.tell`. What depends on it is an arbitrary choice in the
  models.
- Cryptography: TLS, signatures, encryption are perfect in the models.
- Robot adapters (drivers of GPIO and PWM libraries, seen by `Guard` as callbacks that
  take time and may fail); device profiles and timing measurements; native bindings
  (one call of the engine per call).
- Rendering, command lines, templates, build scripts, examples: no state of their own.
- In modelled parts: sizes, airtime and estimates of duration (any order is
  allowed instead), the wording of errors, and logging; back-off and the split of
  a deadline over retries; recorded matches and statistics of the arena; claims and
  ETA of the clash's guards; the studio's read-only routes.
