------------------------------- MODULE Frames ------------------------------
(***************************************************************************)
(* The way of a frame through the simulated swarm: the work queue of a     *)
(* node (sim/core.py), the shared channel (sim/channel.py) and the         *)
(* handlers of the local, central and striped strategies                   *)
(* (sim/strategies.py), while nodes die and come back.                     *)
(*                                                                         *)
(* Whom a handler takes for the leader, and which member the rotation of   *)
(* the stripe is at, come from the node's own membership view.  Views may  *)
(* differ and change between any two events (module Swarm), so each        *)
(* handler here reads an arbitrary leader.  Durations are abstracted: of   *)
(* the scheduled events any may be the next.                               *)
(***************************************************************************)
EXTENDS Integers, FiniteSets

CONSTANTS
  Members, Frames,
  QueueLimit,  \* queue_limit of every node
  MaxKills     \* bound of a node's deaths

\* A queue_limit below 0 would reject all work, as 0 does.
ASSUME FramesAssumption == QueueLimit \in Nat /\ MaxKills \in Nat

\* SwarmConfig.strategy, and preprocess where it is central.
Modes == {"local", "none", "downscale", "features", "striped"}
\* The class is not 0 with enough confidence, not 0 without it, or 0.
Verdicts == {"useful", "unsure", "empty"}

VARIABLES
  mode,
  up,
  epoch,      \* _epoch: bumped by kill
  queued,     \* _queued
  jobs,       \* scheduled _finish events: their node, epoch, frame and callback
  onAir,      \* scheduled _deliver events
  captured,   \* frames that a camera has taken
  rejected,   \* frames whose work was rejected by a full queue
  processed,  \* how often _brain_done has run on a frame
  learned     \* how often leader_learns has run on a frame

node == <<up, epoch, queued, jobs>>
metrics == <<captured, rejected, processed, learned>>
frameVars == <<mode, node, onAir, metrics>>

FramesInit ==
  /\ mode \in Modes
  /\ up = Members
  /\ epoch = [n \in Members |-> 0]
  /\ queued = [n \in Members |-> 0]
  /\ jobs = {} /\ onAir = {}
  /\ captured = {} /\ rejected = {}
  /\ processed = [f \in Frames |-> 0]
  /\ learned = [f \in Frames |-> 0]

-----------------------------------------------------------------------------
\* try_compute on a node with `waiting` jobs: book a callback, or reject.
Compute(n, f, then, waiting, others) ==
  IF waiting < QueueLimit
  THEN /\ queued' = [queued EXCEPT ![n] = waiting + 1]
       /\ jobs' = others \cup {[node |-> n, epoch |-> epoch[n], frame |-> f, then |-> then]}
       /\ UNCHANGED rejected
  ELSE /\ queued' = [queued EXCEPT ![n] = waiting]
       /\ jobs' = others
       /\ rejected' = rejected \cup {f}

\* A message that is transmitted arrives later, or never.
Send(to, kind, f, rest) ==
  \/ onAir' = rest \cup {[to |-> to, kind |-> kind, frame |-> f]}
  \/ onAir' = rest

\* What a strategy books for a fresh frame: its pre-processing, or the brain.
FirstStep ==
  IF mode = "striped" THEN "dispatch"
  ELSE IF mode \in {"downscale", "features"} THEN "ship" ELSE "brain"

\* on_capture: book the first step, or send the raw frame to the leader.
Capture(n, f, leader) ==
  /\ n \in up /\ f \notin captured
  /\ mode = "striped" => leader = n
  /\ captured' = captured \cup {f}
  /\ \/ /\ mode # "none" \/ leader = n
        /\ Compute(n, f, FirstStep, queued[n], jobs)
        /\ UNCHANGED onAir
     \/ /\ mode = "none" /\ leader # n
        /\ Send(leader, "frame", f, onAir)
        /\ UNCHANGED <<queued, jobs, rejected>>
  /\ UNCHANGED <<mode, up, epoch, processed, learned>>

-----------------------------------------------------------------------------
\* _finish of work that was booked before the node died: nothing.
FinishStale(job) ==
  /\ job \in jobs /\ job.epoch # epoch[job.node]
  /\ jobs' = jobs \ {job}
  /\ UNCHANGED <<mode, up, epoch, queued, onAir, metrics>>

\* Mutant: a node that is alive again finishes what it had booked before.
FinishingRevived(job, then) == job \in jobs /\ job.node \in up /\ job.then = then

Finishing(job, then) == job \in jobs /\ job.epoch = epoch[job.node] /\ job.then = then

\* The frame goes to the brain of the same node.
Keep(job) ==
  /\ Compute(job.node, job.frame, "brain", queued[job.node] - 1, jobs \ {job})
  /\ UNCHANGED onAir

\* The job is over.
Release(job) ==
  /\ queued' = [queued EXCEPT ![job.node] = @ - 1]
  /\ jobs' = jobs \ {job}
  /\ UNCHANGED rejected

\* _ship after pre-processing: to the leader, which may be the node itself.
Ship(job, leader) ==
  /\ Finishing(job, "ship")
  /\ IF leader = job.node THEN Keep(job)
     ELSE Release(job) /\ Send(leader, "frame", job.frame, onAir)
  /\ UNCHANGED <<mode, up, epoch, captured, processed, learned>>

\* Mutant: a frame that the leader keeps for itself is sent to a member, too.
DispatchBoth(job, leader, member) ==
  /\ Finishing(job, "dispatch")
  /\ IF leader # job.node THEN Release(job) /\ UNCHANGED onAir
     ELSE /\ Compute(job.node, job.frame, "brain", queued[job.node] - 1, jobs \ {job})
          /\ Send(member, "frame", job.frame, onAir)
  /\ UNCHANGED <<mode, up, epoch, captured, processed, learned>>

\* _dispatch: dropped by a node that has been demoted meanwhile, otherwise
\* the turn of a member of the rotation.
Dispatch(job, leader, member) ==
  /\ Finishing(job, "dispatch")
  /\ IF leader # job.node THEN Release(job) /\ UNCHANGED onAir
     ELSE IF member = job.node THEN Keep(job)
     ELSE Release(job) /\ Send(member, "frame", job.frame, onAir)
  /\ UNCHANGED <<mode, up, epoch, captured, processed, learned>>

Learn(f) == learned' = [learned EXCEPT ![f] = @ + 1]

\* Mutant: a leader that reports to itself sends the result, too.
ReportTwice(n, f, leader) ==
  /\ IF leader = n THEN Learn(f) ELSE UNCHANGED learned
  /\ Send(leader, "result", f, onAir)

\* report_to_leader.
Report(n, f, leader) ==
  \/ leader = n /\ Learn(f) /\ UNCHANGED onAir
  \/ leader # n /\ Send(leader, "result", f, onAir) /\ UNCHANGED learned

\* _done and _worker_done: a useful result is reported; of the others only the
\* leader's own are learned.  A node that found nothing stays silent.
WorkerDone(n, f, verdict, leader) ==
  \/ verdict = "useful" /\ Report(n, f, leader)
  \/ verdict # "useful" /\ leader = n /\ Learn(f) /\ UNCHANGED onAir
  \/ verdict # "useful" /\ leader # n /\ UNCHANGED <<learned, onAir>>

\* _decided: whoever processes the frame of a central swarm acts for the leader.
Decided(f) == Learn(f) /\ UNCHANGED onAir

BrainDone(job, verdict, leader) ==
  /\ Finishing(job, "brain")
  /\ Release(job)
  /\ processed' = [processed EXCEPT ![job.frame] = @ + 1]
  /\ IF mode \in {"local", "striped"} THEN WorkerDone(job.node, job.frame, verdict, leader)
     ELSE Decided(job.frame)
  /\ UNCHANGED <<mode, up, epoch, captured>>

\* _deliver: nobody at home, on_frame or on_features, or on_result.
Deliver(m) ==
  /\ m \in onAir
  /\ onAir' = onAir \ {m}
  /\ IF m.to \in up /\ m.kind = "frame"
     THEN Compute(m.to, m.frame, "brain", queued[m.to], jobs)
     ELSE UNCHANGED <<queued, jobs, rejected>>
  /\ IF m.to \in up /\ m.kind = "result" THEN Learn(m.frame) ELSE UNCHANGED learned
  /\ UNCHANGED <<mode, up, epoch, captured, processed>>

-----------------------------------------------------------------------------
\* kill forgets the queue; what it had scheduled becomes stale.
KillNode(n) ==
  /\ n \in up /\ epoch[n] < MaxKills
  /\ up' = up \ {n}
  /\ queued' = [queued EXCEPT ![n] = 0]
  /\ epoch' = [epoch EXCEPT ![n] = @ + 1]
  /\ UNCHANGED <<mode, jobs, onAir, metrics>>

ReviveNode(n) ==
  /\ n \notin up
  /\ up' = up \cup {n}
  /\ UNCHANGED <<mode, epoch, queued, jobs, onAir, metrics>>

Event(job) ==
  \/ FinishStale(job)
  \/ \E leader \in Members :
       \/ Ship(job, leader)
       \/ \E member \in Members : Dispatch(job, leader, member)
       \/ \E verdict \in Verdicts : BrainDone(job, verdict, leader)

FramesNext ==
  \/ \E n \in Members :
       KillNode(n) \/ ReviveNode(n) \/ \E f \in Frames, leader \in Members : Capture(n, f, leader)
  \/ \E job \in jobs : Event(job)
  \/ \E m \in onAir : Deliver(m)

FramesSpec == FramesInit /\ [][FramesNext]_frameVars

-----------------------------------------------------------------------------
Job == [node : Members, epoch : 0..MaxKills, frame : Frames, then : {"ship", "dispatch", "brain"}]
Message == [to : Members, kind : {"frame", "result"}, frame : Frames]

FramesTypes ==
  /\ mode \in Modes /\ up \subseteq Members
  /\ epoch \in [Members -> 0..MaxKills] /\ queued \in [Members -> 0..QueueLimit]
  /\ jobs \subseteq Job /\ onAir \subseteq Message
  /\ captured \subseteq Frames /\ rejected \subseteq captured
  /\ processed \in [Frames -> Nat] /\ learned \in [Frames -> Nat]

Live(n) == {job \in jobs : job.node = n /\ job.epoch = epoch[n]}

\* _queued is exactly the work that will still finish: deaths and revivals
\* neither leak capacity nor let stale work give some back twice.
QueueExact == \A n \in Members : /\ queued[n] = Cardinality(Live(n))
                                 /\ n \notin up => queued[n] = 0

\* A captured frame is in one place at most, and its brain runs once at most:
\* work that died with its node is never counted as processed.
Carriers(f) == {job \in jobs : job.frame = f /\ job.epoch = epoch[job.node]}
               \cup {m \in onAir : m.frame = f /\ m.kind = "frame"}
FrameOnce ==
  \A f \in Frames :
    /\ Cardinality(Carriers(f)) + processed[f] + (IF f \in rejected THEN 1 ELSE 0) <= 1
    /\ f \notin captured => Carriers(f) = {} /\ processed[f] = 0

\* The leader learns a frame's result once at most, and only of a frame that
\* was processed: recall and detections_reported never exceed what happened.
LearnedOnce ==
  \A f \in Frames :
    learned[f] + Cardinality({m \in onAir : m.frame = f /\ m.kind = "result"}) <= processed[f]

\* The way of a frame, whatever dies and comes back.
FramesKept == FrameOnce /\ LearnedOnce
=============================================================================
