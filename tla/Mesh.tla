-------------------------------- MODULE Mesh --------------------------------
(***************************************************************************)
(* Inference across the mesh (runtime/node.py): submit chooses a node for  *)
(* each attempt, request sends the job over the session, the peer's        *)
(* _message accepts it, _reply answers, and sessions break at any moment.  *)
(*                                                                         *)
(* Time is left out: an attempt may time out whenever it waits, a job may  *)
(* expire whenever it is accepted.  The worker behind _accept is Worker;   *)
(* here it is the set of accepted jobs.  How sessions come about is        *)
(* Session; here the two ends of a pair connect in one step.               *)
(***************************************************************************)
EXTENDS Naturals, Sequences, FiniteSets

CONSTANTS
  Nodes,       \* the runtimes
  Peers,       \* config.peers of each
  Jobs,        \* calls of submit; a job id is never used twice
  Owner,       \* the node on which each is submitted
  NoNode,
  QueueLimit,  \* config.queue_limit, also the advertised capacity
  Retries,     \* config.retries
  MaxSessions  \* bound of the sessions that are ever opened

ASSUME MeshAssumption ==
  /\ IsFiniteSet(Nodes) /\ IsFiniteSet(Jobs)
  /\ Peers \in [Nodes -> SUBSET Nodes] /\ \A n \in Nodes : n \notin Peers[n]
  /\ Owner \in [Jobs -> Nodes] /\ NoNode \notin Nodes
  /\ QueueLimit \in Nat \ {0} /\ Retries \in Nat /\ MaxSessions \in Nat

VARIABLES
  end,       \* a node's end of its session with a peer: "down", "up", "closing"
  wire,      \* the messages of one direction of the connection
  queued,    \* session.queued, the last load the peer advertised
  capacity,  \* session.capacity, 0 until the first LOAD
  reserved,  \* session.reservations
  work,      \* _work of a node
  reply,     \* the _reply task of a node for a job: what it is about to send
  at,        \* where submit is with a job
  target,    \* the node of the current attempt
  tried,     \* excluded
  old,       \* the attempt belongs to a session that is gone
  ran,       \* how often a node ran a job (history)
  opened     \* sessions opened so far, for the bound

session == <<end, wire, queued, capacity, reserved>>
attempt == <<at, target, tried, old>>
vars == <<session, work, reply, attempt, ran, opened>>

Stages == {"idle", "choosing", "selected", "sent", "local", "answered", "failed",
           "done", "error", "lost"}
Messages == [kind: {"JOB", "RESULT", "BUSY", "ERROR"}, job: Jobs]
Pairs == [Nodes -> [Nodes -> Nat]]

TypeOK ==
  /\ end \in [Nodes -> [Nodes -> {"down", "up", "closing"}]]
  /\ wire \in [Nodes -> [Nodes -> Seq(Messages)]]
  /\ queued \in Pairs /\ capacity \in Pairs /\ reserved \in Pairs
  /\ work \in [Nodes -> SUBSET Jobs]
  /\ reply \in [Nodes -> [Jobs -> {"none", "waiting", "RESULT", "ERROR"}]]
  /\ at \in [Jobs -> Stages]
  /\ target \in [Jobs -> Nodes \cup {NoNode}]
  /\ tried \in [Jobs -> SUBSET Nodes]
  /\ old \in [Jobs -> BOOLEAN]
  /\ ran \in [Nodes -> [Jobs -> Nat]] /\ opened \in 0..MaxSessions

Zero == [n \in Nodes |-> [p \in Nodes |-> 0]]

Init ==
  /\ end = [n \in Nodes |-> [p \in Nodes |-> "down"]]
  /\ wire = [n \in Nodes |-> [p \in Nodes |-> <<>>]]
  /\ queued = Zero /\ capacity = Zero /\ reserved = Zero
  /\ work = [n \in Nodes |-> {}]
  /\ reply = [n \in Nodes |-> [j \in Jobs |-> "none"]]
  /\ at = [j \in Jobs |-> "idle"]
  /\ target = [j \in Jobs |-> NoNode]
  /\ tried = [j \in Jobs |-> {}]
  /\ old = [j \in Jobs |-> FALSE]
  /\ ran = [n \in Nodes |-> [j \in Jobs |-> 0]] /\ opened = 0

-----------------------------------------------------------------------------
(* Sessions.                                                               *)

\* Both ends hold a _Session for the pair; nothing was advertised yet.
Connect(n, p) ==
  /\ n \in Peers[p] /\ p \in Peers[n] /\ end[n][p] = "down" /\ end[p][n] = "down"
  /\ opened < MaxSessions /\ opened' = opened + 1
  /\ end' = [end EXCEPT ![n][p] = "up", ![p][n] = "up"]
  /\ wire' = [wire EXCEPT ![n][p] = <<>>, ![p][n] = <<>>]
  /\ UNCHANGED <<queued, capacity, reserved, work, reply, attempt, ran>>

\* disconnect fails every pending request of the session.
FailPending(n, p) ==
  at' = [j \in Jobs |-> IF at[j] = "sent" /\ Owner[j] = n /\ target[j] = p /\ ~old[j]
                        THEN "failed" ELSE at[j]]

\* What was written before the writer closed may still arrive, or be lost.
CutAt(n, p, kept) ==
  [wire EXCEPT ![n][p] = IF end[n][p] = "up" /\ kept < Len(@) THEN SubSeq(@, 1, kept) ELSE @]

\* The heartbeat or a reply could not be written: the session is disconnected
\* from outside its read loop, which still runs.
Disconnect(n, p) ==
  /\ end[n][p] = "up"
  /\ end' = [end EXCEPT ![n][p] = "closing"]
  /\ \E kept \in 0..Cardinality(Jobs) : wire' = CutAt(n, p, kept)
  /\ FailPending(n, p)
  /\ UNCHANGED <<queued, capacity, reserved, work, reply, target, tried, old, ran, opened>>

\* The read loop ends, on the peer's EOF, a timeout, an invalid packet, a
\* refusal it cannot write or the age of the session; its finally cancels the
\* reply tasks, removes the session and disconnects it: what it knew is gone.
ServeEnd(n, p) ==
  /\ end[n][p] # "down"
  /\ end' = [end EXCEPT ![n][p] = "down"]
  /\ \E kept \in 0..Cardinality(Jobs) : wire' = [CutAt(n, p, kept) EXCEPT ![p][n] = <<>>]
  /\ reply' = [reply EXCEPT ![n] = [j \in Jobs |-> IF Owner[j] = p THEN "none" ELSE @[j]]]
  /\ old' = [j \in Jobs |-> old[j] \/ (Owner[j] = n /\ target[j] = p)]
  /\ FailPending(n, p)
  /\ queued' = [queued EXCEPT ![n][p] = 0] /\ capacity' = [capacity EXCEPT ![n][p] = 0]
  /\ reserved' = [reserved EXCEPT ![n][p] = 0]
  /\ UNCHANGED <<work, target, tried, ran, opened>>

\* The process dies; it starts again with nothing.  What it wrote and nobody
\* read yet is lost: reading it earlier would have been the same.
Crash(n) ==
  /\ end' = [end EXCEPT ![n] = [p \in Nodes |-> "down"]]
  /\ wire' = [m \in Nodes |-> [p \in Nodes |-> IF n \in {m, p} THEN <<>> ELSE wire[m][p]]]
  /\ work' = [work EXCEPT ![n] = {}]
  /\ reply' = [reply EXCEPT ![n] = [j \in Jobs |-> "none"]]
  /\ at' = [j \in Jobs |-> IF Owner[j] = n /\ at[j] \notin {"idle", "done", "error"}
                           THEN "lost" ELSE at[j]]
  /\ queued' = [queued EXCEPT ![n] = Zero[n]] /\ capacity' = [capacity EXCEPT ![n] = Zero[n]]
  /\ reserved' = [reserved EXCEPT ![n] = Zero[n]]
  /\ UNCHANGED <<target, tried, old, ran, opened>>

\* A write on an open session; nobody reads what is sent to an end that is gone.
Send(n, p, m) ==
  wire' = IF end[p][n] = "down" THEN wire ELSE [wire EXCEPT ![n][p] = Append(@, m)]

\* A LOAD of n reaches p.  It is written and read in one step: a load that is
\* read later and is stale by then is that of an earlier heartbeat.  What a node
\* that submits nothing believes of its peers is left out.
Heartbeat(n, p) ==
  /\ p \in {Owner[j] : j \in Jobs}
  /\ end[n][p] = "up" /\ end[p][n] # "down"
  /\ queued' = [queued EXCEPT ![p][n] = Cardinality(work[n])]
  /\ capacity' = [capacity EXCEPT ![p][n] = QueueLimit]
  /\ UNCHANGED <<end, wire, reserved, work, reply, attempt, ran, opened>>

-----------------------------------------------------------------------------
(* submit.                                                                 *)

Attempts(n) ==
  IF Retries < Cardinality(Peers[n]) THEN Retries + 1 ELSE Cardinality(Peers[n]) + 1

Submit(j) ==
  /\ at[j] = "idle"
  /\ at' = [at EXCEPT ![j] = "choosing"]
  /\ UNCHANGED <<session, work, reply, target, tried, old, ran, opened>>

PeerLoad(n, p) == IF queued[n][p] > reserved[n][p] THEN queued[n][p] ELSE reserved[n][p]

\* _select: the nodes it weighs; which of them finishes first is an estimate.
Candidates(j) ==
  LET n == Owner[j]
  IN  {p \in Nodes \ tried[j] :
         IF p = n THEN Cardinality(work[n]) < QueueLimit
         ELSE end[n][p] = "up" /\ PeerLoad(n, p) < capacity[n][p]}

\* Mutant: the chosen node is not excluded.
ChooseAgain(j, p) ==
  /\ at[j] = "choosing" /\ Cardinality(tried[j]) < Attempts(Owner[j])
  /\ p \in Candidates(j)
  /\ target' = [target EXCEPT ![j] = p]
  /\ old' = [old EXCEPT ![j] = FALSE]
  /\ IF p = Owner[j]
     THEN /\ work' = [work EXCEPT ![p] = @ \cup {j}]
          /\ at' = [at EXCEPT ![j] = "local"]
          /\ UNCHANGED reserved
     ELSE /\ reserved' = [reserved EXCEPT ![Owner[j]][p] = @ + 1]
          /\ at' = [at EXCEPT ![j] = "selected"]
          /\ UNCHANGED work
  /\ UNCHANGED <<end, wire, queued, capacity, reply, tried, ran, opened>>

\* The chosen node is excluded from later attempts.  A local job is accepted
\* in the same step, a remote one reserves its place before it is sent.
Choose(j, p) ==
  /\ at[j] = "choosing" /\ Cardinality(tried[j]) < Attempts(Owner[j])
  /\ p \in Candidates(j)
  /\ tried' = [tried EXCEPT ![j] = @ \cup {p}]
  /\ target' = [target EXCEPT ![j] = p]
  /\ old' = [old EXCEPT ![j] = FALSE]
  /\ IF p = Owner[j]
     THEN /\ work' = [work EXCEPT ![p] = @ \cup {j}]
          /\ at' = [at EXCEPT ![j] = "local"]
          /\ UNCHANGED reserved
     ELSE /\ reserved' = [reserved EXCEPT ![Owner[j]][p] = @ + 1]
          /\ at' = [at EXCEPT ![j] = "selected"]
          /\ UNCHANGED work
  /\ UNCHANGED <<end, wire, queued, capacity, reply, ran, opened>>

\* No candidate or no attempt is left.
GiveUp(j) ==
  /\ at[j] = "choosing"
  /\ Candidates(j) = {} \/ Cardinality(tried[j]) >= Attempts(Owner[j])
  /\ at' = [at EXCEPT ![j] = "error"]
  /\ UNCHANGED <<session, work, reply, target, tried, old, ran, opened>>

\* The deadline of the submission passed, or the runtime closes.
RunOut(j) ==
  /\ at[j] = "choosing"
  /\ at' = [at EXCEPT ![j] = "error"]
  /\ UNCHANGED <<session, work, reply, target, tried, old, ran, opened>>

\* Mutant: a failed attempt keeps its place.
ReleaseNoFinally(j) ==
  reserved' = IF target[j] = Owner[j] \/ old[j] \/ at[j] = "failed" THEN reserved
              ELSE [reserved EXCEPT ![Owner[j]][target[j]] = @ - 1]

\* The finally of the attempt, on the session object it was made on.
Release(j) ==
  reserved' = IF target[j] = Owner[j] \/ old[j] THEN reserved
              ELSE [reserved EXCEPT ![Owner[j]][target[j]] = @ - 1]

Attached(j) == ~old[j] /\ end[Owner[j]][target[j]] = "up"

\* request: the future is pending, then the job is written.
Request(j) ==
  /\ at[j] = "selected" /\ Attached(j)
  /\ Send(Owner[j], target[j], [kind |-> "JOB", job |-> j])
  /\ at' = [at EXCEPT ![j] = "sent"]
  /\ UNCHANGED <<end, queued, capacity, reserved, work, reply, target, tried, old, ran, opened>>

\* The write fails: send closes the writer, and leaves the other requests of
\* the session to its read loop.
RequestFails(j) ==
  /\ at[j] = "selected" /\ Attached(j)
  /\ end' = [end EXCEPT ![Owner[j]][target[j]] = "closing"]
  /\ \E kept \in 0..Cardinality(Jobs) : wire' = CutAt(Owner[j], target[j], kept)
  /\ at' = [at EXCEPT ![j] = "failed"]
  /\ UNCHANGED <<queued, capacity, reserved, work, reply, target, tried, old, ran, opened>>

\* The attempt failed, or its session closed before the write.
Retry(j) ==
  /\ at[j] = "failed" \/ (at[j] = "selected" /\ ~Attached(j))
  /\ Release(j)
  /\ at' = [at EXCEPT ![j] = "choosing"]
  /\ UNCHANGED <<end, wire, queued, capacity, work, reply, target, tried, old, ran, opened>>

\* The attempt's share of the time is over; an answer that is there is late.
TimeOut(j) ==
  /\ at[j] \in {"selected", "sent", "local", "answered"}
  /\ Release(j)
  /\ at' = [at EXCEPT ![j] = "choosing"]
  /\ UNCHANGED <<end, wire, queued, capacity, work, reply, target, tried, old, ran, opened>>

\* The answer is returned.
Complete(j) ==
  /\ at[j] = "answered"
  /\ Release(j)
  /\ at' = [at EXCEPT ![j] = "done"]
  /\ UNCHANGED <<end, wire, queued, capacity, work, reply, target, tried, old, ran, opened>>

-----------------------------------------------------------------------------
(* _message, _reply and the worker.                                        *)

Replying(n, p) == {j \in Jobs : Owner[j] = p /\ reply[n][j] # "none"}

\* No room: the peer waits for QueueLimit jobs here already, or _accept
\* refuses.
Busy(n, p, j) ==
  \/ Cardinality(Replying(n, p)) >= QueueLimit /\ j \notin Replying(n, p)
  \/ j \notin work[n] /\ Cardinality(work[n]) >= QueueLimit

\* The read loop took the next message of the connection.
Take(n, p, kind) ==
  /\ end[n][p] # "down" /\ wire[p][n] # <<>>
  /\ Head(wire[p][n]).kind \in kind
Taken(n, p) == wire' = [wire EXCEPT ![p][n] = Tail(@)]

\* Mutant: the job is accepted and no reply task is started.
ReceiveJobSilently(n, p) ==
  /\ Take(n, p, {"JOB"})
  /\ LET j == Head(wire[p][n]).job
     IN  ~Busy(n, p, j) /\ work' = [work EXCEPT ![n] = @ \cup {j}]
  /\ Taken(n, p)
  /\ UNCHANGED <<end, queued, capacity, reserved, reply, attempt, ran, opened>>

ReceiveJob(n, p) ==
  /\ Take(n, p, {"JOB"})
  /\ LET j == Head(wire[p][n]).job
     IN  /\ ~Busy(n, p, j)
         /\ work' = [work EXCEPT ![n] = @ \cup {j}]
         /\ reply' = [reply EXCEPT ![n][j] = IF @ = "none" THEN "waiting" ELSE @]
  /\ Taken(n, p)
  /\ UNCHANGED <<end, queued, capacity, reserved, attempt, ran, opened>>

\* The refusal is written by the read loop itself: nothing else is read before.
RefuseJob(n, p) ==
  /\ Take(n, p, {"JOB"}) /\ end[n][p] = "up"
  /\ LET j == Head(wire[p][n]).job
     IN  /\ Busy(n, p, j)
         /\ wire' = [wire EXCEPT ![p][n] = Tail(@),
                       ![n][p] = IF end[p][n] = "down" THEN @
                                 ELSE Append(@, [kind |-> "BUSY", job |-> j])]
  /\ UNCHANGED <<end, queued, capacity, reserved, work, reply, attempt, ran, opened>>

\* Mutant: the pending requests of a node are kept for all sessions together.
PendingAnywhere(n, p) == {j \in Jobs : at[j] = "sent" /\ Owner[j] = n}

\* session.pending of n's session with p.
Pending(n, p) == {j \in Jobs : at[j] = "sent" /\ Owner[j] = n /\ target[j] = p /\ ~old[j]}

\* An answer settles the pending request; one nobody waits for any more is
\* dropped.
ReceiveAnswer(n, p) ==
  /\ Take(n, p, {"RESULT", "BUSY", "ERROR"})
  /\ LET m == Head(wire[p][n])
     IN  IF m.job \in Pending(n, p)
         THEN /\ at' = [at EXCEPT ![m.job] = IF m.kind = "RESULT" THEN "answered" ELSE "failed"]
              /\ queued' = [queued EXCEPT ![n][p] =
                              IF m.kind = "BUSY" THEN capacity[n][p]
                              ELSE IF m.kind = "RESULT" /\ @ > 0 THEN @ - 1 ELSE @]
         ELSE UNCHANGED <<at, queued>>
  /\ Taken(n, p)
  /\ UNCHANGED <<end, capacity, reserved, work, reply, target, tried, old, ran, opened>>

\* Mutant: a failure of the plugin ends the reply task.
FinishUnheard(n, j, outcome, runs) ==
  /\ j \in work[n] /\ (outcome = "RESULT" => runs)
  /\ work' = [work EXCEPT ![n] = @ \ {j}]
  /\ ran' = [ran EXCEPT ![n][j] = IF runs THEN @ + 1 ELSE @]
  /\ reply' = [reply EXCEPT ![n][j] =
                 IF outcome = "ERROR" THEN "none" ELSE IF @ = "waiting" THEN outcome ELSE @]
  /\ at' = IF at[j] = "local" /\ Owner[j] = n
           THEN [at EXCEPT ![j] = IF outcome = "RESULT" THEN "answered" ELSE "failed"] ELSE at
  /\ UNCHANGED <<session, target, tried, old, opened>>

\* The worker ends a job: it ran and succeeded or failed, or it had expired and
\* did not run.  Whoever still waits for it is told.
Finish(n, j, outcome, runs) ==
  /\ j \in work[n] /\ (outcome = "RESULT" => runs)
  /\ work' = [work EXCEPT ![n] = @ \ {j}]
  /\ ran' = [ran EXCEPT ![n][j] = IF runs THEN @ + 1 ELSE @]
  /\ reply' = [reply EXCEPT ![n][j] = IF @ = "waiting" THEN outcome ELSE @]
  /\ at' = IF at[j] = "local" /\ Owner[j] = n
           THEN [at EXCEPT ![j] = IF outcome = "RESULT" THEN "answered" ELSE "failed"] ELSE at
  /\ UNCHANGED <<session, target, tried, old, opened>>

\* _reply writes the answer, or that the time is over while it still waited.
Reply(n, j) ==
  /\ reply[n][j] # "none" /\ end[n][Owner[j]] = "up"
  /\ Send(n, Owner[j], [kind |-> IF reply[n][j] = "RESULT" THEN "RESULT" ELSE "ERROR", job |-> j])
  /\ reply' = [reply EXCEPT ![n][j] = "none"]
  /\ UNCHANGED <<end, queued, capacity, reserved, work, attempt, ran, opened>>

\* The session is closing: the write raises, and the session is disconnected.
ReplyFails(n, j) ==
  /\ reply[n][j] # "none" /\ end[n][Owner[j]] = "closing"
  /\ reply' = [reply EXCEPT ![n][j] = "none"]
  /\ FailPending(n, Owner[j])
  /\ UNCHANGED <<session, work, target, tried, old, ran, opened>>

-----------------------------------------------------------------------------
Failures ==
  \/ \E n, p \in Nodes : Disconnect(n, p) \/ ServeEnd(n, p)
  \/ \E n \in Nodes : Crash(n) \/ \E j \in Jobs : ReplyFails(n, j)
  \/ \E j \in Jobs : RequestFails(j)

Timeouts == \E j \in Jobs : RunOut(j) \/ TimeOut(j)

Receive(n, p) == ReceiveJob(n, p) \/ RefuseJob(n, p) \/ ReceiveAnswer(n, p)

SubmitStep(j) ==
  GiveUp(j) \/ Request(j) \/ Retry(j) \/ Complete(j) \/ \E p \in Nodes : Choose(j, p)

Network == \E n, p \in Nodes : Connect(n, p) \/ Heartbeat(n, p) \/ Receive(n, p)

Plugin(n, j, outcomes) == \E outcome \in outcomes, runs \in BOOLEAN : Finish(n, j, outcome, runs)

Next ==
  \/ Failures \/ Timeouts \/ Network
  \/ \E j \in Jobs : Submit(j) \/ SubmitStep(j)
  \/ \E n \in Nodes, j \in Jobs : Reply(n, j) \/ Plugin(n, j, {"RESULT", "ERROR"})

Spec == Init /\ [][Next]_vars

\* A calm mesh: the sessions hold, no time runs out, and every job that is run
\* succeeds.
CalmNext ==
  \/ Network
  \/ \E j \in Jobs : Submit(j) \/ SubmitStep(j)
  \/ \E n \in Nodes, j \in Jobs :
       (reply[n][j] = "RESULT" /\ Reply(n, j)) \/ Plugin(n, j, {"RESULT"})

CalmSpec ==
  /\ Init /\ [][CalmNext]_vars
  /\ \A j \in Jobs : WF_vars(SubmitStep(j))
  /\ \A n, p \in Nodes : WF_vars(Receive(n, p))
  /\ \A n \in Nodes, j \in Jobs : /\ WF_vars(reply[n][j] = "RESULT" /\ Reply(n, j))
                                  /\ WF_vars(Plugin(n, j, {"RESULT"}))

-----------------------------------------------------------------------------
\* A session's reservations are exactly the attempts of submit that were made
\* on it and are not over: none leaks and none is given back to a later session.
Attempting(n, p) ==
  {j \in Jobs : /\ Owner[j] = n /\ target[j] = p /\ ~old[j]
                /\ at[j] \in {"selected", "sent", "answered", "failed"}}
ReservationsExact ==
  \A n, p \in Nodes : end[n][p] # "down" /\ n # p =>
    reserved[n][p] = Cardinality(Attempting(n, p))

\* An answer submit returns comes from the node of its last attempt, and that
\* node ran the job: no late answer of an earlier attempt is taken for it.
AnswerFromTarget ==
  \A j \in Jobs : at[j] \in {"answered", "done"} => ran[target[j]][j] > 0

\* Retries run a job on other nodes only, and at most Attempts(owner) times in all.
RunsBounded ==
  \A j \in Jobs : /\ \A n \in Nodes : ran[n][j] <= 1
                  /\ Cardinality({n \in Nodes : ran[n][j] > 0}) <= Attempts(Owner[j])

\* Attempts give back what they took, and no more of them are made than allowed.
AttemptsExact == TypeOK /\ ReservationsExact /\ RunsBounded

\* While both ends hold the session, a pending request is on its way, being
\* answered, or its answer is on its way: nothing is dropped silently.
OnWire(s, j, kinds) == \E i \in DOMAIN s : s[i].kind \in kinds /\ s[i].job = j
RequestAccounted ==
  \A n, p \in Nodes : end[n][p] = "up" /\ end[p][n] = "up" =>
    \A j \in Pending(n, p) : \/ OnWire(wire[n][p], j, {"JOB"})
                             \/ reply[p][j] # "none"
                             \/ OnWire(wire[p][n], j, {"RESULT", "BUSY", "ERROR"})

\* In a calm mesh with room for every job, every submission gets its result.
EverySubmitAnswered == \A j \in Jobs : at[j] = "choosing" ~> at[j] = "done"
=============================================================================
