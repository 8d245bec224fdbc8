-------------------------------- MODULE Guard -------------------------------
(***************************************************************************)
(* HardwareGuard (robotics/guard.py): the lock every public method takes,  *)
(* the lease an armed guard runs on, the adapter's callbacks, which take   *)
(* time and may fail, and the watchdog thread.                             *)
(*                                                                         *)
(* An action is the code between two points where time can pass with the   *)
(* lock held: the validation of a command, adapter.apply and               *)
(* adapter.observe.  The lock is reentrant, so while a command's mapping   *)
(* is read the thread that reads it may call any method of the guard       *)
(* again, command included.                                                *)
(***************************************************************************)
EXTENDS Naturals, Sequences

CONSTANTS
  Threads,   \* application threads
  NoCall,    \* the lock is free
  Watchdog,  \* profile.watchdog_s
  MaxSeq,    \* bound of the sequence numbers
  MaxDepth,  \* bound of the commands that are validated inside each other
  MaxNow     \* bound of the clock

ASSUME GuardAssumption ==
  /\ Watchdog \in Nat \ {0} /\ MaxSeq \in Nat /\ MaxDepth \in Nat /\ MaxNow \in Nat
  /\ NoCall \notin Threads

VARIABLES
  now,        \* the monotonic clock
  armed, fault, stopError, closed, entered,
  done,       \* _done, which ends the monitor
  needsStop,
  deadline,   \* _deadline, 0 for None
  lastSeq,    \* _last_sequence + 1
  driven,     \* the hardware is driven by the last snapshot applied
  owner,      \* the thread that holds the lock across time, or NoCall
  stage,      \* what it is in: "none", "validating", "applying", "observing"
  pending,    \* the commands being validated or applied, the innermost last
  monitor,    \* _thread: "none", "waiting" or "ended"
  closing     \* threads in close, past _done.set(), that wait for the lock

state == <<armed, fault, stopError, done, needsStop, deadline, driven>>
call  == <<owner, stage, pending>>
vars  == <<now, state, closed, entered, lastSeq, call, monitor, closing>>

Commands == [seq: Nat, expires: Nat]

TypeOK ==
  /\ now \in Nat
  /\ armed \in BOOLEAN /\ fault \in BOOLEAN /\ stopError \in BOOLEAN
  /\ closed \in BOOLEAN /\ entered \in BOOLEAN /\ done \in BOOLEAN
  /\ needsStop \in BOOLEAN /\ driven \in BOOLEAN
  /\ deadline \in Nat /\ lastSeq \in Nat
  /\ owner \in Threads \cup {NoCall}
  /\ stage \in {"none", "validating", "applying", "observing"}
  /\ pending \in Seq(Commands)
  /\ monitor \in {"none", "waiting", "ended"}
  /\ closing \in SUBSET Threads

\* The constructor's own stop has succeeded, or there would be no guard.
Init ==
  /\ now = 1
  /\ armed = FALSE /\ fault = FALSE /\ stopError = FALSE
  /\ closed = FALSE /\ entered = FALSE /\ done = FALSE
  /\ needsStop = FALSE /\ driven = FALSE
  /\ deadline = 0 /\ lastSeq = 0
  /\ owner = NoCall /\ stage = "none" /\ pending = <<>>
  /\ monitor = "none" /\ closing = {}

-----------------------------------------------------------------------------
(* _stop_locked.  The first fault is latched and always asks for a stop; a *)
(* stop without fault is asked for once per arming.  safe_stop may fail.   *)

RequestStop(faulting) ==
  /\ needsStop' = FALSE
  /\ \E works \in BOOLEAN :
       /\ driven' = (driven /\ ~works)
       /\ stopError' = (stopError \/ ~works)
       /\ fault' = (fault \/ faulting \/ ~works)
       /\ done' = (done \/ faulting \/ ~works)

Disarmed == armed' = FALSE /\ deadline' = 0

FaultStop ==
  IF fault THEN UNCHANGED state ELSE Disarmed /\ RequestStop(TRUE)

SoftStop ==
  /\ Disarmed
  /\ IF needsStop THEN RequestStop(FALSE)
     ELSE UNCHANGED <<fault, stopError, done, needsStop, driven>>

-----------------------------------------------------------------------------
Healthy == ~closed /\ ~fault

\* The lock is free, or this thread holds it while its mapping is read.
CanLock(t) == owner = NoCall \/ (owner = t /\ stage = "validating")

\* _poll_locked finds the lease expired.
Expired == armed /\ now >= deadline

\* A call ends, to the reading of the mapping it was made from, if any.
Innermost == pending[Len(pending)]
Outer   == SubSeq(pending, 1, Len(pending) - 1)
Return(rest) ==
  /\ pending' = rest
  /\ owner' = IF rest = <<>> THEN NoCall ELSE owner
  /\ stage' = IF rest = <<>> THEN "none" ELSE "validating"

\* Mutant: arming does not note that a stop will be needed.
ArmWithoutStop(t, local, badClock) ==
  /\ CanLock(t) /\ Healthy
  /\ IF ~local \/ badClock \/ armed
     THEN FaultStop
     ELSE /\ armed' = TRUE
          /\ deadline' = now + Watchdog
          /\ UNCHANGED <<fault, stopError, done, driven, needsStop>>
  /\ UNCHANGED <<now, closed, entered, lastSeq, call, monitor, closing>>

\* One clock reading of _now_locked; a bad one is not finite or goes back.
Arm(t, local, badClock) ==
  /\ CanLock(t) /\ Healthy
  /\ IF ~local \/ badClock \/ armed
     THEN FaultStop
     ELSE /\ armed' = TRUE /\ needsStop' = TRUE
          /\ deadline' = now + Watchdog
          /\ UNCHANGED <<fault, stopError, done, driven>>
  /\ UNCHANGED <<now, closed, entered, lastSeq, call, monitor, closing>>

\* Mutant: disarm does not poll the lease first.
DisarmUnpolled(t, reasonOK, badClock) ==
  /\ CanLock(t) /\ Healthy
  /\ IF badClock \/ ~reasonOK THEN FaultStop ELSE SoftStop
  /\ UNCHANGED <<now, closed, entered, lastSeq, call, monitor, closing>>

Disarm(t, reasonOK, badClock) ==
  /\ CanLock(t) /\ Healthy
  /\ IF badClock \/ Expired \/ ~reasonOK THEN FaultStop ELSE SoftStop
  /\ UNCHANGED <<now, closed, entered, lastSeq, call, monitor, closing>>

\* Mutant: the command's lease may be longer than the watchdog.
CommandBeginLong(t, c, badClock) ==
  /\ CanLock(t) /\ Healthy /\ Len(pending) < MaxDepth
  /\ IF badClock \/ Expired \/ ~armed \/ c.seq <= lastSeq \/ c.expires <= now
     THEN FaultStop /\ UNCHANGED call
     ELSE /\ owner' = t /\ stage' = "validating" /\ pending' = Append(pending, c)
          /\ UNCHANGED state
  /\ UNCHANGED <<now, closed, entered, lastSeq, monitor, closing>>

\* command up to the reading of its outputs.
CommandBegin(t, c, badClock) ==
  /\ CanLock(t) /\ Healthy /\ Len(pending) < MaxDepth
  /\ IF \/ badClock \/ Expired \/ ~armed
        \/ c.seq <= lastSeq
        \/ c.expires <= now \/ c.expires > now + Watchdog
     THEN FaultStop /\ UNCHANGED call
     ELSE /\ owner' = t /\ stage' = "validating" /\ pending' = Append(pending, c)
          /\ UNCHANGED state
  /\ UNCHANGED <<now, closed, entered, lastSeq, monitor, closing>>

\* Mutant: the sequence number is not compared again after the outputs are
\* read, from where a newer command may have been given.
CommitOlder(outputsOK, badClock) ==
  /\ stage = "validating"
  /\ IF ~outputsOK \/ badClock \/ Expired
     THEN FaultStop /\ Return(Outer) /\ UNCHANGED lastSeq
     ELSE IF ~Healthy THEN UNCHANGED <<state, lastSeq>> /\ Return(Outer)
     ELSE IF ~armed \/ now >= Innermost.expires
     THEN FaultStop /\ Return(Outer) /\ UNCHANGED lastSeq
     ELSE /\ lastSeq' = Innermost.seq /\ deadline' = Innermost.expires
          /\ driven' = TRUE
          /\ stage' = "applying"
          /\ UNCHANGED <<armed, fault, stopError, done, needsStop, owner, pending>>
  /\ UNCHANGED <<now, closed, entered, monitor, closing>>

\* Mutant: nothing is checked again after the outputs are read.
CommitUnchecked(outputsOK, badClock) ==
  /\ stage = "validating"
  /\ IF ~outputsOK
     THEN FaultStop /\ Return(Outer) /\ UNCHANGED lastSeq
     ELSE /\ lastSeq' = Innermost.seq /\ deadline' = Innermost.expires
          /\ driven' = TRUE
          /\ stage' = "applying"
          /\ UNCHANGED <<armed, fault, stopError, done, needsStop, owner, pending>>
  /\ UNCHANGED <<now, closed, entered, monitor, closing>>

\* The outputs are read: the clock, the lease and the command are checked
\* again (one given while they were read may have been newer), the lease is
\* replaced, and adapter.apply starts.
CommandCommit(outputsOK, badClock) ==
  /\ stage = "validating"
  /\ IF ~outputsOK \/ badClock \/ Expired
     THEN FaultStop /\ Return(Outer) /\ UNCHANGED lastSeq
     ELSE IF ~Healthy THEN UNCHANGED <<state, lastSeq>> /\ Return(Outer)
     ELSE IF ~armed \/ Innermost.seq <= lastSeq \/ now >= Innermost.expires
     THEN FaultStop /\ Return(Outer) /\ UNCHANGED lastSeq
     ELSE /\ lastSeq' = Innermost.seq /\ deadline' = Innermost.expires
          /\ driven' = TRUE
          /\ stage' = "applying"
          /\ UNCHANGED <<armed, fault, stopError, done, needsStop, owner, pending>>
  /\ UNCHANGED <<now, closed, entered, monitor, closing>>

\* adapter.apply or adapter.observe returns or raises; the lease is polled.
CallbackEnd(works, badClock) ==
  /\ stage \in {"applying", "observing"}
  /\ IF ~works \/ badClock \/ Expired THEN FaultStop ELSE UNCHANGED state
  /\ Return(IF stage = "applying" THEN Outer ELSE pending)
  /\ UNCHANGED <<now, closed, entered, lastSeq, monitor, closing>>

ObserveBegin(t, badClock) ==
  /\ CanLock(t) /\ Healthy
  /\ IF badClock \/ Expired THEN FaultStop /\ UNCHANGED call
     ELSE /\ owner' = t /\ stage' = "observing"
          /\ UNCHANGED <<state, pending>>
  /\ UNCHANGED <<now, closed, entered, lastSeq, monitor, closing>>

PollLocked(badClock) ==
  IF badClock \/ Expired THEN FaultStop ELSE UNCHANGED state

Poll(t, badClock) ==
  /\ CanLock(t) /\ Healthy
  /\ PollLocked(badClock)
  /\ UNCHANGED <<now, closed, entered, lastSeq, call, monitor, closing>>

\* on_link_loss, and __exit__ with an exception before it closes.
LinkLoss(t) ==
  /\ CanLock(t) /\ ~closed
  /\ FaultStop
  /\ UNCHANGED <<now, closed, entered, lastSeq, call, monitor, closing>>

\* __enter__; when the watchdog thread does not start, the adapter is closed.
Enter(t, starts) ==
  /\ CanLock(t) /\ Healthy
  /\ IF entered \/ armed
     THEN FaultStop /\ UNCHANGED <<entered, monitor, closed>>
     ELSE /\ entered' = TRUE
          /\ IF starts THEN monitor' = "waiting" /\ UNCHANGED <<state, closed>>
             ELSE FaultStop /\ closed' = TRUE /\ UNCHANGED monitor
  /\ UNCHANGED <<now, lastSeq, call, closing>>

-----------------------------------------------------------------------------
(* close: _done is set before the lock is taken, the monitor is joined     *)
(* after it is released.                                                   *)

CloseBegin(t) ==
  /\ t \notin closing
  /\ done' = TRUE
  /\ closing' = closing \cup {t}
  /\ UNCHANGED <<now, armed, fault, stopError, needsStop, deadline, driven,
                 closed, entered, lastSeq, call, monitor>>

\* adapter.close fails after the stop, or the stop itself did: a fault, which
\* stops once more unless the failed stop has already latched it.
CloseFails ==
  /\ Disarmed /\ needsStop' = FALSE
  /\ fault' = TRUE /\ done' = TRUE
  /\ \/ driven' = driven /\ stopError' = TRUE
     \/ driven' = FALSE /\ stopError' \in {stopError, TRUE}

\* Under the lock: the stop, unless a fault has made it, then adapter.close.
CloseLocked(t, closeWorks) ==
  /\ t \in closing /\ CanLock(t)
  /\ closing' = closing \ {t}
  /\ closed' = TRUE
  /\ IF closed THEN UNCHANGED state
     ELSE IF fault THEN UNCHANGED state
     ELSE IF closeWorks THEN SoftStop
     ELSE CloseFails
  /\ UNCHANGED <<now, entered, lastSeq, call, monitor>>

-----------------------------------------------------------------------------
(* _watch.                                                                 *)

MonitorPoll(badClock) ==
  /\ monitor = "waiting" /\ ~done
  /\ owner = NoCall
  /\ IF Healthy THEN PollLocked(badClock) ELSE UNCHANGED state
  /\ UNCHANGED <<now, closed, entered, lastSeq, call, monitor, closing>>

\* Mutant: the loop ends on a guard that is not armed yet.
MonitorEndDisarmed ==
  /\ monitor = "waiting" /\ (done \/ ~armed)
  /\ monitor' = "ended"
  /\ UNCHANGED <<now, state, closed, entered, lastSeq, call, closing>>

MonitorEnd ==
  /\ monitor = "waiting" /\ done
  /\ monitor' = "ended"
  /\ UNCHANGED <<now, state, closed, entered, lastSeq, call, closing>>

Tick ==
  /\ now < MaxNow
  /\ now' = now + 1
  /\ UNCHANGED <<state, closed, entered, lastSeq, call, monitor, closing>>

LockedCall ==
  \E t \in Threads, bad \in BOOLEAN :
    \/ \E local \in BOOLEAN : Arm(t, local, bad)
    \/ \E ok \in BOOLEAN : Disarm(t, ok, bad)
    \/ \E seq \in 1..MaxSeq, expires \in 0..(MaxNow + 1) :
         CommandBegin(t, [seq |-> seq, expires |-> expires], bad)
    \/ ObserveBegin(t, bad)
    \/ Poll(t, bad)
    \/ LinkLoss(t)
    \/ Enter(t, bad)

CallbackReturns ==
  \E ok \in BOOLEAN, bad \in BOOLEAN : CommandCommit(ok, bad) \/ CallbackEnd(ok, bad)

CloseStep(t) == \E works \in BOOLEAN : CloseLocked(t, works)

Watch == (\E bad \in BOOLEAN : MonitorPoll(bad)) \/ MonitorEnd

Next ==
  \/ LockedCall
  \/ CallbackReturns
  \/ \E t \in Threads : CloseBegin(t) \/ CloseStep(t)
  \/ Watch
  \/ Tick

\* Callbacks are bounded, as the adapter contract demands, the clock runs, the
\* watchdog thread is scheduled and a thread in close gets the lock.
Fairness ==
  /\ WF_vars(Tick) /\ WF_vars(CallbackReturns) /\ WF_vars(Watch)
  /\ \A t \in Threads : SF_vars(CloseStep(t))

Spec == Init /\ [][Next]_vars /\ Fairness

-----------------------------------------------------------------------------
(* Properties.                                                             *)

\* Outputs are driven only by an armed guard; otherwise a stop has failed and
\* stop_error says so.
DrivenOnlyArmed == driven => armed \/ stopError

\* A fault or a failed stop leaves the guard disarmed, a closed guard too.
FaultDisarms == /\ fault \/ closed => ~armed
                /\ stopError => fault
                /\ fault => done

\* A fault is never cleared, and after one, or after close, no output is
\* driven that was not driven before.
FaultIsFinal ==
  [][fault \/ closed => /\ fault => fault'
                        /\ closed => closed'
                        /\ driven' => driven]_vars

\* A snapshot is applied only within the lease that was running, with a newer
\* sequence number than any before, also across disarm and rearm, and its own
\* lease is no longer than the watchdog.  Nothing else extends a running lease:
\* observing, polling, arming again or reentering do not.
FreshCommandsOnly ==
  [][\/ driven' /\ ~driven
     \/ lastSeq' # lastSeq
     \/ armed /\ armed' /\ deadline' # deadline
     => /\ lastSeq' > lastSeq
        /\ armed /\ now < deadline
        /\ now < deadline' /\ deadline' <= now + Watchdog]_vars

\* A guard used as a context manager disarms once its lease has expired,
\* however the application behaves.
WatchdogStops == Expired /\ entered ~> ~armed

\* The guard keeps the promise of a lease.
Promise == INSTANCE Lease WITH
  mode   <- IF fault \/ closed THEN "faulted" ELSE IF armed THEN "granted" ELSE "safe",
  until  <- deadline,
  unsure <- stopError,
  newest <- lastSeq

KeepsPromise == Promise!Spec
=============================================================================
