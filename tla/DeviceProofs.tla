---------------------------- MODULE DeviceProofs ----------------------------
(***************************************************************************)
(* TLAPS proofs about what runs on a device, for every value of the        *)
(* constants and for any question: the guard of its outputs (Guard), its   *)
(* configuration and robot profile (Config), and the engine that runs its  *)
(* networks (Engine).                                                      *)
(***************************************************************************)
EXTENDS Guard, QuestionsProofs

-----------------------------------------------------------------------------
(* The guard.                                                              *)

\* A stop is needed exactly while the guard is armed; an armed guard is
\* healthy and runs on a lease.
Lifecycle ==
  /\ needsStop <=> armed
  /\ armed => Healthy
  /\ ~armed => deadline = 0

\* No command that is being validated, inside another or not, lasts longer
\* than the watchdog allows, and there is one while one is validated.
CallsExact ==
  /\ \A i \in 1..Len(pending) : pending[i].expires <= now + Watchdog
  /\ stage \in {"validating", "applying"} => Len(pending) # 0

IInv == TypeOK /\ Lifecycle /\ CallsExact /\ FaultDisarms /\ DrivenOnlyArmed

\* What a stop does to a guard that satisfies the invariant.
Stopped ==
  /\ armed' = FALSE /\ deadline' = 0 /\ needsStop' = FALSE
  /\ \/ driven' = FALSE /\ stopError' \in {stopError, TRUE}
     \/ driven' = driven /\ stopError' = TRUE
  /\ fault' \in {fault, TRUE} /\ done' \in {done, TRUE}
  /\ stopError' # stopError => fault'
  /\ fault' => done'

-----------------------------------------------------------------------------
LEMMA StopFacts ==
  ASSUME IInv, NEW f \in BOOLEAN, Disarmed, RequestStop(f)
  PROVE  Stopped /\ (f => fault')
BY DEF IInv, TypeOK, FaultDisarms, Disarmed, RequestStop, Stopped

LEMMA FaultStopFacts ==
  ASSUME IInv, FaultStop
  PROVE  \/ UNCHANGED state /\ fault
         \/ Stopped /\ fault' /\ ~fault
BY StopFacts DEF FaultStop

LEMMA SoftStopFacts ==
  ASSUME IInv, SoftStop
  PROVE  \/ UNCHANGED state /\ ~armed
         \/ Stopped /\ armed
<1>1. CASE needsStop
  BY <1>1, StopFacts DEF SoftStop, IInv, Lifecycle
<1>2. CASE ~needsStop
  BY <1>2 DEF SoftStop, IInv, TypeOK, Lifecycle, Disarmed, state
<1> QED BY <1>1, <1>2

LEMMA CloseFailsFacts ==
  ASSUME IInv, CloseFails
  PROVE  Stopped /\ fault'
BY DEF IInv, TypeOK, FaultDisarms, CloseFails, Disarmed, Stopped

-----------------------------------------------------------------------------
(* Every step is one of a few shapes, as far as the lease is concerned.    *)

Frame == UNCHANGED <<now, lastSeq>>

Granting == /\ ~armed /\ Healthy /\ Frame /\ UNCHANGED <<closed, call>>
            /\ armed' = TRUE /\ needsStop' = TRUE /\ deadline' = now + Watchdog
            /\ UNCHANGED <<fault, stopError, done, driven>>

Driving == /\ armed /\ ~Expired /\ stage = "validating"
           /\ Innermost.seq > lastSeq /\ now < Innermost.expires
           /\ lastSeq' = Innermost.seq /\ deadline' = Innermost.expires
           /\ driven' = TRUE
           /\ UNCHANGED <<now, closed, armed, fault, stopError, done, needsStop>>

\* A stop, with or without the guard being closed by the same step.
Stopping == Frame /\ Stopped /\ (closed' = closed \/ closed' = TRUE)
            /\ (armed \/ fault')
            /\ (Expired => fault' \/ closed')

\* The lease is left alone: a call begins or ends, the guard is closed after
\* a stop, a thread starts or ends, or time passes.
Passing == /\ UNCHANGED <<armed, fault, stopError, needsStop, deadline, driven, lastSeq>>
           /\ done' \in {done, TRUE}
           /\ \/ UNCHANGED <<now, closed>>
              \/ closed' = TRUE /\ ~armed /\ now' = now
              \/ now' = now + 1 /\ closed' = closed

StepShape == Granting \/ Driving \/ Stopping \/ Passing

LEMMA PassingState == ASSUME UNCHANGED state, Frame, closed' = closed
                      PROVE  Passing
BY DEF state, Frame, Passing

LEMMA FaultStopShape ==
  ASSUME IInv, FaultStop, Frame, closed' = closed \/ closed' = TRUE
  PROVE  StepShape
<1>1. CASE UNCHANGED state /\ fault
  BY <1>1 DEF IInv, FaultDisarms, state, StepShape, Passing, Frame
<1>2. CASE Stopped /\ fault' /\ ~fault
  BY <1>2 DEF StepShape, Stopping
<1> QED BY <1>1, <1>2, FaultStopFacts

LEMMA SoftStopShape ==
  ASSUME IInv, SoftStop, Frame, closed' = closed \/ closed' = TRUE, Expired => closed'
  PROVE  StepShape
<1>1. CASE UNCHANGED state /\ ~armed
  BY <1>1 DEF state, StepShape, Passing, Frame
<1>2. CASE Stopped /\ armed
  BY <1>2 DEF StepShape, Stopping
<1> QED BY <1>1, <1>2, SoftStopFacts

LEMMA LockedShape ==
  ASSUME IInv, LockedCall
  PROVE  StepShape
<1> PICK t \in Threads, bad \in BOOLEAN :
    \/ \E local \in BOOLEAN : Arm(t, local, bad)
    \/ \E ok \in BOOLEAN : Disarm(t, ok, bad)
    \/ \E seq \in 1..MaxSeq, expires \in 0..(MaxNow + 1) :
         CommandBegin(t, [seq |-> seq, expires |-> expires], bad)
    \/ ObserveBegin(t, bad)
    \/ Poll(t, bad)
    \/ LinkLoss(t)
    \/ Enter(t, bad)
  BY DEF LockedCall
<1>1. ASSUME NEW local \in BOOLEAN, Arm(t, local, bad)
      PROVE  StepShape
  <2>1. CASE FaultStop
    BY <1>1, <2>1, FaultStopShape DEF Arm, Frame, call
  <2>2. CASE ~FaultStop
    BY <1>1, <2>2 DEF Arm, Frame, StepShape, Granting
  <2> QED BY <2>1, <2>2
<1>2. ASSUME NEW ok \in BOOLEAN, Disarm(t, ok, bad)
      PROVE  StepShape
  <2>1. CASE FaultStop
    BY <1>2, <2>1, FaultStopShape DEF Disarm, Frame, call
  <2>2. CASE SoftStop /\ ~Expired
    BY <1>2, <2>2, SoftStopShape DEF Disarm, Frame, call
  <2> QED BY <1>2, <2>1, <2>2 DEF Disarm
<1>3. ASSUME NEW seq \in 1..MaxSeq, NEW expires \in 0..(MaxNow + 1),
             CommandBegin(t, [seq |-> seq, expires |-> expires], bad)
      PROVE  StepShape
  <2>1. CASE FaultStop /\ UNCHANGED call
    BY <1>3, <2>1, FaultStopShape DEF CommandBegin, Frame, call
  <2>2. CASE ~(FaultStop /\ UNCHANGED call)
    <3>1. UNCHANGED state /\ UNCHANGED <<now, closed, lastSeq>>
      BY <1>3, <2>2 DEF CommandBegin
    <3> QED BY <3>1 DEF StepShape, Passing, state
  <2> QED BY <2>1, <2>2
<1>4. CASE ObserveBegin(t, bad)
  <2>1. CASE FaultStop /\ UNCHANGED call
    BY <1>4, <2>1, FaultStopShape DEF ObserveBegin, Frame, call
  <2>2. CASE ~(FaultStop /\ UNCHANGED call)
    BY <1>4, <2>2, PassingState DEF ObserveBegin, Frame, StepShape
  <2> QED BY <2>1, <2>2
<1>5. CASE Poll(t, bad)
  <2>1. CASE FaultStop
    BY <1>5, <2>1, FaultStopShape DEF Poll, Frame, call
  <2>2. CASE ~FaultStop
    BY <1>5, <2>2, PassingState DEF Poll, PollLocked, Frame, StepShape, call
  <2> QED BY <2>1, <2>2
<1>6. CASE LinkLoss(t)
  BY <1>6, FaultStopShape DEF LinkLoss, Frame, call
<1>7. CASE Enter(t, bad)
  <2>1. CASE FaultStop
    BY <1>7, <2>1, FaultStopShape DEF Enter, Frame, call
  <2>2. CASE ~FaultStop
    BY <1>7, <2>2, PassingState DEF Enter, Frame, StepShape, call
  <2> QED BY <2>1, <2>2
<1> QED BY <1>1, <1>2, <1>3, <1>4, <1>5, <1>6, <1>7

\* The command at hand, while one is.
LEMMA InnermostIs ==
  ASSUME IInv, stage = "validating"
  PROVE  /\ Innermost.seq \in Nat /\ Innermost.expires \in Nat
         /\ Innermost.expires <= now + Watchdog
<1>1. Len(pending) \in 1..Len(pending)
  BY DEF IInv, TypeOK, CallsExact
<1>2. pending[Len(pending)] \in Commands
  BY <1>1 DEF IInv, TypeOK
<1>3. Innermost \in Commands
  BY <1>2 DEF Innermost
<1>4. Innermost.expires <= now + Watchdog
  BY <1>1 DEF IInv, CallsExact, Innermost
<1> QED BY <1>3, <1>4 DEF Commands

LEMMA CallbackShape ==
  ASSUME IInv, CallbackReturns
  PROVE  StepShape
<1> PICK ok \in BOOLEAN, bad \in BOOLEAN : CommandCommit(ok, bad) \/ CallbackEnd(ok, bad)
  BY DEF CallbackReturns
<1>1. CASE CommandCommit(ok, bad)
  <2>1. CASE FaultStop /\ Return(Outer) /\ UNCHANGED lastSeq
    BY <1>1, <2>1, FaultStopShape DEF CommandCommit, Frame
  <2>2. CASE UNCHANGED <<state, lastSeq>> /\ Return(Outer)
    BY <1>1, <2>2, PassingState DEF CommandCommit, Frame, StepShape
  <2>3. CASE /\ ~Expired /\ armed /\ Innermost.seq > lastSeq /\ now < Innermost.expires
             /\ lastSeq' = Innermost.seq /\ deadline' = Innermost.expires
             /\ driven' = TRUE /\ stage' = "applying"
             /\ UNCHANGED <<armed, fault, stopError, done, needsStop, owner, pending>>
    BY <1>1, <2>3 DEF CommandCommit, StepShape, Driving
  <2>4. Innermost.seq \in Nat /\ Innermost.expires \in Nat /\ lastSeq \in Nat /\ now \in Nat
    BY <1>1, InnermostIs DEF CommandCommit, IInv, TypeOK
  <2>5. /\ ~(Innermost.seq <= lastSeq) <=> Innermost.seq > lastSeq
        /\ ~(now >= Innermost.expires) <=> now < Innermost.expires
    BY <2>4
  <2> DEFINE Lost  == ~ok \/ bad \/ Expired
             Stale == ~armed \/ Innermost.seq <= lastSeq \/ now >= Innermost.expires
             Apply == /\ lastSeq' = Innermost.seq /\ deadline' = Innermost.expires
                      /\ driven' = TRUE /\ stage' = "applying"
                      /\ UNCHANGED <<armed, fault, stopError, done, needsStop, owner, pending>>
  <2>6. \/ FaultStop /\ Return(Outer) /\ UNCHANGED lastSeq
        \/ UNCHANGED <<state, lastSeq>> /\ Return(Outer)
        \/ ~Lost /\ ~Stale /\ Apply
    BY <1>1 DEF CommandCommit
  <2>7. CASE ~Lost /\ ~Stale /\ Apply
    <3>1. ~Expired /\ armed /\ Innermost.seq > lastSeq /\ now < Innermost.expires
      BY <2>5, <2>7
    <3> QED BY <2>3, <2>7, <3>1
  <2> QED BY <2>1, <2>2, <2>6, <2>7
<1>2. CASE CallbackEnd(ok, bad)
  BY <1>2, FaultStopShape, PassingState DEF CallbackEnd, Frame, StepShape
<1> QED BY <1>1, <1>2

LEMMA CloseShape ==
  ASSUME IInv, NEW t \in Threads, CloseBegin(t) \/ CloseStep(t)
  PROVE  StepShape
<1>1. CASE CloseBegin(t)
  BY <1>1 DEF CloseBegin, StepShape, Passing, call
<1>2. ASSUME NEW works \in BOOLEAN, CloseLocked(t, works)
      PROVE  StepShape
  <2>1. CASE UNCHANGED state /\ (closed \/ fault)
    BY <1>2, <2>1 DEF CloseLocked, StepShape, Passing, call, state, IInv, FaultDisarms
  <2>2. CASE SoftStop
    BY <1>2, <2>2, SoftStopShape DEF CloseLocked, Frame, call
  <2>3. CASE CloseFails
    BY <1>2, <2>3, CloseFailsFacts DEF CloseLocked, Frame, call, StepShape, Stopping
  <2> QED BY <1>2, <2>1, <2>2, <2>3 DEF CloseLocked
<1> QED BY <1>1, <1>2 DEF CloseStep

LEMMA WatchShape ==
  ASSUME IInv, Watch
  PROVE  StepShape
<1>1. ASSUME NEW bad \in BOOLEAN, MonitorPoll(bad)
      PROVE  StepShape
  BY <1>1, FaultStopShape, PassingState DEF MonitorPoll, PollLocked, Frame, call, StepShape
<1>2. CASE MonitorEnd
  BY <1>2, PassingState DEF MonitorEnd, Frame, call, StepShape
<1> QED BY <1>1, <1>2 DEF Watch

LEMMA NextShape ==
  ASSUME IInv, [Next]_vars
  PROVE  StepShape
<1>1. CASE Tick
  BY <1>1 DEF Tick, StepShape, Passing, state, call
<1>2. CASE UNCHANGED vars
  BY <1>2, PassingState DEF vars, call, Frame, StepShape
<1> QED BY <1>1, <1>2, LockedShape, CallbackShape, CloseShape, WatchShape DEF Next

-----------------------------------------------------------------------------
(* The invariant is kept, and each property follows from the shapes.       *)

ShapeTypeOK ==
  /\ now \in Nat /\ lastSeq \in Nat /\ deadline \in Nat
  /\ armed \in BOOLEAN /\ fault \in BOOLEAN /\ stopError \in BOOLEAN
  /\ closed \in BOOLEAN /\ done \in BOOLEAN
  /\ needsStop \in BOOLEAN /\ driven \in BOOLEAN

RestTypeOK ==
  /\ entered \in BOOLEAN
  /\ owner \in Threads \cup {NoCall}
  /\ stage \in {"none", "validating", "applying", "observing"}
  /\ pending \in Seq(Commands)
  /\ monitor \in {"none", "waiting", "ended"}
  /\ closing \in SUBSET Threads

LEMMA TypeParts == TypeOK <=> ShapeTypeOK /\ RestTypeOK
BY DEF TypeOK, ShapeTypeOK, RestTypeOK

LEMMA ShapeType ==
  ASSUME IInv, StepShape
  PROVE  ShapeTypeOK'
<1>0. ShapeTypeOK
  BY TypeParts DEF IInv
<1>1. CASE Granting
  BY <1>0, <1>1, GuardAssumption DEF Granting, Frame, ShapeTypeOK
<1>2. CASE Driving
  BY <1>0, <1>2, InnermostIs DEF Driving, ShapeTypeOK
<1>3. CASE Stopping
  BY <1>0, <1>3 DEF Stopping, Stopped, Frame, ShapeTypeOK
<1>4. CASE Passing
  <2>1. now' \in Nat
    BY <1>0, <1>4 DEF Passing, ShapeTypeOK
  <2>2. lastSeq' \in Nat /\ deadline' \in Nat
    BY <1>0, <1>4 DEF Passing, ShapeTypeOK
  <2>3. closed' \in BOOLEAN /\ done' \in BOOLEAN
    <3>1. closed' = closed \/ closed' = TRUE
      BY <1>4 DEF Passing
    <3>2. done' = done \/ done' = TRUE
      BY <1>4 DEF Passing
    <3> QED BY <1>0, <3>1, <3>2 DEF ShapeTypeOK
  <2>4. /\ armed' \in BOOLEAN /\ fault' \in BOOLEAN /\ stopError' \in BOOLEAN
        /\ needsStop' \in BOOLEAN /\ driven' \in BOOLEAN
    BY <1>0, <1>4 DEF Passing, ShapeTypeOK
  <2> QED BY <2>1, <2>2, <2>3, <2>4 DEF ShapeTypeOK
<1> QED BY <1>1, <1>2, <1>3, <1>4 DEF StepShape

\* What is left when a call returns is what was there before it.
LEMMA OuterIs ==
  ASSUME pending \in Seq(Commands)
  PROVE  /\ Outer \in Seq(Commands) /\ Len(Outer) \in Nat
         /\ \A i \in 1..Len(Outer) : i \in 1..Len(pending) /\ Outer[i] = pending[i]
<1>1. CASE Len(pending) = 0
  BY <1>1 DEF Outer
<1>2. CASE Len(pending) # 0
  BY <1>2 DEF Outer
<1> QED BY <1>1, <1>2

LEMMA RestType ==
  ASSUME RestTypeOK, [Next]_vars
  PROVE  RestTypeOK'
<1>1. ASSUME NEW t \in Threads, NEW bad \in BOOLEAN,
             NEW seq \in 1..MaxSeq, NEW expires \in 0..(MaxNow + 1),
             CommandBegin(t, [seq |-> seq, expires |-> expires], bad)
      PROVE  RestTypeOK'
  <2>1. [seq |-> seq, expires |-> expires] \in Commands
    BY GuardAssumption DEF Commands
  <2>2. pending' = pending \/ pending' = Append(pending, [seq |-> seq, expires |-> expires])
    BY <1>1 DEF CommandBegin, call
  <2>3. pending' \in Seq(Commands)
    BY <2>1, <2>2 DEF RestTypeOK
  <2> QED BY <1>1, <2>3 DEF CommandBegin, RestTypeOK, call
<1>2. ASSUME NEW t \in Threads, NEW bad \in BOOLEAN, NEW ok \in BOOLEAN,
             \/ Arm(t, ok, bad) \/ Disarm(t, ok, bad) \/ Poll(t, bad) \/ LinkLoss(t)
      PROVE  RestTypeOK'
  BY <1>2 DEF Arm, Disarm, Poll, LinkLoss, RestTypeOK, call
<1>3. ASSUME NEW t \in Threads, NEW bad \in BOOLEAN, ObserveBegin(t, bad)
      PROVE  RestTypeOK'
  BY <1>3 DEF ObserveBegin, RestTypeOK, call
<1>4. ASSUME NEW t \in Threads, NEW starts \in BOOLEAN, Enter(t, starts)
      PROVE  RestTypeOK'
  BY <1>4 DEF Enter, RestTypeOK, call
<1>5. ASSUME NEW ok \in BOOLEAN, NEW bad \in BOOLEAN, CommandCommit(ok, bad) \/ CallbackEnd(ok, bad)
      PROVE  RestTypeOK'
  <2>1. Outer \in Seq(Commands)
    BY OuterIs DEF RestTypeOK
  <2> QED BY <1>5, <2>1 DEF CommandCommit, CallbackEnd, Return, RestTypeOK
<1>6. ASSUME NEW t \in Threads, NEW works \in BOOLEAN, CloseBegin(t) \/ CloseLocked(t, works)
      PROVE  RestTypeOK'
  BY <1>6 DEF CloseBegin, CloseLocked, RestTypeOK, call
<1>7. CASE Watch \/ Tick \/ UNCHANGED vars
  BY <1>7 DEF Watch, MonitorPoll, MonitorEnd, Tick, vars, RestTypeOK, call
<1> QED BY <1>1, <1>2, <1>3, <1>4, <1>5, <1>6, <1>7
        DEF Next, LockedCall, CallbackReturns, CloseStep

LEMMA NextType ==
  ASSUME IInv, [Next]_vars
  PROVE  TypeOK'
BY NextShape, ShapeType, RestType, TypeParts DEF IInv, TypeOK, ShapeTypeOK, RestTypeOK

LEMMA ShapeInv ==
  ASSUME IInv, TypeOK', StepShape
  PROVE  (Lifecycle /\ FaultDisarms /\ DrivenOnlyArmed)'
<1> USE DEF IInv, TypeOK, Lifecycle, FaultDisarms, DrivenOnlyArmed, Healthy
<1>1. CASE Granting
  BY <1>1 DEF Granting, Frame, call
<1>2. CASE Driving
  BY <1>2 DEF Driving
<1>3. CASE Stopping
  BY <1>3 DEF Stopping, Stopped, Frame
<1>4. CASE Passing
  <2>2. (armed' <=> armed) /\ (fault' <=> fault) /\ (stopError' <=> stopError)
        /\ (needsStop' <=> needsStop) /\ (driven' <=> driven) /\ deadline' = deadline
    BY <1>4 DEF Passing
  <2>3. closed' = closed \/ (closed' = TRUE /\ ~armed)
    BY <1>4 DEF Passing
  <2>4. done' = done \/ done' = TRUE
    BY <1>4 DEF Passing
  <2> QED BY <2>2, <2>3, <2>4
<1> QED BY <1>1, <1>2, <1>3, <1>4 DEF StepShape

\* Calls: one begins inside another, returns to it, or they stay as they are.
LEMMA CallSteps ==
  ASSUME IInv, [Next]_vars
  PROVE  /\ now' = now \/ now' = now + 1
         /\ \/ pending' \in {pending, Outer}
            \/ \E c \in Commands : /\ pending' = Append(pending, c) /\ ~(c.expires > now + Watchdog)
                                   /\ now' = now
         /\ stage' = stage \/ stage' \in {"none", "observing"} \/ Len(pending') # 0
         /\ stage' = stage => pending' = pending \/ Len(pending') # 0 \/ stage = "none"
<1>1. ASSUME NEW rest \in Seq(Commands), Return(rest)
      PROVE  pending' = rest /\ (stage' = "none" \/ Len(pending') # 0)
  <2>1. rest # <<>> => Len(rest) # 0
    BY <1>1
  <2> QED BY <1>1, <2>1 DEF Return
<1>2. Outer \in Seq(Commands) /\ pending \in Seq(Commands)
  BY OuterIs DEF IInv, TypeOK
<1>3. ASSUME NEW t \in Threads, NEW bad \in BOOLEAN,
             NEW seq \in 1..MaxSeq, NEW expires \in 0..(MaxNow + 1),
             CommandBegin(t, [seq |-> seq, expires |-> expires], bad)
      PROVE  \/ UNCHANGED <<now, pending, stage>>
             \/ \E c \in Commands : /\ pending' = Append(pending, c) /\ ~(c.expires > now + Watchdog)
                                    /\ now' = now /\ Len(pending') # 0
  <2>1. [seq |-> seq, expires |-> expires] \in Commands
    BY GuardAssumption DEF Commands
  <2>2. CASE UNCHANGED call
    BY <1>3, <2>2 DEF CommandBegin, call
  <2>3. CASE ~UNCHANGED call
    <3>1. pending' = Append(pending, [seq |-> seq, expires |-> expires]) /\ now' = now /\ ~(expires > now + Watchdog)
      BY <1>3, <2>3 DEF CommandBegin
    <3>2. Len(pending') # 0
      BY <1>2, <2>1, <3>1
    <3> QED BY <2>1, <3>1, <3>2
  <2> QED BY <2>2, <2>3
<1>4. ASSUME NEW ok \in BOOLEAN, NEW bad \in BOOLEAN, CommandCommit(ok, bad)
      PROVE  now' = now /\ pending' \in {pending, Outer} /\ (stage' = "none" \/ Len(pending') # 0)
  <2>1. CASE Return(Outer)
    BY <1>1, <1>2, <1>4, <2>1 DEF CommandCommit
  <2>2. CASE ~Return(Outer)
    BY <1>4, <2>2 DEF CommandCommit, IInv, CallsExact
  <2> QED BY <2>1, <2>2
<1>5. ASSUME NEW ok \in BOOLEAN, NEW bad \in BOOLEAN, CallbackEnd(ok, bad)
      PROVE  now' = now /\ pending' \in {pending, Outer} /\ (stage' = "none" \/ Len(pending') # 0)
  <2>1. CASE stage = "applying"
    BY <1>1, <1>2, <1>5, <2>1 DEF CallbackEnd
  <2>2. CASE stage # "applying"
    BY <1>1, <1>2, <1>5, <2>2 DEF CallbackEnd
  <2> QED BY <2>1, <2>2
<1>6. ASSUME NEW t \in Threads, NEW bad \in BOOLEAN, ObserveBegin(t, bad)
      PROVE  now' = now /\ pending' = pending /\ (stage' = stage \/ stage' = "observing")
  BY <1>6 DEF ObserveBegin, call
<1>7. CASE UNCHANGED call /\ (now' = now \/ now' = now + 1)
  BY <1>7 DEF call
<1>8. ASSUME NEW t \in Threads, NEW bad \in BOOLEAN, NEW ok \in BOOLEAN,
             Arm(t, ok, bad) \/ Disarm(t, ok, bad) \/ Poll(t, bad) \/ LinkLoss(t) \/ Enter(t, ok)
      PROVE  UNCHANGED call /\ now' = now
  BY <1>8 DEF Arm, Disarm, Poll, LinkLoss, Enter
<1>9. ASSUME NEW t \in Threads, NEW works \in BOOLEAN, CloseBegin(t) \/ CloseLocked(t, works)
      PROVE  UNCHANGED call /\ now' = now
  BY <1>9 DEF CloseBegin, CloseLocked
<1>10. CASE Watch \/ Tick \/ UNCHANGED vars
  BY <1>7, <1>10 DEF Watch, MonitorPoll, MonitorEnd, Tick, vars
<1>11. CASE LockedCall
  BY <1>3, <1>6, <1>7, <1>8, <1>11 DEF LockedCall
<1>12. CASE CallbackReturns
  BY <1>4, <1>5, <1>12 DEF CallbackReturns
<1>13. CASE \E t \in Threads : CloseBegin(t) \/ CloseStep(t)
  BY <1>7, <1>9, <1>13 DEF CloseStep
<1> QED BY <1>10, <1>11, <1>12, <1>13 DEF Next

LEMMA CallsKept ==
  ASSUME IInv, [Next]_vars
  PROVE  CallsExact'
<1>1. now \in Nat /\ now' \in Nat /\ now <= now' /\ Watchdog \in Nat /\ pending \in Seq(Commands)
  BY CallSteps, GuardAssumption DEF IInv, TypeOK
<1>2. \A i \in 1..Len(pending) : pending[i].expires \in Nat /\ pending[i].expires <= now' + Watchdog
  <2> SUFFICES ASSUME NEW i \in 1..Len(pending)
               PROVE  pending[i].expires \in Nat /\ pending[i].expires <= now' + Watchdog
    OBVIOUS
  <2>1. pending[i] \in Commands
    BY <1>1
  <2>2. pending[i].expires \in Nat /\ pending[i].expires <= now + Watchdog
    BY <2>1 DEF IInv, CallsExact, Commands
  <2> QED BY <1>1, <2>2
<1>3. \A i \in 1..Len(pending') : pending'[i].expires <= now' + Watchdog
  <2>1. CASE pending' = pending
    BY <1>2, <2>1
  <2>2. CASE pending' = Outer
    BY <1>1, <1>2, <2>2, OuterIs
  <2>3. ASSUME NEW c \in Commands, pending' = Append(pending, c), ~(c.expires > now + Watchdog)
        PROVE  \A i \in 1..Len(pending') : pending'[i].expires <= now' + Watchdog
    <3>1. c.expires \in Nat /\ c.expires <= now' + Watchdog
      BY <1>1, <2>3 DEF Commands
    <3>2. \A i \in 1..Len(pending') : pending'[i] = c \/ (i \in 1..Len(pending) /\ pending'[i] = pending[i])
      BY <1>1, <2>3
    <3> QED BY <1>2, <3>1, <3>2
  <2> QED BY <2>1, <2>2, <2>3, CallSteps
<1>4. stage' \in {"validating", "applying"} => Len(pending') # 0
  BY CallSteps DEF IInv, CallsExact
<1> QED BY <1>3, <1>4 DEF CallsExact

LEMMA InitInv == Init => IInv
<1> SUFFICES ASSUME Init PROVE IInv
  OBVIOUS
<1>1. TypeOK
  <2>1. pending \in Seq(Commands)
    BY DEF Init
  <2> QED BY <2>1 DEF Init, TypeOK
<1>2. Lifecycle /\ CallsExact /\ FaultDisarms /\ DrivenOnlyArmed
  BY DEF Init, Lifecycle, CallsExact, FaultDisarms, DrivenOnlyArmed, Healthy
<1> QED BY <1>1, <1>2 DEF IInv

LEMMA NextInv == IInv /\ [Next]_vars => IInv'
BY NextShape, ShapeInv, NextType, CallsKept DEF IInv

\* Every reachable state satisfies the inductive invariant.
THEOREM Inductive == Spec => []IInv
BY InitInv, NextInv, PTL DEF Spec

\* The state keeps its types.
THEOREM TypeCorrect == Spec => []TypeOK
<1>1. IInv => TypeOK
  BY DEF IInv
<1> QED BY <1>1, Inductive, PTL

\* Outputs are driven only by an armed guard, or a failed stop is on record;
\* a faulted or closed guard is disarmed.
THEOREM NeverDrivenDisarmed == Spec => [](DrivenOnlyArmed /\ FaultDisarms)
<1>1. IInv => DrivenOnlyArmed /\ FaultDisarms
  BY DEF IInv
<1> QED BY <1>1, Inductive, PTL

\* A fault is final: nothing clears it, and nothing is driven after it.
THEOREM FaultsAreFinal == Spec => FaultIsFinal
<1>1. ASSUME IInv, [Next]_vars, fault \/ closed
      PROVE  (fault => fault') /\ (closed => closed') /\ (driven' => driven)
  <2>1. ~armed /\ ~Healthy
    BY <1>1 DEF IInv, FaultDisarms, Healthy
  <2>2. Stopping \/ Passing
    BY <1>1, <2>1, NextShape DEF StepShape, Granting, Driving
  <2>3. CASE Stopping
    <3>1. closed' = closed \/ closed' = TRUE
      BY <2>3 DEF Stopping
    <3>2. (fault' = fault \/ fault' = TRUE) /\ (driven' = driven \/ driven' = FALSE)
      BY <2>3 DEF Stopping, Stopped
    <3> QED BY <3>1, <3>2
  <2>4. CASE Passing
    <3>1. closed' = closed \/ closed' = TRUE
      BY <2>4 DEF Passing
    <3>2. fault' = fault /\ driven' = driven
      BY <2>4 DEF Passing
    <3> QED BY <3>1, <3>2
  <2> QED BY <2>2, <2>3, <2>4
<1> QED BY <1>1, Inductive, PTL DEF FaultIsFinal, Spec

\* Commands are applied within the running lease, in increasing order, and
\* nothing else extends it.
THEOREM CommandsAreFresh == Spec => FreshCommandsOnly
<1>1. ASSUME IInv, [Next]_vars,
             \/ driven' /\ ~driven
             \/ lastSeq' # lastSeq
             \/ armed /\ armed' /\ deadline' # deadline
      PROVE  /\ lastSeq' > lastSeq
             /\ armed /\ now < deadline
             /\ now < deadline' /\ deadline' <= now + Watchdog
  <2>1. Driving
    BY <1>1, NextShape DEF StepShape, Granting, Frame, Stopping, Stopped, Passing, IInv, TypeOK, Healthy
  <2>2. now \in Nat /\ deadline \in Nat
    BY <1>1 DEF IInv, TypeOK
  <2> QED BY <1>1, <2>1, <2>2, InnermostIs DEF Driving, Expired
<1> QED BY <1>1, Inductive, PTL DEF FreshCommandsOnly, Spec

-----------------------------------------------------------------------------
(* Refinement: the guard implements the abstract lease.                    *)

LEMMA InitPromise == Init => Promise!Init
BY DEF Init, Promise!Init

LEMMA NextPromise ==
  ASSUME IInv, IInv', [Next]_vars
  PROVE  [Promise!Next]_(Promise!leaseVars)
<1> DEFINE m == IF fault \/ closed THEN "faulted" ELSE IF armed THEN "granted" ELSE "safe"
<1> USE DEF Promise!leaseVars, Promise!Next
<1>0. /\ armed => m = "granted" /\ ~fault /\ ~closed
      /\ armed' => m' = "granted" /\ ~fault' /\ ~closed'
      /\ ~armed => deadline = 0 /\ m \in {"safe", "faulted"}
      /\ ~armed' => m' \in {"safe", "faulted"}
      /\ now \in Nat /\ driven \in BOOLEAN /\ stopError \in BOOLEAN
  BY DEF IInv, Lifecycle, Healthy, TypeOK
<1>1. CASE Granting
  BY <1>0, <1>1 DEF Granting, Frame, Promise!Grant, Healthy, call
<1>2. CASE Driving
  <2>1. Innermost.expires \in (now + 1)..(now + Watchdog) /\ Innermost.seq \in Nat
    <3>1. Watchdog \in Nat
      BY GuardAssumption
    <3> QED BY <1>0, <1>2, <3>1, InnermostIs DEF Driving
  <2>2. now < deadline
    BY <1>0, <1>2 DEF Driving, Expired, IInv, TypeOK
  <2> QED BY <1>0, <1>2, <2>1, <2>2 DEF Driving, Promise!Drive
<1>3. CASE Stopping
  <2>1. CASE armed
    <3>1. m = "granted" /\ deadline' = 0 /\ now' = now /\ ~stopError
      BY <1>0, <1>3, <2>1 DEF Stopping, Stopped, Frame, IInv, FaultDisarms
    <3>2. CASE driven' = FALSE /\ stopError' = stopError
      <4>1. m' = "faulted" \/ (m' = "safe" /\ now < deadline)
        <5>1. now \in Nat /\ deadline \in Nat
          BY DEF IInv, TypeOK
        <5>2. m' = "faulted" \/ (m' = "safe" /\ ~Expired)
          BY <1>0, <1>3, <2>1, <3>1 DEF Stopping, Stopped
        <5> QED BY <2>1, <5>1, <5>2 DEF Expired
      <4> QED BY <1>0, <1>3, <3>1, <3>2, <4>1 DEF Stopping, Stopped, Frame, Promise!Revoke
    <3>3. CASE stopError' = TRUE /\ driven' \in {driven, FALSE}
      <4>1. m' = "faulted"
        BY <1>3, <3>1, <3>3 DEF Stopping, Stopped
      <4>2. lastSeq' = lastSeq
        BY <1>3 DEF Stopping, Frame
      <4> QED BY <3>1, <3>3, <4>1, <4>2 DEF Promise!Revoke
    <3> QED BY <1>3, <3>2, <3>3 DEF Stopping, Stopped
  <2>2. CASE ~armed
    BY <1>0, <1>3, <2>2 DEF Stopping, Stopped, Frame, Promise!Fault
  <2> QED BY <2>1, <2>2
<1>4. CASE Passing
  <2>1. CASE UNCHANGED <<now, closed>>
    BY <1>0, <1>4, <2>1 DEF Passing
  <2>2. CASE now' = now + 1 /\ closed' = closed
    BY <1>0, <1>4, <2>2 DEF Passing, Promise!Tick
  <2>3. CASE closed' = TRUE /\ ~armed /\ now' = now
    BY <1>0, <1>4, <2>3 DEF Passing, Promise!Fault
  <2> QED BY <1>4, <2>1, <2>2, <2>3 DEF Passing
<1> QED BY <1>1, <1>2, <1>3, <1>4, NextShape DEF StepShape

\* The guard, with every failure and interleaving, keeps its promise.
THEOREM GuardImplementsLease == Spec => KeepsPromise
BY InitPromise, NextPromise, Inductive, PTL DEF Spec, KeepsPromise, Promise!Spec

-----------------------------------------------------------------------------
(* What is accepted of an operator, and what is made of it later.          *)

LEMMA PeerIsAt ==
  ASSUME NEW P, NEW node, node.peers \in Seq(P), NEW pin
  PROVE  LET at == PeerAt(node, pin)
         IN  /\ at # 0 => at \in DOMAIN node.peers /\ node.peers[at].pin = pin
             /\ at = 0 => \A i \in DOMAIN node.peers : node.peers[i].pin # pin
<1> DEFINE peers == node.peers
           I == {i \in 1..Len(peers) : peers[i].pin = pin}
<1>1. PeerAt(node, pin) = (IF I # {} THEN Min(I) ELSE 0)
  BY DEF PeerAt, SelectInSeq
<1>2. I \in SUBSET (1..Len(peers)) /\ Len(peers) \in Nat /\ DOMAIN peers = 1..Len(peers)
  OBVIOUS
<1>3. I # {} => Min(I) \in I
  <2> HIDE DEF I
  <2> QED BY <1>2, FirstOne
<1> QED BY <1>1, <1>2, <1>3

\* The names and pins of an accepted configuration are all different.
LEMMA NamesDiffer ==
  ASSUME NEW P, NEW node, node.peers \in Seq(P), NodeAccepted(node)
  PROVE  /\ \A i \in DOMAIN node.peers : node.peers[i].id # node.id
         /\ \A i, j \in DOMAIN node.peers :
               node.peers[i].id = node.peers[j].id \/ node.peers[i].pin = node.peers[j].pin => i = j
<1> DEFINE peers == node.peers
           ids == [i \in DOMAIN peers |-> peers[i].id]
           pins == [i \in DOMAIN peers |-> peers[i].pin]
           all == <<node.id>> \o ids
<1>1. IsInjective(all) /\ IsInjective(pins)
  BY DEF NodeAccepted, Distinct, Unique, Firsts
<1>2. DOMAIN peers = 1..Len(peers) /\ Len(peers) \in Nat
  OBVIOUS
<1>3. ids \in Seq({peers[i].id : i \in DOMAIN peers}) /\ Len(ids) = Len(peers)
  BY <1>2
<1>4. /\ DOMAIN all = 1..(Len(peers) + 1) /\ all[1] = node.id
      /\ \A i \in DOMAIN peers : all[i + 1] = peers[i].id
  BY <1>2, <1>3
<1> HIDE DEF all, ids
<1>5. \A a, b \in DOMAIN all : all[a] = all[b] => a = b
  BY <1>1 DEF IsInjective
<1>6. \A a, b \in DOMAIN peers : pins[a] = pins[b] => a = b
  BY <1>1 DEF IsInjective
<1>7. ASSUME NEW i \in DOMAIN peers PROVE peers[i].id # node.id
  <2>1. i + 1 \in DOMAIN all /\ 1 \in DOMAIN all /\ i + 1 # 1
    BY <1>2, <1>4
  <2> QED BY <1>4, <1>5, <2>1
<1>8. ASSUME NEW i \in DOMAIN peers, NEW j \in DOMAIN peers, peers[i].id = peers[j].id PROVE i = j
  <2>1. i + 1 \in DOMAIN all /\ j + 1 \in DOMAIN all /\ i \in Nat /\ j \in Nat
    BY <1>2, <1>4
  <2>2. i + 1 = j + 1
    BY <1>4, <1>5, <1>8, <2>1
  <2> QED BY <2>1, <2>2
<1> QED BY <1>6, <1>7, <1>8

\* An accepted configuration gives every other node one certificate and
\* every certificate one node, however many peers it lists and whatever
\* certificates are shown to it.
THEOREM PeersAreNamed ==
  ASSUME NEW P, NEW node, node.peers \in Seq(P), NEW certs
  PROVE  PeersNamed(node, certs)
<1> SUFFICES ASSUME NodeAccepted(node) PROVE PeersNamed(node, certs)
  BY DEF PeersNamed
<1> DEFINE Of(c) == AuthorizedPeer(node, c, Rejected)
<1>1. ASSUME NEW c, NEW e, AuthorizedPeer(node, c, e) # Rejected
      PROVE  \E i \in DOMAIN node.peers :
                /\ node.peers[i].pin = c.pin /\ c.names = <<node.peers[i].id>>
                /\ AuthorizedPeer(node, c, e) = node.peers[i].id
  <2>1. /\ PeerAt(node, c.pin) # 0 /\ c.names = <<node.peers[PeerAt(node, c.pin)].id>>
        /\ AuthorizedPeer(node, c, e) = node.peers[PeerAt(node, c.pin)].id
    BY <1>1 DEF AuthorizedPeer
  <2> QED BY <2>1, PeerIsAt
<1>2. ASSUME NEW c \in certs, Of(c) # Rejected PROVE Of(c) # node.id /\ ~LocalIdentity(node, c)
  <2>1. PICK i \in DOMAIN node.peers : c.names = <<node.peers[i].id>> /\ Of(c) = node.peers[i].id
    BY <1>1, <1>2
  <2>2. node.peers[i].id # node.id
    BY NamesDiffer
  <2> QED BY <2>1, <2>2 DEF LocalIdentity
<1>3. ASSUME NEW c \in certs, NEW d \in certs, Of(c) # Rejected, Of(c) = Of(d) PROVE c.pin = d.pin
  <2>1. PICK i \in DOMAIN node.peers : node.peers[i].pin = c.pin /\ Of(c) = node.peers[i].id
    BY <1>1, <1>3
  <2>2. PICK j \in DOMAIN node.peers : node.peers[j].pin = d.pin /\ Of(d) = node.peers[j].id
    BY <1>1, <1>3
  <2>3. i = j
    BY <1>3, <2>1, <2>2, NamesDiffer
  <2> QED BY <2>1, <2>2, <2>3
<1>4. ASSUME NEW i \in DOMAIN node.peers, NEW e \in {Rejected, node.peers[i].id}
      PROVE  AuthorizedPeer(node, [pin |-> node.peers[i].pin, names |-> <<node.peers[i].id>>, trusted |-> TRUE], e)
                = node.peers[i].id
  <2> DEFINE at == PeerAt(node, node.peers[i].pin)
  <2>1. at # 0 /\ at \in DOMAIN node.peers /\ node.peers[at].pin = node.peers[i].pin
    BY PeerIsAt
  <2>2. at = i
    BY <2>1, NamesDiffer
  <2>3. i # 0
    BY <2>1, <2>2
  <2> QED BY <2>2, <2>3 DEF AuthorizedPeer
<1> HIDE DEF Of
<1> QED BY <1>2, <1>3, <1>4 DEF PeersNamed, Of

\* Whatever a node may send within the common limit, the other one reads.
THEOREM PacketsAlwaysFit == \A payload \in Nat : PacketsFit(payload)
BY DEF PacketsFit, ReadPacket, Limit, PrefixSize

\* A model is open exactly while it can be asked, whatever it computes: an
\* answer is a class it has, and bytes follow only one that is neither empty
\* nor doubtful.
THEOREM AnswersAreOwned ==
  ASSUME NEW h, NEW length, NEW scores \in Seq(Int)
  PROVE  BrainOwned(h, length, scores)
<1> DEFINE answer == Infer(h, length, scores)
           Highest == {i \in DOMAIN scores : \A j \in DOMAIN scores : scores[j] <= scores[i]}
           top == Min(Highest)
<1>1. Handler(h) = "serving" \/ Handler(h) = "closed"
  BY DEF Handler
<1>2. ASSUME answer # Rejected, Len(scores) = h.outputs
      PROVE  /\ answer.class \in 0..(h.outputs - 1)
             /\ answer.bytes > 0 => answer.class # h.empty /\ scores[answer.class + 1] \in h.threshold..100
  <2>1. /\ Handler(h) = "serving" /\ scores # <<>> /\ scores[top] \in 0..100
        /\ answer = IF top - 1 # h.empty /\ scores[top] >= h.threshold
                     THEN [class |-> top - 1, bytes |-> 8] ELSE [class |-> top - 1, bytes |-> 0]
    BY <1>2 DEF Infer
  <2> HIDE DEF answer, top
  <2>2. h.threshold \in 0..100
    BY <2>1 DEF Handler, HandlerOptions
  <2>3. DOMAIN scores = 1..Len(scores) /\ Len(scores) \in Nat /\ DOMAIN scores # {}
    <3>1. h.outputs >= 1
      BY <2>1 DEF Handler, HandlerShape
    <3>2. Len(scores) \in Nat /\ Len(scores) >= 1
      BY <1>2, <3>1
    <3>3. DOMAIN scores = 1..Len(scores)
      OBVIOUS
    <3>4. 1 \in 1..Len(scores)
      BY <3>2
    <3> QED BY <3>2, <3>3, <3>4
  <2>4. top \in DOMAIN scores
    <3>1. Highest # {}
      <4> DEFINE low == [i \in DOMAIN scores |-> -scores[i]]
      <4>1. IsFiniteSet(DOMAIN scores)
        BY <2>3, FS_Interval
      <4>2. \A i \in DOMAIN scores : low[i] \in Int /\ scores[i] \in Int /\ low[i] = -scores[i]
        OBVIOUS
      <4>3. \E m \in DOMAIN scores : \A o \in DOMAIN scores : low[m] <= low[o]
        <5> HIDE DEF low
        <5> QED BY <2>3, <4>1, <4>2, Smallest
      <4>4. ASSUME NEW m \in DOMAIN scores, NEW o \in DOMAIN scores, low[m] <= low[o] PROVE scores[o] <= scores[m]
        BY <4>2, <4>4
      <4> QED BY <4>3, <4>4
    <3>2. Highest \in SUBSET (1..Len(scores))
      BY <2>3
    <3>3. Min(Highest) \in Highest
      <4> HIDE DEF Highest
      <4> QED BY <2>3, <3>1, <3>2, FirstOne
    <3> QED BY <3>3 DEF top
  <2>5. top \in 1..Len(scores) /\ answer.class = top - 1 /\ answer.class + 1 = top
    BY <2>1, <2>3, <2>4
  <2>6. answer.bytes > 0 => top - 1 # h.empty /\ scores[top] >= h.threshold
    BY <2>1
  <2>7. answer.class \in 0..(h.outputs - 1)
    BY <1>2, <2>3, <2>5
  <2>8. scores[top] >= h.threshold => scores[top] \in h.threshold..100
    <3>1. \A v \in 0..100 : v >= h.threshold => v \in h.threshold..100
      BY <2>2
    <3> QED BY <2>1, <3>1
  <2> QED BY <2>5, <2>6, <2>7, <2>8
<1> HIDE DEF answer
<1> QED BY <1>1, <1>2 DEF BrainOwned, answer

-----------------------------------------------------------------------------
(* The robot profile.                                                      *)

\* Whatever is driven was asked for, for every profile and all outputs: one
\* value for each channel, within the limits of its motor and inverted once;
\* and a file that does not say so never moves a motor.
THEOREM DrivenAsAsked ==
  ASSUME NEW fields, NEW value \in ProfileForm, NEW outputs
  PROVE  DrivenWithinLimits(fields, value, outputs)
<1> DEFINE p == FromDict(fields, value)
           checked == CheckedOutputs(p, outputs)
           drives == MapMotorOutputs(p, outputs)
<1> SUFFICES ASSUME p # Rejected
             PROVE  /\ ~p.dry_run => "dry_run" \in fields
                    /\ drives # Rejected =>
                          /\ Cardinality({d[1].reads : d \in drives}) = Len(p.motors)
                          /\ \A m \in Range(p.motors) : \E d \in drives :
                                /\ d[1] = m.channel /\ d[2] \in m.min..m.max /\ outputs[m.id] \in m.min..m.max
                                /\ d[2] = IF m.inverted THEN -outputs[m.id] ELSE outputs[m.id]
                          /\ MapMotorOutputs(p, checked) = drives
  BY DEF DrivenWithinLimits
<1>1. /\ ProfileAccepted(p) /\ p.motors \in {value.motors, <<>>}
      /\ p.dry_run = IF "dry_run" \in fields THEN value.dry_run ELSE TRUE
  BY DEF FromDict, ProfileForm
<1> HIDE DEF p
<1>2. ASSUME drives # Rejected
      PROVE  /\ checked = outputs /\ p.motors # <<>>
             /\ \A i \in DOMAIN p.motors : Mappable(p.motors[i], outputs[p.motors[i].id])
             /\ drives = {<<m.channel, Physical(m, outputs[m.id])>> : m \in Range(p.motors)}
  BY <1>2 DEF MapMotorOutputs, CheckedOutputs
<1>3. ASSUME drives # Rejected
      PROVE  Cardinality({d[1].reads : d \in drives}) = Len(p.motors)
  <2> DEFINE reads == [i \in DOMAIN p.motors |-> p.motors[i].channel.reads]
             n == Len(p.motors)
  <2>1. DOMAIN p.motors = 1..n /\ n \in Nat
    BY <1>1 DEF ProfileForm
  <2>2. IsInjective(reads) /\ DOMAIN reads = 1..n
    BY <1>1, <2>1 DEF ProfileAccepted, ChannelsDistinct, Unique, Firsts
  <2>3. {d[1].reads : d \in drives} = {reads[i] : i \in 1..n}
    <3>1. \A i \in 1..n : reads[i] = p.motors[i].channel.reads
      BY <2>1
    <3>2. Range(p.motors) = {p.motors[i] : i \in 1..n}
      BY <2>1 DEF Range
    <3>3. {d[1].reads : d \in drives} = {m.channel.reads : m \in Range(p.motors)}
      <4> HIDE DEF drives, checked, n
      <4>1. drives = {<<m.channel, Physical(m, outputs[m.id])>> : m \in Range(p.motors)}
        BY <1>2, <1>3
      <4>2. \A m \in Range(p.motors) : <<m.channel, Physical(m, outputs[m.id])>>[1].reads = m.channel.reads
        OBVIOUS
      <4> QED BY <4>1, <4>2
    <3> HIDE DEF drives, reads, n
    <3>4. {m.channel.reads : m \in {p.motors[i] : i \in 1..n}} = {p.motors[i].channel.reads : i \in 1..n}
      OBVIOUS
    <3>5. {p.motors[i].channel.reads : i \in 1..n} = {reads[i] : i \in 1..n}
      BY <3>1
    <3> QED BY <3>2, <3>3, <3>4, <3>5
  <2>4. Cardinality({reads[i] : i \in 1..n}) = n
    <3> HIDE DEF reads, n
    <3> QED BY <2>1, <2>2, AllDifferent
  <2> QED BY <2>3, <2>4
<1>4. ASSUME drives # Rejected, NEW m \in Range(p.motors)
      PROVE  \E d \in drives : /\ d[1] = m.channel /\ d[2] \in m.min..m.max /\ outputs[m.id] \in m.min..m.max
                               /\ d[2] = IF m.inverted THEN -outputs[m.id] ELSE outputs[m.id]
  <2>1. Mappable(m, outputs[m.id])
    BY <1>2, <1>4 DEF Range
  <2>2. <<m.channel, Physical(m, outputs[m.id])>> \in drives
    BY <1>2, <1>4
  <2> QED BY <2>1, <2>2 DEF Mappable, Physical
<1> HIDE DEF drives, checked
<1>5. drives # Rejected => MapMotorOutputs(p, checked) = drives
  BY <1>2 DEF drives
<1> QED BY <1>1, <1>3, <1>4, <1>5

\* What a runtime relies on once its configuration is accepted holds for
\* every configuration, packet size, model and profile it may be given.
THEOREM ConfigsAreSound == Asked => ConfigSound
<1> SUFFICES ASSUME Asked PROVE ConfigSound
  OBVIOUS
<1>1. ASSUME input.kind = "node" PROVE PeersNamed(input.node, input.certs)
  BY <1>1, PeersAreNamed DEF Asked
<1>2. ASSUME input.kind = "packets" PROVE PacketsFit(input.payload)
  BY <1>2, PacketsAlwaysFit DEF Asked
<1>3. ASSUME input.kind = "handler" PROVE BrainOwned(input.h, input.length, input.scores)
  BY <1>3, AnswersAreOwned DEF Asked
<1>4. ASSUME input.kind = "profile" PROVE DrivenWithinLimits(input.fields, input.p, input.outputs)
  BY <1>4, DrivenAsAsked DEF Asked
<1> QED BY <1>1, <1>2, <1>3, <1>4 DEF ConfigSound

-----------------------------------------------------------------------------
(* The tiles of a matrix product.                                          *)

\* Only one interval from a multiple to the next one has a given number.
LEMMA OneInterval ==
  ASSUME NEW d \in Nat \ {0}, NEW a \in Nat, NEW b \in Nat, a % d = 0, b % d = 0,
         NEW x \in Nat, a <= x, x < a + d, b <= x, x < b + d
  PROVE  a = b
<1>1. ASSUME a < b PROVE FALSE
  <2>1. a + d <= b
    BY <1>1, MultiplesApart
  <2> QED BY <2>1
<1>2. ASSUME b < a PROVE FALSE
  <2>1. b + d <= a
    BY <1>2, MultiplesApart
  <2> QED BY <2>1
<1> QED BY <1>1, <1>2

\* Every row is in one tile of rows.
LEMMA RowsTiled ==
  ASSUME NEW M \in Nat
  PROVE  /\ \A r \in RowTiles(M) : r[1] \in Nat /\ r[2] \in Nat \ {0} /\ r[1] + r[2] <= M
         /\ \A i \in 0..(M - 1) : \E r \in RowTiles(M) :
               /\ i \in r[1]..(r[1] + r[2] - 1)
               /\ \A s \in RowTiles(M) : i \in s[1]..(s[1] + s[2] - 1) => s = r
<1> DEFINE full == M - (M % MR)
<1>1. MR \in Nat \ {0}
  BY EngineAssumption
<1>2. full \in Nat /\ full % MR = 0 /\ full <= M /\ M < full + MR
  BY <1>1, Below
<1>3. ASSUME NEW r \in RowTiles(M)
      PROVE  \/ r[1] \in Nat /\ r[1] % MR = 0 /\ r[2] = MR /\ r[1] + MR <= full /\ r = <<r[1], MR>>
             \/ r[1] \in full..(M - 1) /\ r[2] = 1 /\ r = <<r[1], 1>>
  <2>1. CASE \E i \in 0..(M - MR) : i % MR = 0 /\ r = <<i, MR>>
    <3>1. PICK i \in 0..(M - MR) : i % MR = 0 /\ r = <<i, MR>>
      BY <2>1
    <3> HIDE DEF full
    <3>2. i \in Nat /\ i + MR <= M
      BY <1>1, <3>1
    <3>3. i < full
      <4> SUFFICES ASSUME full <= i PROVE FALSE
        BY <1>2, <3>2
      <4> QED BY <1>1, <1>2, <3>2
    <3>4. i + MR <= full
      BY <1>1, <1>2, <3>1, <3>2, <3>3, MultiplesApart
    <3> QED BY <3>1, <3>2, <3>4
  <2>2. CASE \E i \in full..(M - 1) : r = <<i, 1>>
    BY <2>2
  <2> QED BY <1>3, <2>1, <2>2 DEF RowTiles
<1>4. ASSUME NEW i \in 0..(M - 1)
      PROVE  \E r \in RowTiles(M) : /\ i \in r[1]..(r[1] + r[2] - 1)
                                    /\ \A s \in RowTiles(M) : i \in s[1]..(s[1] + s[2] - 1) => s = r
  <2>0. i \in Nat /\ i < M
    OBVIOUS
  <2>1. CASE i < full
    <3> DEFINE a == i - (i % MR)
               r == <<a, MR>>
    <3>1. a \in Nat /\ a % MR = 0 /\ a <= i /\ i < a + MR
      BY <1>1, <2>0, Below
    <3> HIDE DEF a, full
    <3>2. a + MR <= full
      <4>1. a < full
        BY <1>2, <2>0, <2>1, <3>1
      <4> QED BY <1>1, <1>2, <3>1, <4>1, MultiplesApart
    <3>3. a \in 0..(M - MR)
      BY <1>1, <1>2, <3>1, <3>2
    <3>4. r \in RowTiles(M)
      BY <3>1, <3>3 DEF RowTiles
    <3>5. i \in r[1]..(r[1] + r[2] - 1)
      BY <1>1, <2>0, <3>1
    <3>6. ASSUME NEW s \in RowTiles(M), i \in s[1]..(s[1] + s[2] - 1) PROVE s = r
      <4>1. CASE s[1] \in Nat /\ s[1] % MR = 0 /\ s[2] = MR /\ s = <<s[1], MR>>
        <5>1. s[1] <= i /\ i < s[1] + MR
          BY <1>1, <2>0, <3>6, <4>1
        <5>2. s[1] = a
          BY <1>1, <2>0, <3>1, <4>1, <5>1, OneInterval
        <5> QED BY <4>1, <5>2
      <4>2. CASE s[1] \in full..(M - 1)
        BY <1>2, <2>0, <2>1, <3>6, <4>2
      <4> QED BY <1>3, <3>6, <4>1, <4>2
    <3> QED BY <3>4, <3>5, <3>6
  <2>2. CASE full <= i
    <3> DEFINE r == <<i, 1>>
    <3> HIDE DEF full
    <3>1. r \in RowTiles(M)
      BY <1>2, <2>0, <2>2 DEF RowTiles, full
    <3>2. i \in r[1]..(r[1] + r[2] - 1)
      BY <2>0
    <3>3. ASSUME NEW s \in RowTiles(M), i \in s[1]..(s[1] + s[2] - 1) PROVE s = r
      <4>1. CASE s[1] \in Nat /\ s[2] = MR /\ s[1] + MR <= full
        BY <1>1, <1>2, <2>0, <2>2, <3>3, <4>1
      <4>2. CASE s[1] \in full..(M - 1) /\ s[2] = 1 /\ s = <<s[1], 1>>
        <5>1. s[1] = i
          BY <1>2, <2>0, <3>3, <4>2
        <5> QED BY <4>2, <5>1
      <4> QED BY <1>3, <3>3, <4>1, <4>2
    <3> QED BY <3>1, <3>2, <3>3
  <2> HIDE DEF full
  <2> QED BY <1>2, <2>0, <2>1, <2>2
<1>5. ASSUME NEW r \in RowTiles(M) PROVE r[1] \in Nat /\ r[2] \in Nat \ {0} /\ r[1] + r[2] <= M
  <2> HIDE DEF full
  <2> QED BY <1>1, <1>2, <1>3, <1>5
<1> QED BY <1>4, <1>5

\* Every number is in the interval of one multiple.
LEMMA NumbersTiled ==
  ASSUME NEW d \in Nat \ {0}, NEW n \in Nat, NEW x \in 0..(n - 1)
  PROVE  \E a \in 0..(n - 1) :
            /\ a % d = 0 /\ a <= x /\ x < a + d
            /\ \A b \in 0..(n - 1) : b % d = 0 /\ b <= x /\ x < b + d => b = a
<1> DEFINE a == x - (x % d)
<1>1. a \in Nat /\ a % d = 0 /\ a <= x /\ x < a + d
  BY Below
<1> HIDE DEF a
<1>2. a \in 0..(n - 1)
  BY <1>1
<1>3. ASSUME NEW b \in 0..(n - 1), b % d = 0, b <= x, x < b + d PROVE b = a
  <2>1. b \in Nat /\ x \in Nat
    OBVIOUS
  <2> QED BY <1>1, <1>3, <2>1, OneInterval
<1> QED BY <1>1, <1>2, <1>3

\* Tiled multiplication stays inside its matrices and computes every cell
\* from every product exactly once, starting it afresh in the first K block:
\* for any matrices, however the sizes of the tiles divide them.
THEOREM TilesAreExact == \A M, N, K \in Nat : TilesExact(M, N, K)
<1> SUFFICES ASSUME NEW M \in Nat, NEW N \in Nat, NEW K \in Nat
             PROVE  TilesExact(M, N, K)
  OBVIOUS
<1> DEFINE full == N - (N % NR)
           Blocks == {k0 \in 0..(K - 1) : k0 % KC = 0}
           Cols == {<<j, NR>> : j \in {j \in 0..(full - 1) : j % NR = 0}}
           Tile(k0, r, c) == [k0 |-> k0, kc |-> IF KC < K - k0 THEN KC ELSE K - k0,
                              i |-> r[1], rows |-> r[2], j |-> c[1], cols |-> c[2],
                              accumulate |-> k0 > 0]
           Joined(t) == \E k0 \in Blocks, r \in RowTiles(M), c \in Cols : t = Tile(k0, r, c)
           Left(t) == full < N /\ \E k0 \in Blocks : t = Tile(k0, <<0, M>>, <<full, N - full>>)
           In(t, i, j, k) == /\ i \in t.i..(t.i + t.rows - 1) /\ j \in t.j..(t.j + t.cols - 1)
                             /\ k \in t.k0..(t.k0 + t.kc - 1)
<1>1. MR \in Nat \ {0} /\ NR \in Nat \ {0} /\ KC \in Nat \ {0}
  BY EngineAssumption
<1>2. full \in Nat /\ full % NR = 0 /\ full <= N /\ N < full + NR
  BY <1>1, Below
<1>3. \A t : t \in Tiles(M, N, K) <=> Joined(t) \/ Left(t)
  BY DEF Tiles
<1> HIDE DEF full
\* The three ranges of a tile.
<1>4. ASSUME NEW k0 \in Blocks
      PROVE  LET kc == IF KC < K - k0 THEN KC ELSE K - k0 IN
             /\ k0 \in Nat /\ k0 % KC = 0 /\ k0 + kc <= K
             /\ \A k \in 0..(K - 1) : k \in k0..(k0 + kc - 1) <=> k0 <= k /\ k < k0 + KC
  BY <1>1
<1>5. ASSUME NEW c \in Cols
      PROVE  c[1] \in 0..(full - 1) /\ c[1] % NR = 0 /\ c[2] = NR /\ c = <<c[1], NR>> /\ c[1] + NR <= full
  <2>1. PICK j \in 0..(full - 1) : j % NR = 0 /\ c = <<j, NR>>
    OBVIOUS
  <2>2. j \in Nat /\ j < full
    BY <1>2
  <2>3. j + NR <= full
    BY <1>1, <1>2, <2>1, <2>2, MultiplesApart
  <2> QED BY <2>1, <2>3
<1>6. ASSUME NEW t, Joined(t) \/ Left(t)
      PROVE  t.i + t.rows <= M /\ t.j + t.cols <= N /\ t.k0 + t.kc <= K /\ (t.accumulate <=> t.k0 # 0)
  <2>1. CASE Joined(t)
    <3>1. PICK k0 \in Blocks, r \in RowTiles(M), c \in Cols : t = Tile(k0, r, c)
      BY <2>1
    <3>2. r[1] + r[2] <= M
      BY RowsTiled
    <3>3. c[1] + c[2] <= N
      BY <1>1, <1>2, <1>5
    <3>4. /\ t.i = r[1] /\ t.rows = r[2] /\ t.j = c[1] /\ t.cols = c[2] /\ t.k0 = k0
          /\ t.kc = (IF KC < K - k0 THEN KC ELSE K - k0) /\ t.accumulate = (k0 > 0)
      BY <3>1
    <3>5. k0 \in Nat /\ t.k0 + t.kc <= K
      <4> HIDE DEF Blocks
      <4> QED BY <1>4, <3>4
    <3>6. t.accumulate <=> t.k0 # 0
      <4>1. (k0 > 0) <=> (k0 # 0)
        BY <3>5
      <4> HIDE DEF Blocks
      <4> QED BY <3>4, <4>1, Zenon
    <3> QED BY <3>2, <3>3, <3>4, <3>5, <3>6
  <2>2. CASE Left(t)
    <3>1. PICK k0 \in Blocks : t = Tile(k0, <<0, M>>, <<full, N - full>>)
      BY <2>2
    <3>2. full + (N - full) <= N /\ 0 + M <= M
      BY <1>2
    <3>3. /\ t.i = 0 /\ t.rows = M /\ t.j = full /\ t.cols = N - full /\ t.k0 = k0
          /\ t.kc = (IF KC < K - k0 THEN KC ELSE K - k0) /\ t.accumulate = (k0 > 0)
      BY <3>1
    <3>4. k0 \in Nat /\ t.k0 + t.kc <= K
      <4> HIDE DEF Blocks
      <4> QED BY <1>4, <3>3
    <3>5. t.accumulate <=> t.k0 # 0
      <4>1. (k0 > 0) <=> (k0 # 0)
        BY <3>4
      <4> HIDE DEF Blocks
      <4> QED BY <3>3, <4>1, Zenon
    <3> QED BY <3>2, <3>3, <3>4, <3>5
  <2> QED BY <1>6, <2>1, <2>2
<1>7. ASSUME NEW i \in 0..(M - 1), NEW j \in 0..(N - 1), NEW k \in 0..(K - 1)
      PROVE  \E t : /\ Joined(t) \/ Left(t)
                   /\ In(t, i, j, k)
                   /\ \A u : (Joined(u) \/ Left(u)) /\ In(u, i, j, k) => u = t
  <2>1. PICK k0 \in Blocks : /\ k0 <= k /\ k < k0 + KC
                             /\ \A b \in Blocks : b <= k /\ k < b + KC => b = k0
    <3>1. PICK a \in 0..(K - 1) : /\ a % KC = 0 /\ a <= k /\ k < a + KC
                                  /\ \A b \in 0..(K - 1) : b % KC = 0 /\ b <= k /\ k < b + KC => b = a
      BY <1>1, NumbersTiled
    <3> QED BY <3>1
  <2>2. PICK r \in RowTiles(M) : /\ i \in r[1]..(r[1] + r[2] - 1)
                                 /\ \A s \in RowTiles(M) : i \in s[1]..(s[1] + s[2] - 1) => s = r
    BY RowsTiled
  <2>3. \A u, b, s, c : u = Tile(b, s, c) =>
            (In(u, i, j, k) <=> /\ i \in s[1]..(s[1] + s[2] - 1) /\ j \in c[1]..(c[1] + c[2] - 1)
                                /\ k \in b..(b + (IF KC < K - b THEN KC ELSE K - b) - 1))
    OBVIOUS
  <2>4. \A b \in Blocks : k \in b..(b + (IF KC < K - b THEN KC ELSE K - b) - 1) <=> b <= k /\ k < b + KC
    BY <1>4
  <2>5. \A u, b, s, c : u = Tile(b, s, c) /\ b \in Blocks =>
            (In(u, i, j, k) <=> /\ i \in s[1]..(s[1] + s[2] - 1) /\ j \in c[1]..(c[1] + c[2] - 1)
                                /\ b <= k /\ k < b + KC)
    <3> HIDE DEF In, Tile, Blocks
    <3> QED BY <2>3, <2>4
  <2>6. CASE j < full
    <3>1. PICK c \in Cols : /\ j \in c[1]..(c[1] + c[2] - 1)
                            /\ \A e \in Cols : j \in e[1]..(e[1] + e[2] - 1) => e = c
      <4>1. PICK a \in 0..(full - 1) : /\ a % NR = 0 /\ a <= j /\ j < a + NR
                                       /\ \A b \in 0..(full - 1) : b % NR = 0 /\ b <= j /\ j < b + NR => b = a
        <5>1. j \in 0..(full - 1)
          BY <1>2, <2>6
        <5> QED BY <1>1, <1>2, <5>1, NumbersTiled
      <4>2. <<a, NR>> \in Cols /\ j \in a..(a + NR - 1)
        BY <1>1, <4>1
      <4>3. ASSUME NEW e \in Cols, j \in e[1]..(e[1] + e[2] - 1) PROVE e = <<a, NR>>
        <5>1. e[1] \in 0..(full - 1) /\ e[1] % NR = 0 /\ e[2] = NR /\ e = <<e[1], NR>>
          BY <1>5
        <5> HIDE DEF Cols
        <5>2. e[1] <= j /\ j < e[1] + NR
          BY <1>1, <4>3, <5>1
        <5> QED BY <4>1, <5>1, <5>2
      <4> HIDE DEF Cols
      <4> QED BY <4>2, <4>3
    <3> DEFINE t == Tile(k0, r, c)
    <3>2. Joined(t)
      OBVIOUS
    <3> HIDE DEF Tile
    <3>3. In(t, i, j, k)
      <4> HIDE DEF In, Blocks, Cols
      <4> QED BY <2>1, <2>2, <2>5, <3>1
    <3>4. ASSUME NEW u, Joined(u), In(u, i, j, k) PROVE u = t
      <4>1. PICK b \in Blocks, s \in RowTiles(M), e \in Cols : u = Tile(b, s, e)
        BY <3>4
      <4> HIDE DEF In, Blocks, Cols
      <4>2. /\ i \in s[1]..(s[1] + s[2] - 1) /\ j \in e[1]..(e[1] + e[2] - 1)
            /\ b <= k /\ k < b + KC
        BY <2>5, <3>4, <4>1
      <4> QED BY <2>1, <2>2, <3>1, <4>1, <4>2
    <3>5. ASSUME NEW u, Left(u), In(u, i, j, k) PROVE FALSE
      <4>1. PICK b \in Blocks : u = Tile(b, <<0, M>>, <<full, N - full>>)
        BY <3>5
      <4> DEFINE e == <<full, N - full>>
                 s == <<0, M>>
      <4>2. j \in e[1]..(e[1] + e[2] - 1)
        <5>1. u = Tile(b, s, e)
          BY <4>1
        <5> HIDE DEF In, Blocks, Cols, e, s
        <5> QED BY <2>5, <3>5, <5>1
      <4> QED BY <1>2, <2>6, <4>2
    <3> HIDE DEF t, Joined, Left, In
    <3> QED BY <3>2, <3>3, <3>4, <3>5
  <2>7. CASE full <= j
    <3> DEFINE e == <<full, N - full>>
               s == <<0, M>>
               t == Tile(k0, s, e)
    <3>1. full < N /\ Left(t)
      BY <1>2, <2>7
    <3>2. i \in s[1]..(s[1] + s[2] - 1) /\ j \in e[1]..(e[1] + e[2] - 1)
      BY <1>2, <2>7
    <3>3. ASSUME NEW u, Left(u) PROVE \E b \in Blocks : u = Tile(b, s, e)
      BY <3>3
    <3> HIDE DEF Tile, e, s, Left, In, Blocks, Cols
    <3>4. In(t, i, j, k)
      BY <2>1, <2>5, <3>2
    <3>5. ASSUME NEW u, Left(u), In(u, i, j, k) PROVE u = t
      <4>1. PICK b \in Blocks : u = Tile(b, s, e)
        BY <3>3, <3>5
      <4>2. b <= k /\ k < b + KC
        BY <2>5, <3>5, <4>1
      <4> QED BY <2>1, <4>1, <4>2
    <3>6. ASSUME NEW u, Joined(u), In(u, i, j, k) PROVE FALSE
      <4>1. PICK b \in Blocks, x \in RowTiles(M), c \in Cols : u = Tile(b, x, c)
        BY <3>6
      <4>2. j \in c[1]..(c[1] + c[2] - 1)
        BY <2>5, <3>6, <4>1
      <4>3. c[1] \in 0..(full - 1) /\ c[2] = NR /\ c[1] + NR <= full
        BY <1>5
      <4> QED BY <1>1, <1>2, <2>7, <4>2, <4>3
    <3> HIDE DEF t, Joined
    <3> QED BY <3>1, <3>4, <3>5, <3>6
  <2>8. j \in Nat
    OBVIOUS
  <2> HIDE DEF Joined, Left, In
  <2> QED BY <1>2, <2>6, <2>7, <2>8
<1> HIDE DEF Joined, Left
<1>8. \A t \in Tiles(M, N, K) : t.i + t.rows <= M /\ t.j + t.cols <= N /\ t.k0 + t.kc <= K
  BY <1>3, <1>6
<1>9. \A i \in 0..(M - 1), j \in 0..(N - 1), k \in 0..(K - 1) :
        \E t \in Tiles(M, N, K) : /\ In(t, i, j, k) /\ (t.accumulate <=> t.k0 # 0)
                                  /\ \A u \in Tiles(M, N, K) : In(u, i, j, k) => u = t
  <2> HIDE DEF In
  <2> QED BY <1>3, <1>6, <1>7
<1> QED BY <1>8, <1>9 DEF TilesExact

-----------------------------------------------------------------------------
(* Sums.                                                                   *)

\* The sums of the first so many numbers of a sequence.
SumsOf(n, v, t) ==
  /\ t \in [0..n -> Nat] /\ t[0] = 0
  /\ \A i \in 1..n : t[i] = t[i - 1] + v[i]

LEMMA TotalSums ==
  ASSUME NEW n \in Nat, NEW v \in [1..n -> Nat]
  PROVE  \E t : SumsOf(n, v, t) /\ Total(v) = t[n]
<1> DEFINE X == Nat
           b == 0
           G == [i \in 1..n |-> [x \in X |-> x + v[i]]]
           Is(h) == h = [S \in SUBSET (1..n) |-> IF S = {} THEN b ELSE h[S \ {Max(S)}] + v[Max(S)]]
           it == CHOOSE h : Is(h)
<1>1. b \in X /\ G \in [1..n -> [X -> X]] /\ DOMAIN v = 1..n
  OBVIOUS
<1>2. Total(v) = it[1..n]
  BY <1>1, Zenon DEF Total, FoldLeft, MapThenFoldSet
<1>3. PICK g : FoldOf(X, b, n, G, g)
  <2> HIDE DEF X, G, b
  <2> QED BY <1>1, FoldExists
<1>4. \A S \in SUBSET (1..n) : S # {} => Max(S) \in 1..n /\ S \ {Max(S)} \in SUBSET (1..n)
  BY LargestOf
<1>5. Is(g)
  <2>1. \A S \in SUBSET (1..n) : g[S] = IF S = {} THEN b ELSE g[S \ {Max(S)}] + v[Max(S)]
    BY <1>3, <1>4 DEF FoldOf
  <2>2. g = [S \in SUBSET (1..n) |-> g[S]]
    BY <1>3 DEF FoldOf
  <2> QED BY <2>1, <2>2
<1>6. Is(it)
  <2> HIDE DEF Is
  <2> QED BY <1>5
<1> HIDE DEF it
<1>7. FoldLike(X, b, n, G, it)
  <2>1. it[{}] = b
    <3>1. {} \in SUBSET (1..n)
      OBVIOUS
    <3> QED BY <1>6, <3>1
  <2>2. ASSUME NEW S \in SUBSET (1..n), S # {}, it[S \ {Max(S)}] \in X
        PROVE  it[S] = G[Max(S)][it[S \ {Max(S)}]]
    <3>1. Max(S) \in 1..n /\ it[S] = it[S \ {Max(S)}] + v[Max(S)]
      BY <1>4, <1>6, <2>2
    <3> HIDE DEF Is
    <3> QED BY <2>2, <3>1
  <2> HIDE DEF G, Is
  <2> QED BY <2>1, <2>2 DEF FoldLike
<1>8. FoldRow(X, b, n, G, g, it)
  <2> HIDE DEF X, G, Is, b
  <2> QED BY <1>1, <1>3, <1>7, FoldAlong
<1> DEFINE t == [i \in 0..n |-> g[1..i]]
<1>9. t[0] = 0 /\ t \in [0..n -> Nat] /\ Total(v) = t[n]
  <2>1. n \in 0..n /\ 0 \in 0..n
    OBVIOUS
  <2> QED BY <1>2, <1>8, <2>1 DEF FoldRow
<1>10. ASSUME NEW i \in 1..n PROVE t[i] = t[i - 1] + v[i]
  <2>1. i \in 0..n /\ i - 1 \in 0..n
    OBVIOUS
  <2>2. g[1..i] = G[i][g[1..(i - 1)]] /\ g[1..(i - 1)] \in X
    BY <1>8 DEF FoldRow
  <2> QED BY <2>1, <2>2
<1> HIDE DEF t
<1> QED BY <1>9, <1>10 DEF SumsOf

\* Sums are determined by the numbers.
LEMMA SumsAgree ==
  ASSUME NEW n \in Nat, NEW v, NEW t, SumsOf(n, v, t), NEW u, SumsOf(n, v, u)
  PROVE  \A i \in 0..n : t[i] = u[i]
<1> DEFINE Z == {i \in Nat : i <= n => t[i] = u[i]}
<1>1. 0 \in Z
  BY DEF SumsOf
<1>2. ASSUME NEW i \in Nat, i \in Z PROVE i + 1 \in Z
  <2> SUFFICES ASSUME i + 1 <= n PROVE t[i + 1] = u[i + 1]
    OBVIOUS
  <2>1. i + 1 \in 1..n /\ (i + 1) - 1 = i /\ t[i] = u[i]
    BY <1>2
  <2> QED BY <2>1 DEF SumsOf
<1>3. Nat \subseteq Z
  <2> HIDE DEF Z
  <2> QED BY <1>1, <1>2, FromOneToNext
<1> QED BY <1>3

\* Whatever adds up the same numbers comes to the same total.
LEMMA TotalIs ==
  ASSUME NEW n \in Nat, NEW v \in [1..n -> Nat], NEW t, SumsOf(n, v, t)
  PROVE  Total(v) = t[n]
<1>1. PICK u : SumsOf(n, v, u) /\ Total(v) = u[n]
  BY TotalSums
<1>2. n \in 0..n
  OBVIOUS
<1> QED BY <1>1, <1>2, SumsAgree

\* The total of two sequences, one after the other.
LEMMA TotalJoined ==
  ASSUME NEW n \in Nat, NEW v \in [1..n -> Nat], NEW m \in Nat, NEW w \in [1..m -> Nat],
         NEW x \in [1..(n + m) -> Nat], \A i \in 1..n : x[i] = v[i], \A i \in 1..m : x[n + i] = w[i]
  PROVE  Total(x) = Total(v) + Total(w) /\ Total(v) \in Nat /\ Total(w) \in Nat
<1>1. PICK t : SumsOf(n, v, t) /\ Total(v) = t[n]
  BY TotalSums
<1>2. PICK u : SumsOf(m, w, u) /\ Total(w) = u[m]
  BY TotalSums
<1>3. t \in [0..n -> Nat] /\ t[0] = 0 /\ \A i \in 1..n : t[i] = t[i - 1] + v[i]
  BY <1>1 DEF SumsOf
<1>4. u \in [0..m -> Nat] /\ u[0] = 0 /\ \A i \in 1..m : u[i] = u[i - 1] + w[i]
  BY <1>2 DEF SumsOf
<1> DEFINE y == [i \in 0..(n + m) |-> IF i <= n THEN t[i] ELSE t[n] + u[i - n]]
<1>5. n \in 0..n /\ m \in 0..m /\ t[n] \in Nat /\ u[m] \in Nat /\ n + m \in Nat /\ u[0] = 0
  BY <1>3, <1>4
<1>6. \A i \in 0..(n + m) : IF i <= n THEN i \in 0..n ELSE i - n \in 1..m /\ i - n \in 0..m
  OBVIOUS
<1>7. y \in [0..(n + m) -> Nat] /\ y[0] = 0
  <2>1. ASSUME NEW i \in 0..(n + m) PROVE (IF i <= n THEN t[i] ELSE t[n] + u[i - n]) \in Nat
    <3>1. CASE i <= n
      <4>1. t[i] \in Nat
        BY <1>3, <1>6, <3>1
      <4> QED BY <3>1, <4>1
    <3>2. CASE ~(i <= n)
      <4>1. u[i - n] \in Nat
        BY <1>4, <1>6, <3>2
      <4> QED BY <1>5, <3>2, <4>1
    <3> QED BY <3>1, <3>2
  <2>2. 0 \in 0..(n + m) /\ 0 <= n
    OBVIOUS
  <2> QED BY <1>3, <2>1, <2>2
<1>8. ASSUME NEW i \in 1..(n + m) PROVE y[i] = y[i - 1] + x[i]
  <2>1. i \in 0..(n + m) /\ i - 1 \in 0..(n + m)
    OBVIOUS
  <2>2. CASE i <= n
    <3>1. i \in 1..n /\ i - 1 <= n
      BY <2>2
    <3> QED BY <1>3, <2>1, <2>2, <3>1
  <2>3. CASE ~(i <= n)
    <3>1. i - n \in 1..m /\ n + (i - n) = i /\ (i - n) - 1 = (i - 1) - n /\ (i - n) - 1 \in 0..m
      BY <2>3
    <3>2. u[i - n] = u[(i - 1) - n] + x[i] /\ u[(i - 1) - n] \in Nat /\ x[i] \in Nat
      BY <1>4, <3>1
    <3>3. y[i] = t[n] + u[i - n]
      BY <2>1, <2>3
    <3>4. y[i - 1] = t[n] + u[(i - 1) - n]
      <4>1. CASE i - 1 <= n
        <5>1. i - 1 = n /\ (i - 1) - n = 0
          BY <2>3, <4>1
        <5> QED BY <1>5, <2>1, <4>1, <5>1
      <4>2. CASE ~(i - 1 <= n)
        BY <2>1, <4>2
      <4> QED BY <4>1, <4>2
    <3> HIDE DEF y
    <3>5. \A p, q, r \in Nat : p + (q + r) = (p + q) + r
      OBVIOUS
    <3> QED BY <1>5, <3>2, <3>3, <3>4, <3>5
  <2> QED BY <2>2, <2>3
<1>9. y[n + m] = t[n] + u[m]
  <2>1. n + m \in 0..(n + m) /\ (n + m) - n = m
    OBVIOUS
  <2>2. CASE m = 0
    BY <1>5, <2>1, <2>2
  <2>3. CASE m # 0
    <3>1. ~(n + m <= n)
      BY <2>3
    <3> QED BY <2>1, <3>1
  <2> QED BY <2>2, <2>3
<1> HIDE DEF y
<1>10. SumsOf(n + m, x, y)
  BY <1>7, <1>8 DEF SumsOf
<1>11. Total(x) = y[n + m]
  BY <1>5, <1>10, TotalIs
<1> QED BY <1>1, <1>2, <1>5, <1>9, <1>11

-----------------------------------------------------------------------------
(* The arena.                                                              *)

LEMMA MultiplesAdded ==
  ASSUME NEW d \in Nat \ {0}, NEW a \in Nat, NEW b \in Nat, a % d = 0, b % d = 0
  PROVE  (a + b) % d = 0
<1> DEFINE p == a \div d
           q == b \div d
<1>1. p \in Nat /\ q \in Nat /\ a = p * d /\ b = q * d
  <2>1. p \in Nat /\ a = p * d + (a % d)
    BY DivMod
  <2>2. q \in Nat /\ b = q * d + (b % d)
    BY DivMod
  <2> HIDE DEF p, q
  <2>3. p * d \in Nat /\ q * d \in Nat
    BY <2>1, <2>2
  <2> QED BY <2>1, <2>2, <2>3
<1> HIDE DEF p, q
<1>2. a + b = (p + q) * d /\ p + q \in Nat
  BY <1>1
<1>3. \A z \in Nat : (z * d) % d = 0
  OBVIOUS
<1> QED BY <1>2, <1>3

\* The next multiple of the alignment.
LEMMA Aligned ==
  ASSUME NEW n \in Nat
  PROVE  /\ AlignUp(n) \in Nat /\ n <= AlignUp(n) /\ AlignUp(n) % Align = 0
         /\ \A x \in Nat : n <= x /\ x % Align = 0 => AlignUp(n) <= x
<1>1. Align \in Nat \ {0}
  BY EngineAssumption
<1> DEFINE y == n + Align - 1
           q == y \div Align
           r == y % Align
<1>2. y \in Nat
  BY <1>1
<1>3. q \in Nat /\ r \in 0..(Align - 1) /\ y = q * Align + r
  <2> HIDE DEF y
  <2> QED BY <1>1, <1>2, DivMod
<1> HIDE DEF q, r
<1>4. q * Align \in Nat /\ (q * Align) % Align = 0
  BY <1>1, <1>3
<1>5. n <= q * Align
  <2> DEFINE z == q * Align
  <2>1. z \in Nat /\ n + Align - 1 = z + r
    BY <1>3, <1>4
  <2> HIDE DEF z
  <2>2. n <= z
    BY <1>1, <1>3, <2>1
  <2> QED BY <2>2 DEF z
<1>6. AlignUp(n) = q * Align
  BY DEF AlignUp, q
<1>7. ASSUME NEW x \in Nat, n <= x, x % Align = 0 PROVE q * Align <= x
  <2>1. x = q * Align \/ x < q * Align \/ q * Align <= x
    BY <1>4
  <2>2. ASSUME x < q * Align PROVE FALSE
    <3> DEFINE z == q * Align
    <3>1. z \in Nat /\ z % Align = 0 /\ x < z /\ n + Align - 1 = z + r
      BY <1>3, <1>4, <2>2
    <3> HIDE DEF z
    <3>2. x + Align <= z
      BY <1>1, <1>7, <3>1, MultiplesApart
    <3> QED BY <1>1, <1>3, <1>7, <3>1, <3>2
  <2> QED BY <1>4, <2>1, <2>2
<1> QED BY <1>4, <1>5, <1>6, <1>7

\* What is placed after what, and the bytes used so far.
PlacedAt(n, blocks, used, at) ==
  /\ used \in [0..n -> Nat] /\ used[0] = 0 /\ at \in Seq(Nat) /\ Len(at) = n
  /\ \A i \in 1..n : at[i] = AlignUp(used[i - 1]) /\ used[i] = at[i] + blocks[i]

\* One block more.
LEMMA OneBlockMore ==
  ASSUME NEW n \in Nat, NEW blocks, NEW used, NEW at, PlacedAt(n, blocks, used, at), NEW size \in Nat,
         size = blocks[n + 1]
  PROVE  LET off == AlignUp(used[n])
         IN  PlacedAt(n + 1, blocks, [i \in 0..(n + 1) |-> IF i = n + 1 THEN off + size ELSE used[i]], Append(at, off))
<1> DEFINE off == AlignUp(used[n])
           u == [i \in 0..(n + 1) |-> IF i = n + 1 THEN off + size ELSE used[i]]
           t == Append(at, off)
<1>1. /\ used \in [0..n -> Nat] /\ used[0] = 0 /\ at \in Seq(Nat) /\ Len(at) = n
      /\ \A i \in 1..n : at[i] = AlignUp(used[i - 1]) /\ used[i] = at[i] + blocks[i]
  BY DEF PlacedAt
<1>2. off \in Nat
  <2>1. used[n] \in Nat
    BY <1>1
  <2> QED BY <2>1, Aligned
<1> HIDE DEF off
<1>3. t \in Seq(Nat) /\ Len(t) = n + 1 /\ t[n + 1] = off /\ \A i \in 1..n : t[i] = at[i]
  BY <1>1, <1>2
<1>4. u[n + 1] = off + size /\ \A i \in 0..n : u[i] = used[i]
  <2>1. \A i \in 0..n : i \in 0..(n + 1) /\ i # n + 1
    OBVIOUS
  <2> QED BY <2>1
<1>5. u \in [0..(n + 1) -> Nat] /\ u[0] = 0
  <2>1. ASSUME NEW i \in 0..(n + 1) PROVE (IF i = n + 1 THEN off + size ELSE used[i]) \in Nat
    <3>1. i # n + 1 => i \in 0..n
      OBVIOUS
    <3>2. i # n + 1 => used[i] \in Nat
      BY <1>1, <3>1
    <3> QED BY <1>2, <3>2
  <2>2. u \in [0..(n + 1) -> Nat]
    BY <2>1
  <2>3. 0 \in 0..n
    OBVIOUS
  <2> QED BY <1>1, <1>4, <2>2, <2>3
<1> HIDE DEF u, t
<1>6. ASSUME NEW i \in 1..(n + 1) PROVE t[i] = AlignUp(u[i - 1]) /\ u[i] = t[i] + blocks[i]
  <2>1. CASE i = n + 1
    <3>1. i - 1 = n /\ n \in 0..n
      BY <2>1
    <3> QED BY <1>3, <1>4, <2>1, <3>1 DEF off
  <2>2. CASE i # n + 1
    <3>1. i \in 1..n /\ i \in 0..n /\ i - 1 \in 0..n
      BY <2>2
    <3> QED BY <1>1, <1>3, <1>4, <3>1
  <2> QED BY <2>1, <2>2
<1>7. PlacedAt(n + 1, blocks, u, t)
  BY <1>3, <1>5, <1>6 DEF PlacedAt
<1> QED BY <1>7 DEF u, t, off

LEMMA PlaceAll ==
  ASSUME NEW blocks \in Seq(Nat)
  PROVE  \E used, at : PlacedAt(Len(blocks), blocks, used, at) /\ Place(blocks) = [used |-> used[Len(blocks)], at |-> at]
<1> DEFINE n == Len(blocks)
           X == [used : Nat, at : Seq(Nat)]
           b == [used |-> 0, at |-> <<>>]
           More(x, i) == [used |-> AlignUp(x.used) + blocks[i], at |-> Append(x.at, AlignUp(x.used))]
           G == [i \in 1..n |-> [x \in X |-> More(x, i)]]
           Is(h) == h = [S \in SUBSET (1..n) |-> IF S = {} THEN b ELSE More(h[S \ {Max(S)}], Max(S))]
           it == CHOOSE h : Is(h)
<1>1. n \in Nat /\ DOMAIN blocks = 1..n /\ \A i \in 1..n : blocks[i] \in Nat
  BY Indexed
<1>2. Place(blocks) = it[1..n]
  BY <1>1, Zenon DEF Place, FoldLeft, MapThenFoldSet
<1> HIDE DEF n
<1>3. ASSUME NEW x \in X, NEW i \in 1..n PROVE More(x, i) \in X
  <2>1. AlignUp(x.used) \in Nat /\ x.at \in Seq(Nat) /\ blocks[i] \in Nat
    BY <1>1, <1>3, Aligned
  <2> QED BY <2>1
<1>4. b \in X /\ G \in [1..n -> [X -> X]]
  <2>1. b \in X
    OBVIOUS
  <2> HIDE DEF X, More
  <2> QED BY <1>3, <2>1
<1>5. PICK g : FoldOf(X, b, n, G, g)
  <2> HIDE DEF X, G, b
  <2> QED BY <1>1, <1>4, FoldExists
<1>6. \A S \in SUBSET (1..n) : S # {} => Max(S) \in 1..n /\ S \ {Max(S)} \in SUBSET (1..n)
  BY <1>1, LargestOf
<1>7. Is(g)
  <2>1. g \in [SUBSET (1..n) -> X] /\ g[{}] = b
        /\ \A S \in SUBSET (1..n) : S # {} => g[S] = G[Max(S)][g[S \ {Max(S)}]]
    BY <1>5 DEF FoldOf
  <2> HIDE DEF X, More, b
  <2>2. ASSUME NEW S \in SUBSET (1..n)
        PROVE g[S] = IF S = {} THEN b ELSE More(g[S \ {Max(S)}], Max(S))
    <3>1. CASE S = {}
      BY <2>1, <3>1
    <3>2. CASE S # {}
      <4>1. Max(S) \in 1..n /\ g[S \ {Max(S)}] \in X /\ g[S] = G[Max(S)][g[S \ {Max(S)}]]
        BY <1>6, <2>1, <3>2
      <4> QED BY <3>2, <4>1
    <3> QED BY <3>1, <3>2
  <2>3. g = [S \in SUBSET (1..n) |-> g[S]]
    BY <2>1
  <2> QED BY <2>2, <2>3
<1>8. Is(it)
  <2> HIDE DEF Is
  <2> QED BY <1>7
<1> HIDE DEF it
<1>9. FoldLike(X, b, n, G, it)
  <2> HIDE DEF X, More, b
  <2>1. it[{}] = b
    <3>1. {} \in SUBSET (1..n)
      OBVIOUS
    <3> QED BY <1>8, <3>1
  <2>2. ASSUME NEW S \in SUBSET (1..n), S # {}, it[S \ {Max(S)}] \in X
        PROVE  it[S] = G[Max(S)][it[S \ {Max(S)}]]
    <3>1. Max(S) \in 1..n /\ it[S] = More(it[S \ {Max(S)}], Max(S))
      BY <1>6, <1>8, <2>2
    <3> HIDE DEF Is
    <3> QED BY <2>2, <3>1
  <2> HIDE DEF G, Is
  <2> QED BY <2>1, <2>2 DEF FoldLike
<1>10. FoldRow(X, b, n, G, g, it)
  <2> HIDE DEF X, G, Is, b
  <2> QED BY <1>1, <1>4, <1>5, <1>9, FoldAlong
<1> HIDE DEF Is
<1> DEFINE Done(k) == \E used, at : PlacedAt(k, blocks, used, at) /\ g[1..k] = [used |-> used[k], at |-> at]
<1>11. \A k \in 0..n : Done(k)
  <2> DEFINE Z == {k \in Nat : k <= n => Done(k)}
  <2>1. 0 \in Z
    <3> DEFINE u == [i \in 0..0 |-> 0]
    <3>1. PlacedAt(0, blocks, u, <<>>) /\ u[0] = 0
      BY DEF PlacedAt
    <3>2. g[1..0] = [used |-> u[0], at |-> <<>>]
      BY <1>10, <3>1 DEF FoldRow
    <3> QED BY <3>1, <3>2
  <2>2. ASSUME NEW k \in Nat, k \in Z PROVE k + 1 \in Z
    <3> SUFFICES ASSUME k + 1 <= n PROVE Done(k + 1)
      <4> HIDE DEF Done
      <4> QED OBVIOUS
    <3>1. k + 1 \in 1..n /\ (k + 1) - 1 = k /\ k <= n
      BY <1>1
    <3>2. Done(k)
      BY <2>2, <3>1
    <3>3. PICK used, at : PlacedAt(k, blocks, used, at) /\ g[1..k] = [used |-> used[k], at |-> at]
      BY <3>2
    <3>4. g[1..(k + 1)] = More(g[1..k], k + 1)
      <4>1. g[1..(k + 1)] = G[k + 1][g[1..((k + 1) - 1)]] /\ g[1..((k + 1) - 1)] \in X
        BY <1>10, <3>1 DEF FoldRow
      <4> HIDE DEF X, More
      <4> QED BY <3>1, <4>1
    <3> DEFINE off == AlignUp(used[k])
               u == [i \in 0..(k + 1) |-> IF i = k + 1 THEN off + blocks[k + 1] ELSE used[i]]
    <3>5. PlacedAt(k + 1, blocks, u, Append(at, off))
      BY <1>1, <3>1, <3>3, OneBlockMore
    <3>6. u[k + 1] = off + blocks[k + 1]
      <4>1. k + 1 \in 0..(k + 1)
        OBVIOUS
      <4> QED BY <4>1
    <3>7. g[1..(k + 1)] = [used |-> u[k + 1], at |-> Append(at, off)]
      <4> HIDE DEF u
      <4> QED BY <3>3, <3>4, <3>6
    <3> HIDE DEF u, off
    <3> QED BY <3>5, <3>7
  <2>3. Nat \subseteq Z
    <3> HIDE DEF Z
    <3> QED BY <2>1, <2>2, FromOneToNext
  <2> HIDE DEF Done
  <2> QED BY <2>3
<1>12. n \in 0..n /\ it[1..n] = g[1..n]
  BY <1>1, <1>10 DEF FoldRow
<1>13. Done(n)
  <2> HIDE DEF Done
  <2> QED BY <1>11, <1>12
<1> QED BY <1>2, <1>12, <1>13 DEF n

\* The bytes added up beforehand are those of the blocks, and enough for them:
\* each starts aligned, after the end of every one before it.
Fitting(blocks, required, arena) ==
  /\ arena.used <= required
  /\ \A i \in DOMAIN blocks :
        /\ arena.at[i] % Align = 0
        /\ \A j \in 1..(i - 1) : arena.at[j] + blocks[j] <= arena.at[i]

LEMMA PlacedWithin ==
  ASSUME NEW blocks \in Seq(Nat)
  PROVE  Fitting(blocks, ArenaBytes(blocks), Place(blocks)) /\ ArenaBytes(blocks) \in Nat
<1> DEFINE n == Len(blocks)
           v == [i \in 1..n |-> AlignUp(blocks[i])]
<1>1. n \in Nat /\ DOMAIN blocks = 1..n /\ \A i \in 1..n : blocks[i] \in Nat
  BY Indexed
<1>2. PICK used, at : PlacedAt(n, blocks, used, at) /\ Place(blocks) = [used |-> used[n], at |-> at]
  BY PlaceAll
<1> HIDE DEF n
<1>3. v \in [1..n -> Nat] /\ \A i \in 1..n : v[i] = AlignUp(blocks[i]) /\ blocks[i] <= v[i] /\ v[i] % Align = 0
  BY <1>1, Aligned
<1>4. ArenaBytes(blocks) = Total(v)
  BY <1>1 DEF ArenaBytes
<1> HIDE DEF v
<1>5. PICK t : SumsOf(n, v, t) /\ Total(v) = t[n]
  BY <1>1, <1>3, TotalSums
<1>6. t \in [0..n -> Nat] /\ t[0] = 0 /\ \A i \in 1..n : t[i] = t[i - 1] + v[i]
  BY <1>5 DEF SumsOf
<1>7. /\ used \in [0..n -> Nat] /\ used[0] = 0 /\ at \in Seq(Nat) /\ Len(at) = n
      /\ \A i \in 1..n : at[i] = AlignUp(used[i - 1]) /\ used[i] = at[i] + blocks[i]
  BY <1>2 DEF PlacedAt
<1>8. \A i \in 1..n : /\ i - 1 \in 0..n /\ i \in 0..n /\ used[i - 1] \in Nat /\ used[i] \in Nat /\ at[i] \in Nat
                      /\ used[i - 1] <= at[i] /\ at[i] <= used[i] /\ at[i] % Align = 0
  <2> SUFFICES ASSUME NEW i \in 1..n
               PROVE  /\ i - 1 \in 0..n /\ i \in 0..n /\ used[i - 1] \in Nat /\ used[i] \in Nat /\ at[i] \in Nat
                      /\ used[i - 1] <= at[i] /\ at[i] <= used[i] /\ at[i] % Align = 0
    OBVIOUS
  <2>1. i - 1 \in 0..n /\ i \in 0..n
    BY <1>1
  <2>2. used[i - 1] \in Nat /\ used[i] \in Nat /\ blocks[i] \in Nat
    BY <1>1, <1>7, <2>1
  <2>3. at[i] = AlignUp(used[i - 1]) /\ used[i] = at[i] + blocks[i]
    BY <1>7
  <2>4. at[i] \in Nat /\ used[i - 1] <= at[i] /\ at[i] % Align = 0
    BY <2>2, <2>3, Aligned
  <2> QED BY <2>1, <2>2, <2>3, <2>4
<1>9. \A i \in 0..n : used[i] <= t[i] /\ t[i] % Align = 0
  <2> DEFINE Z == {i \in Nat : i <= n => used[i] <= t[i] /\ t[i] % Align = 0}
  <2>1. 0 \in Z
    <3>1. Align \in Nat \ {0}
      BY EngineAssumption
    <3>2. 0 % Align = 0
      BY <3>1
    <3> QED BY <1>6, <1>7, <3>2
  <2>2. ASSUME NEW i \in Nat, i \in Z PROVE i + 1 \in Z
    <3> SUFFICES ASSUME i + 1 <= n PROVE used[i + 1] <= t[i + 1] /\ t[i + 1] % Align = 0
      OBVIOUS
    <3>1. i + 1 \in 1..n /\ (i + 1) - 1 = i /\ i \in 0..n /\ used[i] <= t[i] /\ t[i] % Align = 0
      BY <1>1, <2>2
    <3>2. used[i] \in Nat /\ t[i] \in Nat /\ v[i + 1] \in Nat /\ blocks[i + 1] \in Nat
      BY <1>1, <1>3, <1>6, <1>7, <3>1
    <3>3. at[i + 1] = AlignUp(used[i]) /\ used[i + 1] = at[i + 1] + blocks[i + 1] /\ t[i + 1] = t[i] + v[i + 1]
      BY <1>6, <1>7, <3>1
    <3>4. at[i + 1] <= t[i] /\ at[i + 1] \in Nat
      BY <3>1, <3>2, <3>3, Aligned
    <3>5. blocks[i + 1] <= v[i + 1] /\ v[i + 1] % Align = 0
      BY <1>3, <3>1
    <3>6. t[i + 1] % Align = 0
      <4>1. Align \in Nat \ {0}
        BY EngineAssumption
      <4>2. (t[i] + v[i + 1]) % Align = 0
        BY <3>1, <3>2, <3>5, <4>1, MultiplesAdded
      <4> QED BY <3>3, <4>2
    <3> QED BY <3>2, <3>3, <3>4, <3>5, <3>6
  <2>3. Nat \subseteq Z
    <3> HIDE DEF Z
    <3> QED BY <2>1, <2>2, FromOneToNext
  <2> QED BY <2>3
<1>10. \A d \in Nat : \A j \in 1..n : j + d <= n => used[j] <= used[j + d]
  <2> DEFINE Z == {d \in Nat : \A j \in 1..n : j + d <= n => used[j] <= used[j + d]}
  <2>1. 0 \in Z
    <3>1. \A j \in 1..n : j + 0 = j /\ used[j] <= used[j]
      BY <1>8
    <3> QED BY <3>1
  <2>2. ASSUME NEW d \in Nat, d \in Z PROVE d + 1 \in Z
    <3> SUFFICES ASSUME NEW j \in 1..n, j + (d + 1) <= n PROVE used[j] <= used[j + (d + 1)]
      OBVIOUS
    <3> DEFINE i == j + (d + 1)
    <3>1. i \in 1..n /\ i - 1 = j + d /\ j + d <= n /\ j + d \in 1..n
      BY <1>1
    <3>2. used[j] <= used[i - 1]
      BY <2>2, <3>1
    <3> HIDE DEF i
    <3>3. used[j] \in Nat /\ used[i - 1] \in Nat /\ used[i] \in Nat /\ at[i] \in Nat /\ used[i - 1] <= at[i] /\ at[i] <= used[i]
      BY <1>8, <3>1
    <3> QED BY <3>2, <3>3 DEF i
  <2>3. Nat \subseteq Z
    <3> HIDE DEF Z
    <3> QED BY <2>1, <2>2, FromOneToNext
  <2> QED BY <2>3
<1>11. ASSUME NEW i \in 1..n, NEW j \in 1..(i - 1) PROVE at[j] + blocks[j] <= at[i]
  <2>1. j \in 1..n /\ (i - 1) - j \in Nat /\ j + ((i - 1) - j) = i - 1 /\ i - 1 <= n
    BY <1>1
  <2>2. used[j] <= used[i - 1]
    BY <1>10, <2>1
  <2>3. used[j] = at[j] + blocks[j]
    BY <1>7, <2>1
  <2>4. used[i - 1] <= at[i] /\ used[i - 1] \in Nat /\ at[i] \in Nat /\ used[j] \in Nat
    BY <1>8, <2>1
  <2> QED BY <2>2, <2>3, <2>4
<1>12. used[n] <= t[n] /\ t[n] \in Nat
  <2>1. n \in 0..n
    BY <1>1
  <2> QED BY <1>6, <1>9, <2>1
<1> DEFINE arena == Place(blocks)
<1>13. arena.used = used[n] /\ arena.at = at
  BY <1>2
<1> QED BY <1>1, <1>4, <1>5, <1>8, <1>11, <1>12, <1>13 DEF Fitting

-----------------------------------------------------------------------------
(* A network as it is written, and read.                                   *)

\* A layer as it is written: quantised or not, with a softmax perhaps.
SpecForm ==
    {L \in [type : Weighted \cup {"maxpool2d", "flatten", "relu", "softmax"}, dtype : {"f32", "i8"},
            a : Nat, b : Nat, k : Nat, stride : Nat, pad : Nat] :
        /\ L.type \notin Weighted => L.a = 0 /\ L.b = 0 /\ L.dtype = "f32"
        /\ IF L.type \in {"conv2d", "maxpool2d"} THEN L.k > 0 /\ L.stride > 0 ELSE L.k = 0 /\ L.stride = 0
        /\ L.type # "conv2d" => L.stride = L.k /\ L.pad = 0}
SpecOf(m, L) == [L EXCEPT !.dtype = IF m.quantize /\ L.type \in Weighted THEN "i8" ELSE "f32"]
Softmax == [type |-> "softmax", dtype |-> "f32", a |-> 0, b |-> 0, k |-> 0, stride |-> 0, pad |-> 0]

LEMMA SpecIs ==
  ASSUME NEW m, NEW L \in LayerForm
  PROVE  /\ SpecOf(m, L) \in SpecForm /\ SpecOf(m, L).type = L.type
         /\ SpecOf(m, L).a = L.a /\ SpecOf(m, L).b = L.b /\ SpecOf(m, L).k = L.k
         /\ SpecOf(m, L).stride = L.stride /\ SpecOf(m, L).pad = L.pad
         /\ SpecOf(m, L).dtype = IF m.quantize /\ L.type \in Weighted THEN "i8" ELSE "f32"
<1> DEFINE d == IF m.quantize /\ L.type \in Weighted THEN "i8" ELSE "f32"
<1>1. d \in {"f32", "i8"} /\ (L.type \notin Weighted => d = "f32")
  OBVIOUS
<1>2. SpecOf(m, L) = [L EXCEPT !.dtype = d]
  BY DEF SpecOf
<1> HIDE DEF d
<1>3. L \in [type : Weighted \cup {"maxpool2d", "flatten", "relu"}, dtype : {"f32"},
             a : Nat, b : Nat, k : Nat, stride : Nat, pad : Nat]
      /\ (L.type \notin Weighted => L.a = 0 /\ L.b = 0)
      /\ (IF L.type \in {"conv2d", "maxpool2d"} THEN L.k > 0 /\ L.stride > 0 ELSE L.k = 0 /\ L.stride = 0)
      /\ (L.type # "conv2d" => L.stride = L.k /\ L.pad = 0)
  BY DEF LayerForm
<1> DEFINE s == [L EXCEPT !.dtype = d]
<1>4. /\ s.type = L.type /\ s.a = L.a /\ s.b = L.b /\ s.k = L.k /\ s.stride = L.stride /\ s.pad = L.pad
      /\ s.dtype = d
  BY <1>3
<1>5. s \in [type : Weighted \cup {"maxpool2d", "flatten", "relu", "softmax"}, dtype : {"f32", "i8"},
             a : Nat, b : Nat, k : Nat, stride : Nat, pad : Nat]
  BY <1>1, <1>3
<1> HIDE DEF s
<1>6. s \in SpecForm
  BY <1>1, <1>3, <1>4, <1>5 DEF SpecForm
<1> QED BY <1>2, <1>4, <1>6 DEF s, d

\* The layers that are written.
LEMMA SpecsListed ==
  ASSUME NEW m, ModelForm(m)
  PROVE  LET n == Len(m.layers)
             N == IF m.softmax THEN n + 1 ELSE n
         IN  /\ n \in Nat /\ N \in Nat /\ Specs(m) \in Seq(SpecForm) /\ Len(Specs(m)) = N
             /\ \A i \in 1..n : m.layers[i] \in LayerForm /\ i \in 1..N /\ Specs(m)[i] = SpecOf(m, m.layers[i])
             /\ \A i \in 1..N : i \notin 1..n => i = n + 1 /\ m.softmax /\ Specs(m)[i] = Softmax
<1> DEFINE n == Len(m.layers)
           N == IF m.softmax THEN n + 1 ELSE n
           s == [i \in 1..n |-> SpecOf(m, m.layers[i])]
           t == IF m.softmax THEN <<Softmax>> ELSE <<>>
<1>1. n \in Nat /\ DOMAIN m.layers = 1..n /\ \A i \in 1..n : m.layers[i] \in LayerForm
  <2>1. m.layers \in Seq(LayerForm)
    BY DEF ModelForm
  <2> QED BY <2>1, Indexed
<1>2. Specs(m) = s \o t
  <2>1. [i \in DOMAIN m.layers |-> [m.layers[i] EXCEPT !.dtype =
             IF m.quantize /\ m.layers[i].type \in Weighted THEN "i8" ELSE "f32"]] = s
    BY <1>1 DEF SpecOf
  <2> HIDE DEF s
  <2> QED BY <2>1 DEF Specs, Softmax
<1> HIDE DEF n
<1>3. s \in Seq(SpecForm) /\ Len(s) = n /\ \A i \in 1..n : s[i] = SpecOf(m, m.layers[i])
  <2>1. \A i \in 1..n : SpecOf(m, m.layers[i]) \in SpecForm
    BY <1>1, SpecIs
  <2>2. s \in [1..n -> SpecForm]
    BY <2>1
  <2>3. s \in Seq(SpecForm) /\ Len(s) = n
    BY <1>1, <2>2
  <2> QED BY <2>3
<1>4. Softmax \in SpecForm
  BY DEF Softmax, SpecForm, Weighted
<1>5. t \in Seq(SpecForm) /\ Len(t) = (IF m.softmax THEN 1 ELSE 0) /\ (m.softmax => t[1] = Softmax)
  <2> DEFINE one == Softmax
  <2>1. one \in SpecForm
    BY <1>4
  <2> HIDE DEF one
  <2>2. <<one>> \in Seq(SpecForm) /\ Len(<<one>>) = 1 /\ <<one>>[1] = one
    BY <2>1
  <2>3. <<>> \in Seq(SpecForm) /\ Len(<<>>) = 0
    OBVIOUS
  <2> QED BY <2>2, <2>3 DEF one
<1> HIDE DEF s, t
<1>6. /\ s \o t \in Seq(SpecForm) /\ Len(s \o t) = Len(s) + Len(t)
      /\ \A k \in 1..Len(s) : (s \o t)[k] = s[k]
      /\ \A j \in 1..Len(t) : (s \o t)[Len(s) + j] = t[j]
  BY <1>3, <1>5, Appended
<1>7. Len(s \o t) = N /\ N \in Nat
  BY <1>1, <1>3, <1>5, <1>6
<1>8. \A i \in 1..n : i \in 1..N /\ (s \o t)[i] = SpecOf(m, m.layers[i])
  BY <1>1, <1>3, <1>6
<1>9. ASSUME NEW i \in 1..N, i \notin 1..n PROVE i = n + 1 /\ m.softmax /\ (s \o t)[i] = Softmax
  <2>1. i = n + 1 /\ m.softmax
    BY <1>1, <1>9
  <2>2. 1 \in 1..Len(t) /\ Len(s) + 1 = i
    BY <1>1, <1>3, <1>5, <2>1
  <2>3. (s \o t)[i] = t[1]
    BY <1>6, <2>2
  <2> QED BY <1>5, <2>1, <2>3
<1> QED BY <1>1, <1>2, <1>6, <1>7, <1>8, <1>9 DEF n

\* The fields of a layer.
Field == [value : Nat \cup Weighted \cup {"maxpool2d", "flatten", "relu", "softmax", "f32", "i8", "scale", "raw"},
          bytes : Nat]

LEMMA Fields ==
  /\ \A v \in Nat : Word(v) \in Field
  /\ \A v \in Weighted \cup {"maxpool2d", "flatten", "relu", "softmax", "f32", "i8", "scale", "raw"} : Word(v) \in Field
  /\ \A n \in Nat : Blob(n) \in Field
  /\ \A v : Word(v).value = v
  /\ \A n : Blob(n).bytes = n
BY DEF Word, Blob, Field

LEMMA BytesAreCounted ==
  ASSUME NEW L \in SpecForm
  PROVE  /\ WeightCount(L) \in Nat /\ BiasCount(L) \in Nat /\ WeightBytes(L) \in Nat /\ 4 * BiasCount(L) \in Nat
         /\ L.type \notin Weighted => WeightCount(L) = 0 /\ BiasCount(L) = 0 /\ WeightBytes(L) = 0
<1>1. L.a \in Nat /\ L.b \in Nat /\ L.k \in Nat
  BY DEF SpecForm
<1>2. \A x, y \in Nat : x * y \in Nat
  OBVIOUS
<1>3. L.a * L.b \in Nat /\ L.b * L.a * L.k * L.k \in Nat
  BY <1>1, <1>2
<1>4. WeightCount(L) \in Nat
  BY <1>3 DEF WeightCount
<1>5. BiasCount(L) \in Nat /\ 4 * BiasCount(L) \in Nat
  BY <1>1 DEF BiasCount
<1>6. WeightBytes(L) \in Nat
  BY <1>4 DEF WeightBytes
<1>7. ASSUME L.type \notin Weighted PROVE WeightCount(L) = 0 /\ BiasCount(L) = 0 /\ WeightBytes(L) = 0
  BY <1>7 DEF WeightCount, BiasCount, WeightBytes, Weighted
<1> QED BY <1>4, <1>5, <1>6, <1>7

\* Where a layer's fields are, it is read as it was written.
WrittenAt(image, at, L) ==
  \A j \in 1..Len(EncodeLayer(L)) : image[at + j - 1] = EncodeLayer(L)[j]
FieldCount(L) == 2 + Words(L.type) + (IF L.type \in Weighted THEN 2 ELSE 0)

LEMMA LayerReadBack ==
  ASSUME NEW L \in SpecForm
  PROVE  /\ EncodeLayer(L) \in Seq(Field) /\ Len(EncodeLayer(L)) = FieldCount(L) /\ FieldCount(L) \in Nat
         /\ \A image : \A at \in Nat :
               WrittenAt(image, at, L) => ReadLayer(image, at) = L /\ BlobsMatch(image, at, L)
<1> DEFINE e == EncodeLayer(L)
           first == <<Word(L.type), Word(L.dtype)>>
<1>1. /\ L.type \in Weighted \cup {"maxpool2d", "flatten", "relu", "softmax"} /\ L.dtype \in {"f32", "i8"}
      /\ L.a \in Nat /\ L.b \in Nat /\ L.k \in Nat /\ L.stride \in Nat /\ L.pad \in Nat
      /\ L.type \notin Weighted => L.a = 0 /\ L.b = 0 /\ L.dtype = "f32"
      /\ L.type \notin {"conv2d", "maxpool2d"} => L.k = 0 /\ L.stride = 0
      /\ L.type # "conv2d" => L.pad = 0
      /\ L = [type |-> L.type, dtype |-> L.dtype, a |-> L.a, b |-> L.b, k |-> L.k, stride |-> L.stride, pad |-> L.pad]
  BY DEF SpecForm
<1>2. Word(L.type) \in Field /\ Word(L.dtype) \in Field /\ Word("scale") \in Field
      /\ Word(L.a) \in Field /\ Word(L.b) \in Field /\ Word(L.k) \in Field /\ Word(L.stride) \in Field
      /\ Word(L.pad) \in Field
  BY <1>1, Fields
<1>3. Blob(WeightBytes(L)) \in Field /\ Blob(4 * L.b) \in Field
  <2>1. WeightBytes(L) \in Nat /\ 4 * L.b \in Nat
    BY <1>1, BytesAreCounted
  <2> QED BY <2>1, Fields
<1>4. first \in Seq(Field) /\ Len(first) = 2 /\ first[1] = Word(L.type) /\ first[2] = Word(L.dtype)
  BY <1>2
<1> HIDE DEF first
<1>5. ASSUME NEW rest \in Seq(Field)
      PROVE  /\ first \o rest \in Seq(Field) /\ Len(first \o rest) = 2 + Len(rest)
             /\ (first \o rest)[1] = Word(L.type) /\ (first \o rest)[2] = Word(L.dtype)
             /\ \A j \in 1..Len(rest) : (first \o rest)[2 + j] = rest[j]
  <2>1. /\ first \o rest \in Seq(Field) /\ Len(first \o rest) = Len(first) + Len(rest)
        /\ \A k \in 1..Len(first) : (first \o rest)[k] = first[k]
        /\ \A j \in 1..Len(rest) : (first \o rest)[Len(first) + j] = rest[j]
    BY <1>4, <1>5, Appended
  <2>2. 1 \in 1..2 /\ 2 \in 1..2
    OBVIOUS
  <2> QED BY <1>4, <2>1, <2>2
<1>6. \A v : Word(v).value = v
  BY Fields
<1>7. \A n : Blob(n).bytes = n
  BY Fields
<1>8. CASE L.type = "dense"
  <2> DEFINE rest == <<Word(L.a), Word(L.b), Word("scale"), Blob(WeightBytes(L)), Blob(4 * L.b)>>
  <2>1. e = first \o rest
    BY <1>8 DEF EncodeLayer, first
  <2>2. /\ rest \in Seq(Field) /\ Len(rest) = 5 /\ rest[1] = Word(L.a) /\ rest[2] = Word(L.b)
        /\ rest[4] = Blob(WeightBytes(L)) /\ rest[5] = Blob(4 * L.b)
    BY <1>2, <1>3
  <2> HIDE DEF rest
  <2>3. FieldCount(L) = 7 /\ Words(L.type) = 3 /\ L.type \in Weighted
    BY <1>8 DEF FieldCount, Words, Weighted
  <2>4. e \in Seq(Field) /\ Len(e) = 7 /\ e[1] = Word(L.type) /\ e[2] = Word(L.dtype) /\ e[3] = Word(L.a)
        /\ e[4] = Word(L.b) /\ e[6] = Blob(WeightBytes(L)) /\ e[7] = Blob(4 * L.b)
    <3> HIDE DEF e
    <3>1. /\ e \in Seq(Field) /\ Len(e) = 2 + Len(rest) /\ e[1] = Word(L.type) /\ e[2] = Word(L.dtype)
          /\ \A j \in 1..Len(rest) : e[2 + j] = rest[j]
      BY <1>5, <2>1, <2>2
    <3>2. e[2 + 1] = rest[1] /\ e[2 + 2] = rest[2] /\ e[2 + 4] = rest[4] /\ e[2 + 5] = rest[5]
      BY <2>2, <3>1
    <3> QED BY <2>2, <3>1, <3>2
  <2> HIDE DEF e
  <2>5. ASSUME NEW image, NEW at \in Nat, \A j \in 1..7 : image[at + j - 1] = e[j]
        PROVE  ReadLayer(image, at) = L /\ BlobsMatch(image, at, L)
    <3>1. /\ image[at] = Word(L.type) /\ image[at + 1] = Word(L.dtype) /\ image[at + 1 + 1] = Word(L.a)
          /\ image[at + 1 + 2] = Word(L.b) /\ image[at + 2 + 3] = Blob(WeightBytes(L))
          /\ image[at + 2 + 3 + 1] = Blob(4 * L.b)
      <4>1. /\ at + 1 - 1 = at /\ at + 2 - 1 = at + 1 /\ at + 3 - 1 = at + 1 + 1 /\ at + 4 - 1 = at + 1 + 2
            /\ at + 6 - 1 = at + 2 + 3 /\ at + 7 - 1 = at + 2 + 3 + 1
        OBVIOUS
      <4>2. 1 \in 1..7 /\ 2 \in 1..7 /\ 3 \in 1..7 /\ 4 \in 1..7 /\ 6 \in 1..7 /\ 7 \in 1..7
        OBVIOUS
      <4> QED BY <2>4, <2>5, <4>1, <4>2
    <3>2. ReadLayer(image, at) = [type |-> L.type, dtype |-> L.dtype, a |-> L.a, b |-> L.b, k |-> 0, stride |-> 0, pad |-> 0]
      BY <1>6, <1>8, <3>1 DEF ReadLayer
    <3>3. L.k = 0 /\ L.stride = 0 /\ L.pad = 0
      BY <1>1, <1>8
    <3>4. BlobsMatch(image, at, L)
      BY <1>7, <2>3, <3>1 DEF BlobsMatch, BiasCount
    <3> QED BY <1>1, <3>2, <3>3, <3>4
  <2>6. \A image : \A at \in Nat : WrittenAt(image, at, L) => ReadLayer(image, at) = L /\ BlobsMatch(image, at, L)
    BY <2>4, <2>5 DEF WrittenAt, e
  <2> QED BY <2>3, <2>4, <2>6 DEF e
<1>9. CASE L.type = "conv2d"
  <2> DEFINE rest == <<Word(L.a), Word(L.b), Word(L.k), Word(L.stride), Word(L.pad),
                       Word("scale"), Blob(WeightBytes(L)), Blob(4 * L.b)>>
  <2>1. e = first \o rest
    BY <1>9 DEF EncodeLayer, first
  <2>2. /\ rest \in Seq(Field) /\ Len(rest) = 8 /\ rest[1] = Word(L.a) /\ rest[2] = Word(L.b)
        /\ rest[3] = Word(L.k) /\ rest[4] = Word(L.stride) /\ rest[5] = Word(L.pad)
        /\ rest[7] = Blob(WeightBytes(L)) /\ rest[8] = Blob(4 * L.b)
    BY <1>2, <1>3
  <2> HIDE DEF rest
  <2>3. FieldCount(L) = 10 /\ Words(L.type) = 6 /\ L.type \in Weighted
    BY <1>9 DEF FieldCount, Words, Weighted
  <2>4. e \in Seq(Field) /\ Len(e) = 10 /\ e[1] = Word(L.type) /\ e[2] = Word(L.dtype) /\ e[3] = Word(L.a)
        /\ e[4] = Word(L.b) /\ e[5] = Word(L.k) /\ e[6] = Word(L.stride) /\ e[7] = Word(L.pad)
        /\ e[9] = Blob(WeightBytes(L)) /\ e[10] = Blob(4 * L.b)
    <3> HIDE DEF e
    <3>1. /\ e \in Seq(Field) /\ Len(e) = 2 + Len(rest) /\ e[1] = Word(L.type) /\ e[2] = Word(L.dtype)
          /\ \A j \in 1..Len(rest) : e[2 + j] = rest[j]
      BY <1>5, <2>1, <2>2
    <3>2. e[2 + 1] = rest[1] /\ e[2 + 2] = rest[2] /\ e[2 + 3] = rest[3] /\ e[2 + 4] = rest[4] /\ e[2 + 5] = rest[5]
          /\ e[2 + 7] = rest[7] /\ e[2 + 8] = rest[8]
      BY <2>2, <3>1
    <3> QED BY <2>2, <3>1, <3>2
  <2> HIDE DEF e
  <2>5. ASSUME NEW image, NEW at \in Nat, \A j \in 1..10 : image[at + j - 1] = e[j]
        PROVE  ReadLayer(image, at) = L /\ BlobsMatch(image, at, L)
    <3>1. /\ image[at] = Word(L.type) /\ image[at + 1] = Word(L.dtype) /\ image[at + 1 + 1] = Word(L.a)
          /\ image[at + 1 + 2] = Word(L.b) /\ image[at + 1 + 3] = Word(L.k) /\ image[at + 1 + 4] = Word(L.stride)
          /\ image[at + 1 + 5] = Word(L.pad) /\ image[at + 2 + 6] = Blob(WeightBytes(L))
          /\ image[at + 2 + 6 + 1] = Blob(4 * L.b)
      <4>1. /\ at + 1 - 1 = at /\ at + 2 - 1 = at + 1 /\ at + 3 - 1 = at + 1 + 1 /\ at + 4 - 1 = at + 1 + 2
            /\ at + 5 - 1 = at + 1 + 3 /\ at + 6 - 1 = at + 1 + 4 /\ at + 7 - 1 = at + 1 + 5
            /\ at + 9 - 1 = at + 2 + 6 /\ at + 10 - 1 = at + 2 + 6 + 1
        OBVIOUS
      <4>2. 1 \in 1..10 /\ 2 \in 1..10 /\ 3 \in 1..10 /\ 4 \in 1..10 /\ 5 \in 1..10 /\ 6 \in 1..10 /\ 7 \in 1..10
            /\ 9 \in 1..10 /\ 10 \in 1..10
        OBVIOUS
      <4> QED BY <2>4, <2>5, <4>1, <4>2
    <3>2. ReadLayer(image, at) =
             [type |-> L.type, dtype |-> L.dtype, a |-> L.a, b |-> L.b, k |-> L.k, stride |-> L.stride, pad |-> L.pad]
      BY <1>6, <1>9, <3>1 DEF ReadLayer
    <3>3. BlobsMatch(image, at, L)
      BY <1>7, <2>3, <3>1 DEF BlobsMatch, BiasCount
    <3> QED BY <1>1, <3>2, <3>3
  <2>6. \A image : \A at \in Nat : WrittenAt(image, at, L) => ReadLayer(image, at) = L /\ BlobsMatch(image, at, L)
    BY <2>4, <2>5 DEF WrittenAt, e
  <2> QED BY <2>3, <2>4, <2>6 DEF e
<1>10. CASE L.type = "maxpool2d"
  <2> DEFINE rest == <<Word(L.k), Word(L.stride)>>
  <2>1. e = first \o rest
    BY <1>10 DEF EncodeLayer, first
  <2>2. rest \in Seq(Field) /\ Len(rest) = 2 /\ rest[1] = Word(L.k) /\ rest[2] = Word(L.stride)
    BY <1>2
  <2> HIDE DEF rest
  <2>3. FieldCount(L) = 4 /\ Words(L.type) = 2 /\ L.type \notin Weighted
    BY <1>10 DEF FieldCount, Words, Weighted
  <2>4. e \in Seq(Field) /\ Len(e) = 4 /\ e[1] = Word(L.type) /\ e[2] = Word(L.dtype) /\ e[3] = Word(L.k)
        /\ e[4] = Word(L.stride)
    <3> HIDE DEF e
    <3>1. /\ e \in Seq(Field) /\ Len(e) = 2 + Len(rest) /\ e[1] = Word(L.type) /\ e[2] = Word(L.dtype)
          /\ \A j \in 1..Len(rest) : e[2 + j] = rest[j]
      BY <1>5, <2>1, <2>2
    <3>2. e[2 + 1] = rest[1] /\ e[2 + 2] = rest[2]
      BY <2>2, <3>1
    <3> QED BY <2>2, <3>1, <3>2
  <2> HIDE DEF e
  <2>5. ASSUME NEW image, NEW at \in Nat, \A j \in 1..4 : image[at + j - 1] = e[j]
        PROVE  ReadLayer(image, at) = L /\ BlobsMatch(image, at, L)
    <3>1. /\ image[at] = Word(L.type) /\ image[at + 1] = Word(L.dtype) /\ image[at + 1 + 1] = Word(L.k)
          /\ image[at + 1 + 2] = Word(L.stride)
      <4>1. /\ at + 1 - 1 = at /\ at + 2 - 1 = at + 1 /\ at + 3 - 1 = at + 1 + 1 /\ at + 4 - 1 = at + 1 + 2
        OBVIOUS
      <4>2. 1 \in 1..4 /\ 2 \in 1..4 /\ 3 \in 1..4 /\ 4 \in 1..4
        OBVIOUS
      <4> QED BY <2>4, <2>5, <4>1, <4>2
    <3>2. ReadLayer(image, at) = [type |-> L.type, dtype |-> L.dtype, a |-> 0, b |-> 0, k |-> L.k, stride |-> L.stride, pad |-> 0]
      BY <1>6, <1>10, <3>1 DEF ReadLayer
    <3>3. L.a = 0 /\ L.b = 0 /\ L.pad = 0
      BY <1>1, <1>10, <2>3
    <3>4. BlobsMatch(image, at, L)
      BY <2>3 DEF BlobsMatch
    <3> QED BY <1>1, <3>2, <3>3, <3>4
  <2>6. \A image : \A at \in Nat : WrittenAt(image, at, L) => ReadLayer(image, at) = L /\ BlobsMatch(image, at, L)
    BY <2>4, <2>5 DEF WrittenAt, e
  <2> QED BY <2>3, <2>4, <2>6 DEF e
<1>11. CASE L.type \in {"flatten", "relu", "softmax"}
  <2> DEFINE rest == <<>>
  <2>1. e = first \o rest
    BY <1>11 DEF EncodeLayer, first
  <2>2. rest \in Seq(Field) /\ Len(rest) = 0
    OBVIOUS
  <2> HIDE DEF rest
  <2>3. FieldCount(L) = 2 /\ Words(L.type) = 0 /\ L.type \notin Weighted
    BY <1>11 DEF FieldCount, Words, Weighted
  <2>4. e \in Seq(Field) /\ Len(e) = 2 /\ e[1] = Word(L.type) /\ e[2] = Word(L.dtype)
    <3> HIDE DEF e
    <3>1. e \in Seq(Field) /\ Len(e) = 2 + Len(rest) /\ e[1] = Word(L.type) /\ e[2] = Word(L.dtype)
      BY <1>5, <2>1, <2>2
    <3> QED BY <2>2, <3>1
  <2> HIDE DEF e
  <2>5. ASSUME NEW image, NEW at \in Nat, \A j \in 1..2 : image[at + j - 1] = e[j]
        PROVE  ReadLayer(image, at) = L /\ BlobsMatch(image, at, L)
    <3>1. image[at] = Word(L.type) /\ image[at + 1] = Word(L.dtype)
      <4>1. at + 1 - 1 = at /\ at + 2 - 1 = at + 1
        OBVIOUS
      <4>2. 1 \in 1..2 /\ 2 \in 1..2
        OBVIOUS
      <4> QED BY <2>4, <2>5, <4>1, <4>2
    <3>2. ReadLayer(image, at) = [type |-> L.type, dtype |-> L.dtype, a |-> 0, b |-> 0, k |-> 0, stride |-> 0, pad |-> 0]
      BY <1>6, <1>11, <3>1 DEF ReadLayer
    <3>3. L.a = 0 /\ L.b = 0 /\ L.pad = 0 /\ L.k = 0 /\ L.stride = 0
      BY <1>1, <1>11, <2>3
    <3>4. BlobsMatch(image, at, L)
      BY <2>3 DEF BlobsMatch
    <3> QED BY <1>1, <3>2, <3>3, <3>4
  <2>6. \A image : \A at \in Nat : WrittenAt(image, at, L) => ReadLayer(image, at) = L /\ BlobsMatch(image, at, L)
    BY <2>4, <2>5 DEF WrittenAt, e
  <2> QED BY <2>3, <2>4, <2>6 DEF e
<1>12. L.type \in {"dense", "conv2d", "maxpool2d"} \cup {"flatten", "relu", "softmax"}
  BY <1>1 DEF Weighted
<1> QED BY <1>8, <1>9, <1>10, <1>11, <1>12

\* Where the layers of an image are.
Layout(image, specs, N, at, in) ==
  /\ at \in [0..N -> Nat] /\ at[0] = 0 /\ \A i \in 1..N : at[i] = at[i - 1] + FieldCount(specs[i])
  /\ Len(image) = 5 + at[N] /\ image[2].value = N
  /\ image[3].value = in.c /\ image[4].value = in.h /\ image[5].value = in.w
  /\ \A i \in 1..N : ReadLayer(image, 6 + at[i - 1]) = specs[i] /\ BlobsMatch(image, 6 + at[i - 1], specs[i])

LEMMA ImageWritten ==
  ASSUME NEW m, ModelForm(m)
  PROVE  \E at : Layout(EncodeSwm(m), Specs(m), Len(Specs(m)), at, m.input)
<1> DEFINE specs == Specs(m)
           N == Len(specs)
           parts == [i \in 1..N |-> EncodeLayer(specs[i])]
           flat == FlattenSeq(parts)
           h == <<Word("SWM1"), Word(N), Word(m.input.c), Word(m.input.h), Word(m.input.w)>>
           image == h \o flat
<1>1. specs \in Seq(SpecForm)
  BY SpecsListed
<1>2. N \in Nat /\ DOMAIN specs = 1..N /\ \A i \in 1..N : specs[i] \in SpecForm
  BY <1>1, Indexed
<1>3. EncodeSwm(m) = image
  BY <1>2 DEF EncodeSwm
<1> HIDE DEF specs, N
<1>4. \A i \in 1..N : EncodeLayer(specs[i]) \in Seq(Field) /\ Len(EncodeLayer(specs[i])) = FieldCount(specs[i]) /\ FieldCount(specs[i]) \in Nat
  BY <1>2, LayerReadBack
<1>5. parts \in [1..N -> Seq(Field)] /\ \A i \in 1..N : parts[i] = EncodeLayer(specs[i])
  BY <1>4
<1> DEFINE v == [i \in 1..N |-> FieldCount(specs[i])]
<1>6. v \in [1..N -> Nat] /\ \A i \in 1..N : v[i] = FieldCount(specs[i])
  BY <1>4
<1> HIDE DEF v, parts
<1>7. PICK at : SumsOf(N, v, at)
  BY <1>2, <1>6, TotalSums
<1>8. at \in [0..N -> Nat] /\ at[0] = 0 /\ \A i \in 1..N : at[i] = at[i - 1] + FieldCount(specs[i])
  BY <1>6, <1>7 DEF SumsOf
<1>9. PartsAt(N, parts, at)
  BY <1>4, <1>5, <1>8 DEF PartsAt
<1>10. flat \in Seq(Field) /\ Located(parts, at, flat, N)
  BY <1>2, <1>5, <1>9, BlocksJoined
<1> HIDE DEF flat
<1>11. Len(flat) = at[N] /\ \A i \in 1..N : \A j \in 1..Len(parts[i]) :
          at[i - 1] + j \in 1..at[N] /\ flat[at[i - 1] + j] = parts[i][j]
  BY <1>10 DEF Located
<1> DEFINE T == Field \cup {Word("SWM1"), Word(N), Word(m.input.c), Word(m.input.h), Word(m.input.w)}
<1>12. h \in Seq(T) /\ Len(h) = 5 /\ h[2] = Word(N) /\ h[3] = Word(m.input.c) /\ h[4] = Word(m.input.h)
       /\ h[5] = Word(m.input.w)
  OBVIOUS
<1>13. flat \in Seq(T)
  BY <1>10
<1> HIDE DEF h, T
<1>14. /\ Len(image) = 5 + Len(flat) /\ \A k \in 1..5 : image[k] = h[k]
       /\ \A j \in 1..Len(flat) : image[5 + j] = flat[j]
  <2>1. /\ Len(h \o flat) = Len(h) + Len(flat) /\ \A k \in 1..Len(h) : (h \o flat)[k] = h[k]
        /\ \A j \in 1..Len(flat) : (h \o flat)[Len(h) + j] = flat[j]
    <3>1. h \in Seq(T) /\ flat \in Seq(T)
      BY <1>12, <1>13
    <3> QED BY ONLY <3>1, Appended
  <2> QED BY <1>12, <2>1
<1> HIDE DEF image
<1>15. image[2].value = N /\ image[3].value = m.input.c /\ image[4].value = m.input.h /\ image[5].value = m.input.w
  <2>1. 2 \in 1..5 /\ 3 \in 1..5 /\ 4 \in 1..5 /\ 5 \in 1..5
    OBVIOUS
  <2> QED BY <1>12, <1>14, <2>1, Fields
<1>16. ASSUME NEW i \in 1..N
       PROVE  ReadLayer(image, 6 + at[i - 1]) = specs[i] /\ BlobsMatch(image, 6 + at[i - 1], specs[i])
  <2> DEFINE p == 6 + at[i - 1]
             e == EncodeLayer(specs[i])
  <2>1. i - 1 \in 0..N /\ at[i - 1] \in Nat
    <3>1. i - 1 \in 0..N
      BY <1>2
    <3> QED BY <1>8, <3>1
  <2>2. ASSUME NEW j \in 1..Len(e) PROVE image[p + j - 1] = e[j]
    <3>1. at[i - 1] + j \in 1..Len(flat) /\ flat[at[i - 1] + j] = e[j]
      BY <1>5, <1>11
    <3>2. Len(e) \in Nat
      BY <1>4
    <3>3. p + j - 1 = 5 + (at[i - 1] + j)
      <4> HIDE DEF e
      <4> QED BY <2>1, <3>2
    <3> HIDE DEF p, e
    <3> QED BY <1>14, <3>1, <3>3
  <2>3. p \in Nat
    BY <2>1
  <2>4. WrittenAt(image, p, specs[i])
    <3> HIDE DEF p
    <3> QED BY <2>2 DEF WrittenAt
  <2> HIDE DEF p
  <2>5. ReadLayer(image, p) = specs[i] /\ BlobsMatch(image, p, specs[i])
    BY <1>2, <2>3, <2>4, LayerReadBack
  <2> QED BY <2>5 DEF p
<1>17. Layout(image, specs, N, at, m.input)
  BY <1>8, <1>11, <1>14, <1>15, <1>16 DEF Layout
<1> QED BY <1>3, <1>17 DEF specs, N

\* After one layer comes the next.
LEMMA AfterIs ==
  ASSUME NEW image, NEW L \in SpecForm, NEW at \in Nat
  PROVE  After(image, at, L) = at + FieldCount(L)
<1>1. FieldCount(L) \in Nat
  BY LayerReadBack
<1>2. Words(L.type) \in Nat
  BY DEF Words
<1> QED BY <1>2 DEF After, FieldCount

\* The sets a fold over 1..N goes through.
LEMMA FirstOnes ==
  ASSUME NEW N \in Nat
  PROVE  /\ \A k \in 1..N : 1..k \in SUBSET (1..N) /\ 1..k # {} /\ Max(1..k) = k /\ (1..k) \ {k} = 1..(k - 1)
         /\ 1..0 = {}
<1>1. ASSUME NEW k \in 1..N PROVE /\ 1..k \in SUBSET (1..N) /\ 1..k # {} /\ Max(1..k) = k /\ (1..k) \ {k} = 1..(k - 1)
  <2>1. 1..k \in SUBSET (1..N) /\ k \in 1..k /\ k \in Int /\ \A x \in 1..k : x \in Int /\ k >= x
    OBVIOUS
  <2> DEFINE S == 1..k
  <2>2. Max(S) = k
    <3>1. k \in S /\ \A x \in S : x \in Int /\ k >= x
      BY <2>1
    <3> HIDE DEF S
    <3> QED BY <2>1, <3>1, LargestIs
  <2> QED BY <2>1, <2>2
<1> QED BY <1>1

LEMMA WithoutLargest ==
  ASSUME NEW N \in Nat, NEW S \in SUBSET (1..N), S # {}
  PROVE  /\ Max(S) \in 1..N /\ S \ {Max(S)} \in SUBSET (1..N)
         /\ Cardinality(S) \in 1..N /\ Cardinality(S \ {Max(S)}) = Cardinality(S) - 1
<1>1. Max(S) \in S /\ Max(S) \in 1..N
  BY LargestOf
<1>2. IsFiniteSet(1..N) /\ Cardinality(1..N) = N
  BY FS_Interval
<1>3. IsFiniteSet(S) /\ Cardinality(S) <= N /\ Cardinality(S) \in Nat
  BY <1>2, FS_Subset, FS_CardinalityType
<1>4. Cardinality(S \ {Max(S)}) = Cardinality(S) - 1
  BY <1>1, <1>3, FS_RemoveElement
<1>5. Cardinality(S) # 0
  BY <1>3, FS_EmptySet
<1>6. S \ {Max(S)} \in SUBSET (1..N)
  OBVIOUS
<1>7. \A c \in Nat : c # 0 /\ c <= N => c \in 1..N
  OBVIOUS
<1> QED BY <1>1, <1>3, <1>4, <1>5, <1>6, <1>7

\* numpy reads back what was written.
LEMMA ReadBack ==
  ASSUME NEW specs \in Seq(SpecForm), NEW image, NEW at, NEW in, Layout(image, specs, Len(specs), at, in)
  PROVE  ReadSwm(image) = [at |-> Len(image) + 1, layers |-> specs, ok |-> TRUE]
<1> DEFINE N == Len(specs)
           b == [at |-> 6, layers |-> <<>>, ok |-> TRUE]
           Read(r, L) == [at |-> After(image, r.at, L), layers |-> Append(r.layers, L),
                          ok |-> r.ok /\ BlobsMatch(image, r.at, L)]
           More(r) == Read(r, ReadLayer(image, r.at))
           R(k) == [at |-> 6 + at[k], layers |-> SubSeq(specs, 1, k), ok |-> TRUE]
           Is(h) == h = [S \in SUBSET (1..N) |-> IF S = {} THEN b ELSE More(h[S \ {Max(S)}])]
           it == CHOOSE h : Is(h)
           ones == [i \in 1..N |-> i]
<1>1. N \in Nat /\ DOMAIN specs = 1..N /\ \A i \in 1..N : specs[i] \in SpecForm
  BY Indexed
<1>2. ReadSwm(image) = it[1..N]
  <2>1. image[2].value = N /\ DOMAIN ones = 1..N
    BY DEF Layout
  <2>2. ReadSwm(image) = FoldLeft(LAMBDA r, i : More(r), b, ones)
    BY <2>1 DEF ReadSwm
  <2> HIDE DEF More, ones, N, b
  <2> QED BY <2>1, <2>2, Zenon DEF FoldLeft, MapThenFoldSet
<1> HIDE DEF N
<1>3. /\ at \in [0..N -> Nat] /\ at[0] = 0 /\ \A i \in 1..N : at[i] = at[i - 1] + FieldCount(specs[i])
      /\ Len(image) = 5 + at[N]
      /\ \A i \in 1..N : ReadLayer(image, 6 + at[i - 1]) = specs[i] /\ BlobsMatch(image, 6 + at[i - 1], specs[i])
  BY DEF Layout, N
<1>4. R(0) = b
  <2>1. SubSeq(specs, 1, 0) = <<>>
    OBVIOUS
  <2>2. 6 + at[0] = 6
    BY <1>3
  <2> QED BY <2>1, <2>2
<1>5. ASSUME NEW k \in 1..N PROVE R(k) = More(R(k - 1))
  <2>1. k - 1 \in 0..N /\ at[k - 1] \in Nat /\ k - 1 \in Nat
    <3>1. k - 1 \in 0..N /\ k - 1 \in Nat
      BY <1>1
    <3> QED BY <1>3, <3>1
  <2>2. ReadLayer(image, 6 + at[k - 1]) = specs[k] /\ BlobsMatch(image, 6 + at[k - 1], specs[k])
    BY <1>3
  <2>3. After(image, 6 + at[k - 1], specs[k]) = 6 + at[k]
    <3>1. 6 + at[k - 1] \in Nat /\ specs[k] \in SpecForm
      BY <1>1, <2>1
    <3>2. After(image, 6 + at[k - 1], specs[k]) = (6 + at[k - 1]) + FieldCount(specs[k])
      BY <3>1, AfterIs
    <3>3. FieldCount(specs[k]) \in Nat /\ at[k] = at[k - 1] + FieldCount(specs[k])
      BY <1>3, <3>1, LayerReadBack
    <3> QED BY <2>1, <3>2, <3>3
  <2>4. Append(SubSeq(specs, 1, k - 1), specs[k]) = SubSeq(specs, 1, k)
    <3>1. k <= Len(specs) /\ Len(specs) \in Nat
      BY <1>1 DEF N
    <3> QED BY <1>1, <3>1
  <2> QED BY <2>2, <2>3, <2>4
<1> HIDE DEF R, More, b
<1>6. Is([S \in SUBSET (1..N) |-> R(Cardinality(S))])
  <2> DEFINE h == [S \in SUBSET (1..N) |-> R(Cardinality(S))]
  <2>1. ASSUME NEW S \in SUBSET (1..N) PROVE h[S] = IF S = {} THEN b ELSE More(h[S \ {Max(S)}])
    <3>1. CASE S = {}
      <4>1. Cardinality(S) = 0
        BY <3>1, FS_EmptySet
      <4> QED BY <1>4, <3>1, <4>1
    <3>2. CASE S # {}
      <4>1. S \ {Max(S)} \in SUBSET (1..N) /\ Cardinality(S) \in 1..N
            /\ Cardinality(S \ {Max(S)}) = Cardinality(S) - 1
        BY <1>1, <3>2, WithoutLargest
      <4>2. R(Cardinality(S)) = More(R(Cardinality(S) - 1))
        BY <1>5, <4>1
      <4> QED BY <3>2, <4>1, <4>2
    <3> QED BY <3>1, <3>2
  <2>2. h = [S \in SUBSET (1..N) |-> h[S]]
    OBVIOUS
  <2> HIDE DEF h
  <2> QED BY <2>1, <2>2 DEF h
<1>7. Is(it)
  <2> HIDE DEF Is
  <2> QED BY <1>6
<1> HIDE DEF it
<1>8. \A k \in 0..N : it[1..k] = R(k)
  <2> DEFINE Z == {k \in Nat : k <= N => it[1..k] = R(k)}
  <2>1. 0 \in Z
    <3>1. 1..0 = {} /\ {} \in SUBSET (1..N)
      OBVIOUS
    <3> QED BY <1>4, <1>7, <3>1
  <2>2. ASSUME NEW k \in Nat, k \in Z PROVE k + 1 \in Z
    <3> SUFFICES ASSUME k + 1 <= N PROVE it[1..(k + 1)] = R(k + 1)
      OBVIOUS
    <3>1. k + 1 \in 1..N /\ (k + 1) - 1 = k /\ it[1..k] = R(k)
      BY <1>1, <2>2
    <3> DEFINE S == 1..(k + 1)
    <3>2. S \in SUBSET (1..N) /\ S # {} /\ S \ {Max(S)} = 1..k
      <4>1. S \in SUBSET (1..N) /\ S # {} /\ Max(S) = k + 1 /\ S \ {k + 1} = 1..((k + 1) - 1)
        BY <1>1, <3>1, FirstOnes
      <4> HIDE DEF S
      <4> QED BY <3>1, <4>1
    <3> HIDE DEF S
    <3>3. it[S] = More(it[S \ {Max(S)}])
      BY <1>7, <3>2
    <3> HIDE DEF Is
    <3>4. it[S] = R(k + 1)
      <4>1. R(k + 1) = More(R(k))
        BY <1>5, <3>1
      <4> QED BY <3>1, <3>2, <3>3, <4>1
    <3> QED BY <3>4 DEF S
  <2>3. Nat \subseteq Z
    <3> HIDE DEF Z
    <3> QED BY <2>1, <2>2, FromOneToNext
  <2> QED BY <2>3
<1>9. R(N) = [at |-> Len(image) + 1, layers |-> specs, ok |-> TRUE]
  <2>1. N \in 0..N /\ at[N] \in Nat
    BY <1>1, <1>3
  <2>2. 6 + at[N] = Len(image) + 1
    BY <1>3, <2>1
  <2>3. SubSeq(specs, 1, N) = specs
    BY WholePiece DEF N
  <2> QED BY <2>2, <2>3 DEF R
<1>10. N \in 0..N
  BY <1>1
<1> QED BY <1>2, <1>8, <1>9, <1>10

-----------------------------------------------------------------------------
(* The C++ engine parses a network.                                        *)

Scratch == DOMAIN NoScratch
ParseState ==
  [ok : BOOLEAN, at : Nat, layers : Seq(SpecForm), shapes : Seq(AnyShape) \ {<<>>}, blocks : Seq(Nat),
   required : Nat, weights : Nat, macs : Int, maxAct : Nat, scratch : [Scratch -> Nat]]

LEMMA ScratchNames ==
  /\ Scratch = {"q_in", "cols_i8", "cols_f32", "acc"} /\ NoScratch \in [Scratch -> Nat]
  /\ \A f \in Scratch : NoScratch[f] = 0
BY DEF Scratch, NoScratch

LEMMA PlansAreShapes ==
  ASSUME NEW L \in SpecForm, NEW in \in AnyShape
  PROVE  PlanLayer(L, in) \in AnyShape
<1>1. /\ L.a \in Nat /\ L.b \in Nat /\ L.k \in Nat /\ L.stride \in Nat /\ L.pad \in Nat
      /\ L.type \in {"conv2d", "maxpool2d"} => L.k > 0 /\ L.stride > 0
  BY DEF SpecForm
<1>2. in.c \in Int /\ in.h \in Int /\ in.w \in Int
  BY DEF AnyShape
<1>3. Refused \in AnyShape
  BY DEF Refused, AnyShape
<1>4. \A c, h, w \in Int : Shape(c, h, w) \in AnyShape
  BY DEF Shape, AnyShape
<1>5. Flat(L.b) \in AnyShape /\ Flat(Elems(in)) \in AnyShape
  <2>1. Elems(in) \in Int /\ L.b \in Int
    BY <1>1, <1>2 DEF Elems
  <2> QED BY <1>4, <2>1 DEF Flat
<1>6. ASSUME L.type \in {"conv2d", "maxpool2d"}, NEW x \in Int PROVE ConvOutDim(x, L.k, L.stride, L.pad) \in Int
  <2> DEFINE room == x + 2 * L.pad - L.k
             d == L.stride
  <2>1. room \in Int /\ d \in Nat /\ d > 0
    BY <1>1, <1>6
  <2>2. ConvOutDim(x, L.k, L.stride, L.pad) = (IF room >= 0 THEN room \div d ELSE -((-room) \div d)) + 1
    BY DEF ConvOutDim
  <2> HIDE DEF room, d
  <2>3. -room \in Int
    BY <2>1
  <2>4. room \div d \in Int /\ (-room) \div d \in Int
    BY <2>1, <2>3
  <2>5. -((-room) \div d) \in Int
    BY <2>4
  <2>6. (IF room >= 0 THEN room \div d ELSE -((-room) \div d)) \in Int
    BY <2>4, <2>5
  <2> QED BY <2>2, <2>6
<1> DEFINE oh == ConvOutDim(in.h, L.k, L.stride, L.pad)
           ow == ConvOutDim(in.w, L.k, L.stride, L.pad)
<1>7. ASSUME L.type \in {"conv2d", "maxpool2d"}
      PROVE  Shape(L.b, oh, ow) \in AnyShape /\ Shape(in.c, oh, ow) \in AnyShape
  <2>1. oh \in Int /\ ow \in Int
    BY <1>2, <1>6, <1>7
  <2> QED BY <1>1, <1>2, <1>4, <2>1
<1> HIDE DEF oh, ow
<1>8. CASE L.type = "conv2d"
  BY <1>3, <1>7, <1>8 DEF PlanLayer, oh, ow
<1>9. CASE L.type = "maxpool2d"
  BY <1>3, <1>7, <1>9 DEF PlanLayer, oh, ow
<1>10. CASE L.type = "dense"
  BY <1>3, <1>5, <1>10 DEF PlanLayer
<1>11. CASE L.type = "flatten"
  BY <1>5, <1>11 DEF PlanLayer
<1>12. CASE L.type \notin {"dense", "conv2d", "maxpool2d", "flatten"}
  BY <1>12 DEF PlanLayer
<1> QED BY <1>8, <1>9, <1>10, <1>11, <1>12

LEMMA LargerIs ==
  \A x, y \in Int : /\ Larger(x, y) \in {x, y} /\ Larger(x, y) >= x /\ Larger(x, y) >= y
                    /\ Larger(x, y) \in Int /\ (x \in Nat => Larger(x, y) \in Nat)
BY DEF Larger

LEMMA NeedsAreNumbers ==
  ASSUME NEW L \in SpecForm, NEW in \in AnyShape, NEW out \in AnyShape
  PROVE  /\ \A f \in Scratch : ScratchNeeds(L, in, out)[f] \in Int
         /\ LayerMacs(L, out) \in Int /\ Elems(in) \in Int /\ Elems(out) \in Int
<1>1. L.a \in Nat /\ L.b \in Nat /\ L.k \in Nat
  BY DEF SpecForm
<1>2. in.c \in Int /\ in.h \in Int /\ in.w \in Int /\ out.c \in Int /\ out.h \in Int /\ out.w \in Int
  BY DEF AnyShape
<1>3. \A x, y \in Int : x * y \in Int
  OBVIOUS
<1>4. Elems(in) \in Int /\ Elems(out) \in Int
  BY <1>2, <1>3 DEF Elems
<1> DEFINE K == L.a * L.k * L.k
           N == out.h * out.w
<1>5. K \in Int /\ N \in Int /\ L.a \in Int /\ L.b \in Int
  BY <1>1, <1>2, <1>3
<1>6. LayerMacs(L, out) \in Int
  <2>1. L.a * L.b \in Int /\ L.b * out.h * out.w * L.a * L.k * L.k \in Int
    BY <1>1, <1>2, <1>3
  <2> QED BY <2>1 DEF LayerMacs
<1>7. K * N \in Int /\ L.b * N \in Int
  BY <1>3, <1>5
<1>8. \A f \in Scratch : ScratchNeeds(L, in, out)[f] \in Int
  <2> DEFINE e == Elems(in)
             kn == K * N
             bn == L.b * N
             s == CASE L.type = "dense" /\ L.dtype = "i8" -> [NoScratch EXCEPT !.q_in = L.a, !.acc = L.b]
                    [] L.type = "conv2d" /\ L.dtype = "i8" -> [NoScratch EXCEPT !.q_in = e, !.cols_i8 = kn, !.acc = bn]
                    [] L.type = "conv2d" /\ ~(L.dtype = "i8") -> [NoScratch EXCEPT !.cols_f32 = kn]
                    [] OTHER -> NoScratch
  <2>1. ScratchNeeds(L, in, out) = s
    BY DEF ScratchNeeds
  <2>2. e \in Int /\ kn \in Int /\ bn \in Int
    BY <1>4, <1>7
  <2> HIDE DEF e, kn, bn, K, N
  <2>3. \A f \in {"q_in", "cols_i8", "cols_f32", "acc"} : s[f] \in Int
    <3>1. CASE L.type = "dense" /\ L.dtype = "i8"
      <4>1. s = [NoScratch EXCEPT !.q_in = L.a, !.acc = L.b]
        BY <3>1
      <4> DEFINE la == L.a
                 lb == L.b
      <4>2. la \in Int /\ lb \in Int
        BY <1>5
      <4> HIDE DEF s, la, lb
      <4>3. s = [q_in |-> la, cols_i8 |-> 0, cols_f32 |-> 0, acc |-> lb]
        BY <4>1 DEF NoScratch, la, lb
      <4> QED BY <4>2, <4>3
    <3>2. CASE L.type = "conv2d" /\ L.dtype = "i8"
      <4>1. s = [NoScratch EXCEPT !.q_in = e, !.cols_i8 = kn, !.acc = bn]
        BY <3>2
      <4> HIDE DEF s
      <4>2. s = [q_in |-> e, cols_i8 |-> kn, cols_f32 |-> 0, acc |-> bn]
        BY <4>1 DEF NoScratch
      <4> QED BY <2>2, <4>2
    <3>3. CASE L.type = "conv2d" /\ ~(L.dtype = "i8")
      <4>1. s = [NoScratch EXCEPT !.cols_f32 = kn]
        BY <3>3
      <4> HIDE DEF s
      <4>2. s = [q_in |-> 0, cols_i8 |-> 0, cols_f32 |-> kn, acc |-> 0]
        BY <4>1 DEF NoScratch
      <4> QED BY <2>2, <4>2
    <3>4. CASE ~(L.type = "dense" /\ L.dtype = "i8") /\ L.type # "conv2d"
      <4>1. s = NoScratch
        BY <3>4
      <4> HIDE DEF s
      <4> QED BY <4>1 DEF NoScratch
    <3> QED BY <3>1, <3>2, <3>3, <3>4
  <2> QED BY <2>1, <2>3, ScratchNames
<1> QED BY <1>4, <1>6, <1>8

\* What a layer that fits adds.
Added(r, image, L, out) ==
  LET weights == IF L.type \in Weighted THEN <<WeightBytes(L), 4 * BiasCount(L)>> ELSE <<>>
  IN  [ok |-> TRUE, at |-> After(image, r.at, L),
       layers |-> Append(r.layers, L), shapes |-> Append(r.shapes, out),
       blocks |-> r.blocks \o weights,
       required |-> r.required + ArenaBytes(weights),
       weights |-> r.weights + WeightBytes(L) + 4 * BiasCount(L),
       macs |-> r.macs + LayerMacs(L, out),
       maxAct |-> Larger(r.maxAct, Larger(Elems(Last(r.shapes)), Elems(out))),
       scratch |-> [f \in Scratch |-> Larger(r.scratch[f], ScratchNeeds(L, Last(r.shapes), out)[f])]]

LEMMA AddedOrNot ==
  ASSUME NEW r, NEW image, NEW L, NEW out
  PROVE  AddLayer(r, image, L, out) =
            IF r.ok /\ BlobsMatch(image, r.at, L) /\ out # Refused /\ WithinLimits(L, out)
            THEN Added(r, image, L, out) ELSE [r EXCEPT !.ok = FALSE]
BY DEF AddLayer, Added, Scratch

WeightsOf(L) == IF L.type \in Weighted THEN <<WeightBytes(L), 4 * BiasCount(L)>> ELSE <<>>
LEMMA WeightsAreBlocks ==
  ASSUME NEW L \in SpecForm
  PROVE  WeightsOf(L) \in Seq(Nat) /\ ArenaBytes(WeightsOf(L)) \in Nat
<1>1. WeightBytes(L) \in Nat /\ 4 * BiasCount(L) \in Nat
  BY BytesAreCounted
<1> DEFINE x == WeightBytes(L)
           y == 4 * BiasCount(L)
<1>2. x \in Nat /\ y \in Nat /\ WeightsOf(L) \in {<<x, y>>, <<>>}
  BY <1>1 DEF WeightsOf
<1> HIDE DEF x, y
<1>3. <<x, y>> \in Seq(Nat) /\ <<>> \in Seq(Nat)
  BY <1>2
<1>4. WeightsOf(L) \in Seq(Nat)
  BY <1>2, <1>3
<1> QED BY <1>4, PlacedWithin

LEMMA LastShape ==
  ASSUME NEW s \in Seq(AnyShape) \ {<<>>}
  PROVE  Last(s) \in AnyShape /\ Last(s) = s[Len(s)] /\ Len(s) \in Nat \ {0}
<1>1. s \in Seq(AnyShape) /\ s # <<>>
  OBVIOUS
<1>2. Len(s) \in Nat /\ Len(s) # 0 /\ DOMAIN s = 1..Len(s) /\ \A i \in 1..Len(s) : s[i] \in AnyShape
  BY <1>1, Indexed
<1> DEFINE k == Len(s)
<1>3. k \in 1..k
  <2> HIDE DEF k
  <2>1. k \in Nat /\ k # 0
    BY <1>2 DEF k
  <2> QED BY <2>1
<1> QED BY <1>2, <1>3 DEF Last

LEMMA AddedIsState ==
  ASSUME NEW r \in ParseState, NEW image, NEW L \in SpecForm, NEW out \in AnyShape
  PROVE  Added(r, image, L, out) \in ParseState /\ [r EXCEPT !.ok = FALSE] \in ParseState
<1>1. /\ r.at \in Nat /\ r.layers \in Seq(SpecForm) /\ r.shapes \in Seq(AnyShape) \ {<<>>} /\ r.blocks \in Seq(Nat)
      /\ r.required \in Nat /\ r.weights \in Nat /\ r.macs \in Int /\ r.maxAct \in Nat /\ r.scratch \in [Scratch -> Nat]
  BY DEF ParseState
<1> DEFINE in == Last(r.shapes)
<1>2. in \in AnyShape
  BY <1>1, LastShape
<1>3. After(image, r.at, L) \in Nat
  <2>1. FieldCount(L) \in Nat
    BY LayerReadBack
  <2> QED BY <1>1, <2>1, AfterIs
<1>4. Append(r.layers, L) \in Seq(SpecForm) /\ Append(r.shapes, out) \in Seq(AnyShape) \ {<<>>}
  <2>1. \A u \in Seq(AnyShape), v \in AnyShape : Append(u, v) \in Seq(AnyShape) /\ Append(u, v) # <<>>
    <3> TAKE u \in Seq(AnyShape), v \in AnyShape
    <3>1. Append(u, v) \in Seq(AnyShape)
      OBVIOUS
    <3>2. Len(Append(u, v)) = Len(u) + 1 /\ Len(u) \in Nat /\ Len(<<>>) = 0
      OBVIOUS
    <3>3. Len(Append(u, v)) # 0
      BY <3>2
    <3> QED BY <3>1, <3>2, <3>3
  <2>2. \A u \in Seq(SpecForm), v \in SpecForm : Append(u, v) \in Seq(SpecForm)
    OBVIOUS
  <2>3. r.shapes \in Seq(AnyShape)
    BY <1>1
  <2> QED BY <1>1, <2>1, <2>2, <2>3
<1>5. WeightsOf(L) \in Seq(Nat) /\ ArenaBytes(WeightsOf(L)) \in Nat
  BY WeightsAreBlocks
<1>6. r.blocks \o WeightsOf(L) \in Seq(Nat) /\ r.required + ArenaBytes(WeightsOf(L)) \in Nat
  BY <1>1, <1>5
<1>7. r.weights + WeightBytes(L) + 4 * BiasCount(L) \in Nat
  <2>1. WeightBytes(L) \in Nat /\ 4 * BiasCount(L) \in Nat
    BY BytesAreCounted
  <2> QED BY <1>1, <2>1
<1>8. /\ \A f \in Scratch : ScratchNeeds(L, in, out)[f] \in Int
      /\ LayerMacs(L, out) \in Int /\ Elems(in) \in Int /\ Elems(out) \in Int
  BY <1>2, NeedsAreNumbers
<1>9. r.macs + LayerMacs(L, out) \in Int
  BY <1>1, <1>8
<1>10. Larger(r.maxAct, Larger(Elems(in), Elems(out))) \in Nat
  <2> DEFINE x == Elems(in)
             y == Elems(out)
             z == Larger(x, y)
             w == r.maxAct
  <2>1. x \in Int /\ y \in Int
    BY <1>8
  <2> HIDE DEF x, y
  <2>2. z \in Int
    BY <2>1, LargerIs
  <2>3. w \in Nat /\ w \in Int
    BY <1>1
  <2> HIDE DEF z, w
  <2>4. Larger(w, z) \in Nat
    BY <2>2, <2>3, LargerIs
  <2> QED BY <2>4 DEF w, x, y, z
<1> DEFINE scratch == [f \in Scratch |-> Larger(r.scratch[f], ScratchNeeds(L, in, out)[f])]
<1>11. scratch \in [Scratch -> Nat]
  <2>1. ASSUME NEW f \in Scratch PROVE Larger(r.scratch[f], ScratchNeeds(L, in, out)[f]) \in Nat
    <3>1. r.scratch[f] \in Nat /\ ScratchNeeds(L, in, out)[f] \in Int
      BY <1>1, <1>8
    <3>2. r.scratch[f] \in Int
      BY <3>1
    <3> QED BY <3>1, <3>2, LargerIs
  <2> QED BY <2>1
<1>12. Added(r, image, L, out) =
          [ok |-> TRUE, at |-> After(image, r.at, L),
           layers |-> Append(r.layers, L), shapes |-> Append(r.shapes, out),
           blocks |-> r.blocks \o WeightsOf(L),
           required |-> r.required + ArenaBytes(WeightsOf(L)),
           weights |-> r.weights + WeightBytes(L) + 4 * BiasCount(L),
           macs |-> r.macs + LayerMacs(L, out),
           maxAct |-> Larger(r.maxAct, Larger(Elems(in), Elems(out))),
           scratch |-> scratch]
  BY DEF Added, WeightsOf
<1> DEFINE lay == Append(r.layers, L)
           sha == Append(r.shapes, out)
           blo == r.blocks \o WeightsOf(L)
           req == r.required + ArenaBytes(WeightsOf(L))
           wei == r.weights + WeightBytes(L) + 4 * BiasCount(L)
           mac == r.macs + LayerMacs(L, out)
           act == Larger(r.maxAct, Larger(Elems(in), Elems(out)))
           nxt == After(image, r.at, L)
<1>13. /\ lay \in Seq(SpecForm) /\ sha \in Seq(AnyShape) \ {<<>>} /\ blo \in Seq(Nat) /\ req \in Nat /\ wei \in Nat
       /\ mac \in Int /\ act \in Nat /\ nxt \in Nat
  BY <1>3, <1>4, <1>6, <1>7, <1>9, <1>10
<1> HIDE DEF scratch, lay, sha, blo, req, wei, mac, act, nxt
<1>14. [ok |-> TRUE, at |-> nxt, layers |-> lay, shapes |-> sha, blocks |-> blo, required |-> req, weights |-> wei,
        macs |-> mac, maxAct |-> act, scratch |-> scratch] \in ParseState
  BY <1>11, <1>13 DEF ParseState
<1>15. Added(r, image, L, out) \in ParseState
  BY <1>12, <1>14 DEF lay, sha, blo, req, wei, mac, act, nxt
<1>16. [r EXCEPT !.ok = FALSE] \in ParseState
  BY DEF ParseState
<1> QED BY <1>15, <1>16

\* What the parser starts from, and its states, one layer after the other.
Start(in, N) ==
  [ok |-> InputFits(in, N), at |-> 6, layers |-> <<>>, shapes |-> <<in>>, blocks |-> <<>>, required |-> 0,
   weights |-> 0, macs |-> 0, maxAct |-> 0, scratch |-> NoScratch]
Parsing(image, specs, N, in, R) ==
  /\ R \in [0..N -> ParseState] /\ R[0] = Start(in, N)
  /\ \A k \in 1..N : R[k] = PlanAndAdd(R[k - 1], image, specs[k])

LEMMA StartIsState ==
  ASSUME NEW in \in ShapeForm, NEW N \in Nat
  PROVE  Start(in, N) \in ParseState /\ in \in AnyShape
<1>1. in \in AnyShape
  BY DEF ShapeForm, AnyShape
<1>2. <<in>> \in Seq(AnyShape) \ {<<>>}
  <2>1. <<in>> \in Seq(AnyShape)
    BY <1>1
  <2>2. Len(<<in>>) = 1 /\ Len(<<>>) = 0
    OBVIOUS
  <2> QED BY <2>1, <2>2
<1>3. <<>> \in Seq(SpecForm) /\ <<>> \in Seq(Nat)
  OBVIOUS
<1>4. InputFits(in, N) \in BOOLEAN
  BY DEF InputFits
<1> DEFINE s == <<in>>
           e == <<>>
           i == InputFits(in, N)
<1>5. s \in Seq(AnyShape) \ {<<>>} /\ e \in Seq(SpecForm) /\ e \in Seq(Nat) /\ i \in BOOLEAN
  BY <1>2, <1>3, <1>4
<1> HIDE DEF s, e, i
<1>6. [ok |-> i, at |-> 6, layers |-> e, shapes |-> s, blocks |-> e, required |-> 0,
       weights |-> 0, macs |-> 0, maxAct |-> 0, scratch |-> NoScratch] \in ParseState
  BY <1>5, ScratchNames DEF ParseState
<1> QED BY <1>1, <1>6 DEF Start, s, e, i

LEMMA PlannedIsState ==
  ASSUME NEW r \in ParseState, NEW image, NEW L \in SpecForm
  PROVE  PlanAndAdd(r, image, L) \in ParseState
<1> DEFINE in == Last(r.shapes)
           out == PlanLayer(L, in)
<1>1. in \in AnyShape
  <2>1. r.shapes \in Seq(AnyShape) \ {<<>>}
    BY DEF ParseState
  <2> QED BY <2>1, LastShape
<1>2. out \in AnyShape
  <2> HIDE DEF in
  <2> QED BY <1>1, PlansAreShapes
<1>3. PlanAndAdd(r, image, L) = AddLayer(r, image, L, out)
  BY DEF PlanAndAdd
<1> HIDE DEF out
<1>4. AddLayer(r, image, L, out) \in {Added(r, image, L, out), [r EXCEPT !.ok = FALSE]}
  BY AddedOrNot
<1>5. Added(r, image, L, out) \in ParseState /\ [r EXCEPT !.ok = FALSE] \in ParseState
  BY <1>2, AddedIsState
<1> QED BY <1>3, <1>4, <1>5

\* A refusal is final; a layer that is added is the next one of the file.
LEMMA OneLayer ==
  ASSUME NEW r \in ParseState, NEW image, NEW L
  PROVE  LET in == Last(r.shapes)
             out == PlanLayer(L, in)
         IN  /\ ~r.ok => PlanAndAdd(r, image, L) = [r EXCEPT !.ok = FALSE]
             /\ PlanAndAdd(r, image, L).ok
                   <=> r.ok /\ BlobsMatch(image, r.at, L) /\ out # Refused /\ WithinLimits(L, out)
             /\ PlanAndAdd(r, image, L).ok => PlanAndAdd(r, image, L) = Added(r, image, L, out)
<1> DEFINE in == Last(r.shapes)
           out == PlanLayer(L, in)
<1>1. PlanAndAdd(r, image, L) =
            IF r.ok /\ BlobsMatch(image, r.at, L) /\ out # Refused /\ WithinLimits(L, out)
            THEN Added(r, image, L, out) ELSE [r EXCEPT !.ok = FALSE]
  BY AddedOrNot DEF PlanAndAdd
<1>2. Added(r, image, L, out).ok = TRUE
  BY DEF Added
<1>3. [r EXCEPT !.ok = FALSE].ok = FALSE
  BY DEF ParseState
<1> HIDE DEF out, in
<1>4. /\ ~r.ok => PlanAndAdd(r, image, L) = [r EXCEPT !.ok = FALSE]
      /\ PlanAndAdd(r, image, L).ok
            <=> r.ok /\ BlobsMatch(image, r.at, L) /\ out # Refused /\ WithinLimits(L, out)
      /\ PlanAndAdd(r, image, L).ok => PlanAndAdd(r, image, L) = Added(r, image, L, out)
  <2>1. CASE r.ok /\ BlobsMatch(image, r.at, L) /\ out # Refused /\ WithinLimits(L, out)
    BY <1>1, <1>2, <2>1
  <2>2. CASE ~(r.ok /\ BlobsMatch(image, r.at, L) /\ out # Refused /\ WithinLimits(L, out))
    BY <1>1, <1>3, <2>2
  <2> QED BY <2>1, <2>2
<1> QED BY <1>4 DEF out, in

LEMMA ParsedInPlace ==
  ASSUME NEW specs \in Seq(SpecForm), NEW image, NEW at, NEW in, Layout(image, specs, Len(specs), at, in),
         NEW R, Parsing(image, specs, Len(specs), in, R)
  PROVE  \A k \in 0..Len(specs) : R[k].ok => R[k].at = 6 + at[k]
<1> DEFINE N == Len(specs)
           Z == {k \in Nat : k <= N /\ R[k].ok => R[k].at = 6 + at[k]}
<1>1. N \in Nat /\ \A i \in 1..N : specs[i] \in SpecForm
  BY Indexed
<1>2. at \in [0..N -> Nat] /\ at[0] = 0 /\ \A i \in 1..N : at[i] = at[i - 1] + FieldCount(specs[i])
  BY DEF Layout
<1>3. R \in [0..N -> ParseState] /\ R[0] = Start(in, N) /\ \A k \in 1..N : R[k] = PlanAndAdd(R[k - 1], image, specs[k])
  BY DEF Parsing
<1> HIDE DEF N
<1>4. 0 \in Z
  BY <1>2, <1>3 DEF Start
<1>5. ASSUME NEW k \in Nat, k \in Z PROVE k + 1 \in Z
  <2> SUFFICES ASSUME k + 1 <= N, R[k + 1].ok PROVE R[k + 1].at = 6 + at[k + 1]
    OBVIOUS
  <2>1. k + 1 \in 1..N /\ (k + 1) - 1 = k /\ k \in 0..N /\ k <= N
    BY <1>1
  <2> DEFINE r == R[k]
             L == specs[k + 1]
             out == PlanLayer(L, Last(r.shapes))
  <2>2. r \in ParseState /\ L \in SpecForm /\ R[k + 1] = PlanAndAdd(r, image, L)
    BY <1>1, <1>3, <2>1
  <2>3. r.ok /\ R[k + 1] = Added(r, image, L, out)
    <3> HIDE DEF r, L
    <3> QED BY <2>2, OneLayer
  <2>4. R[k + 1].at = After(image, r.at, L)
    BY <2>3 DEF Added
  <2>5. r.at = 6 + at[k] /\ at[k] \in Nat
    BY <1>2, <1>5, <2>1, <2>3
  <2>6. After(image, r.at, L) = r.at + FieldCount(L) /\ FieldCount(L) \in Nat
    <3> HIDE DEF L
    <3>1. r.at \in Nat
      BY <2>5
    <3> HIDE DEF r
    <3> QED BY <2>2, <3>1, AfterIs, LayerReadBack
  <2>7. at[k + 1] = at[k] + FieldCount(L)
    BY <1>2, <2>1
  <2> HIDE DEF r, L
  <2> QED BY <2>4, <2>5, <2>6, <2>7
<1>6. Nat \subseteq Z
  <2> HIDE DEF Z
  <2> QED BY <1>4, <1>5, FromOneToNext
<1>7. \A k \in 0..N : k \in Nat /\ k <= N
  BY <1>1
<1> QED BY <1>6, <1>7 DEF N

\* The parser's states are there, and the last one is what it returns.
LEMMA ParsingExists ==
  ASSUME NEW specs \in Seq(SpecForm), NEW image, NEW in \in ShapeForm
  PROVE  \E R : Parsing(image, specs, Len(specs), in, R)
<1> DEFINE N == Len(specs)
           X == ParseState
           b == Start(in, N)
           lay(k) == IF k < N THEN specs[k + 1] ELSE Softmax
           G == [k \in Nat |-> [x \in X |-> PlanAndAdd(x, image, lay(k))]]
<1>1. N \in Nat /\ \A i \in 1..N : specs[i] \in SpecForm
  BY Indexed
<1>2. b \in X
  <2> HIDE DEF N
  <2> QED BY <1>1, StartIsState
<1>3. Softmax \in SpecForm
  BY DEF Softmax, SpecForm, Weighted
<1> HIDE DEF N
<1>4. ASSUME NEW k \in Nat PROVE lay(k) \in SpecForm
  <2>1. k < N => k + 1 \in 1..N
    BY <1>1
  <2> QED BY <1>1, <1>3, <2>1
<1> HIDE DEF lay, b
<1>5. G \in [Nat -> [X -> X]]
  <2>1. \A k \in Nat : \A x \in X : PlanAndAdd(x, image, lay(k)) \in X
    BY <1>4, PlannedIsState
  <2> HIDE DEF X
  <2> QED BY <2>1
<1>6. PICK f : Recursive(X, b, G, f)
  <2> HIDE DEF G, X
  <2> QED BY <1>2, <1>5, Recursion
<1>7. f \in [Nat -> X] /\ f[0] = b /\ \A k \in Nat : f[k + 1] = PlanAndAdd(f[k], image, lay(k))
  <2>1. f \in [Nat -> X] /\ f[0] = b /\ \A k \in Nat : f[k + 1] = G[k][f[k]]
    BY <1>6 DEF Recursive
  <2> HIDE DEF X
  <2> QED BY <2>1
<1> DEFINE R == [k \in 0..N |-> f[k]]
<1>8. ASSUME NEW k \in 1..N PROVE R[k] = PlanAndAdd(R[k - 1], image, specs[k])
  <2>1. k \in 0..N /\ k - 1 \in 0..N /\ k - 1 \in Nat /\ (k - 1) + 1 = k /\ k - 1 < N
    BY <1>1
  <2>2. lay(k - 1) = specs[k]
    BY <2>1 DEF lay
  <2>3. f[k] = PlanAndAdd(f[k - 1], image, specs[k])
    BY <1>7, <2>1, <2>2
  <2> QED BY <2>1, <2>3
<1>9. R \in [0..N -> ParseState] /\ R[0] = Start(in, N)
  <2>1. \A k \in 0..N : k \in Nat
    BY <1>1
  <2>2. 0 \in 0..N
    BY <1>1
  <2>3. R \in [0..N -> X]
    BY <1>7, <2>1
  <2>4. R[0] = Start(in, N)
    BY <1>7, <2>2 DEF b
  <2> QED BY <2>3, <2>4
<1>10. Parsing(image, specs, N, in, R)
  <2> HIDE DEF R
  <2> QED BY <1>8, <1>9 DEF Parsing
<1> QED BY <1>10 DEF N

LEMMA ParsedIsLast ==
  ASSUME NEW specs \in Seq(SpecForm), NEW image, NEW at, NEW in, Layout(image, specs, Len(specs), at, in),
         NEW R, Parsing(image, specs, Len(specs), in, R)
  PROVE  ParseLayers(image, in) = R[Len(specs)]
<1> DEFINE N == Len(specs)
           b == Start(in, N)
           More(r) == PlanAndAdd(r, image, ReadLayer(image, r.at))
           Is(h) == h = [S \in SUBSET (1..N) |-> IF S = {} THEN b ELSE More(h[S \ {Max(S)}])]
           it == CHOOSE h : Is(h)
           ones == [i \in 1..N |-> i]
<1>1. N \in Nat /\ \A i \in 1..N : specs[i] \in SpecForm
  BY Indexed
<1>2. ParseLayers(image, in) = it[1..N]
  <2>1. image[2].value = N /\ DOMAIN ones = 1..N
    BY DEF Layout
  <2>2. ParseLayers(image, in) = FoldLeft(LAMBDA r, i : More(r), b, ones)
    BY <2>1 DEF ParseLayers, Start
  <2> HIDE DEF More, ones, N, b
  <2> QED BY <2>1, <2>2, Zenon DEF FoldLeft, MapThenFoldSet
<1> HIDE DEF N
<1>3. R \in [0..N -> ParseState] /\ R[0] = b /\ \A k \in 1..N : R[k] = PlanAndAdd(R[k - 1], image, specs[k])
  BY DEF Parsing, N
<1>4. \A i \in 1..N : ReadLayer(image, 6 + at[i - 1]) = specs[i]
  BY DEF Layout, N
<1>5. ASSUME NEW k \in 1..N PROVE R[k] = More(R[k - 1])
  <2>1. k - 1 \in 0..N
    BY <1>1
  <2>2. CASE R[k - 1].ok
    <3>1. R[k - 1].at = 6 + at[k - 1]
      BY <2>1, <2>2, ParsedInPlace DEF N
    <3> QED BY <1>3, <1>4, <3>1
  <2>3. CASE ~R[k - 1].ok
    <3> DEFINE r == R[k - 1]
    <3>1. r \in ParseState /\ ~r.ok /\ R[k] = PlanAndAdd(r, image, specs[k])
      BY <1>3, <2>1, <2>3
    <3> HIDE DEF r
    <3>2. \A L : PlanAndAdd(r, image, L) = [r EXCEPT !.ok = FALSE]
      BY <3>1, OneLayer
    <3> QED BY <3>1, <3>2 DEF r
  <2> QED BY <2>2, <2>3
<1> HIDE DEF More, b
<1>6. Is([S \in SUBSET (1..N) |-> R[Cardinality(S)]])
  <2> DEFINE h == [S \in SUBSET (1..N) |-> R[Cardinality(S)]]
  <2>1. ASSUME NEW S \in SUBSET (1..N) PROVE h[S] = IF S = {} THEN b ELSE More(h[S \ {Max(S)}])
    <3>1. CASE S = {}
      <4>1. Cardinality(S) = 0
        BY <3>1, FS_EmptySet
      <4> QED BY <1>3, <3>1, <4>1
    <3>2. CASE S # {}
      <4>1. S \ {Max(S)} \in SUBSET (1..N) /\ Cardinality(S) \in 1..N
            /\ Cardinality(S \ {Max(S)}) = Cardinality(S) - 1
        BY <1>1, <3>2, WithoutLargest
      <4>2. R[Cardinality(S)] = More(R[Cardinality(S) - 1])
        BY <1>5, <4>1
      <4> QED BY <3>2, <4>1, <4>2
    <3> QED BY <3>1, <3>2
  <2>2. h = [S \in SUBSET (1..N) |-> h[S]]
    OBVIOUS
  <2> HIDE DEF h
  <2> QED BY <2>1, <2>2 DEF h
<1>7. Is(it)
  <2> HIDE DEF Is
  <2> QED BY <1>6
<1> HIDE DEF it
<1>8. \A k \in 0..N : it[1..k] = R[k]
  <2> DEFINE Z == {k \in Nat : k <= N => it[1..k] = R[k]}
  <2>1. 0 \in Z
    <3>1. 1..0 = {} /\ {} \in SUBSET (1..N)
      OBVIOUS
    <3> QED BY <1>3, <1>7, <3>1
  <2>2. ASSUME NEW k \in Nat, k \in Z PROVE k + 1 \in Z
    <3> SUFFICES ASSUME k + 1 <= N PROVE it[1..(k + 1)] = R[k + 1]
      OBVIOUS
    <3>1. k + 1 \in 1..N /\ (k + 1) - 1 = k /\ it[1..k] = R[k]
      BY <1>1, <2>2
    <3> DEFINE S == 1..(k + 1)
    <3>2. S \in SUBSET (1..N) /\ S # {} /\ S \ {Max(S)} = 1..k
      <4>1. S \in SUBSET (1..N) /\ S # {} /\ Max(S) = k + 1 /\ S \ {k + 1} = 1..((k + 1) - 1)
        BY <1>1, <3>1, FirstOnes
      <4> HIDE DEF S
      <4> QED BY <3>1, <4>1
    <3> HIDE DEF S
    <3>3. it[S] = More(it[S \ {Max(S)}])
      BY <1>7, <3>2
    <3> HIDE DEF Is
    <3>4. it[S] = R[k + 1]
      <4>1. R[k + 1] = More(R[k])
        BY <1>5, <3>1
      <4> QED BY <3>1, <3>2, <3>3, <4>1
    <3> QED BY <3>4 DEF S
  <2>3. Nat \subseteq Z
    <3> HIDE DEF Z
    <3> QED BY <2>1, <2>2, FromOneToNext
  <2> QED BY <2>3
<1>9. N \in 0..N
  BY <1>1
<1> QED BY <1>2, <1>8, <1>9 DEF N

\* What a layer was planned to be, and what it costs.
Costs(L) == WeightBytes(L) + 4 * BiasCount(L)
\* A layer inside what was found for all of them.
Within(r, L, in, out) ==
  /\ out = PlanLayer(L, in) /\ out # Refused /\ WithinLimits(L, out)
  /\ Elems(in) <= r.maxAct /\ Elems(out) <= r.maxAct
  /\ \A f \in Scratch : ScratchNeeds(L, in, out)[f] <= r.scratch[f]
\* What is known after k layers were added.
Parsed(r, k, specs, in) ==
  /\ r \in ParseState /\ Len(r.layers) = k /\ Len(r.shapes) = k + 1 /\ r.shapes[1] = in
  /\ \A i \in 1..k : r.layers[i] = specs[i] /\ Within(r, specs[i], r.shapes[i], r.shapes[i + 1])
  /\ \A i \in 1..k : LayerMacs(specs[i], r.shapes[i + 1]) \in Nat
  /\ r.required = ArenaBytes(r.blocks) /\ r.weights <= r.required
  /\ r.weights = Total([i \in 1..k |-> Costs(specs[i])])
  /\ r.macs = Total([i \in 1..k |-> LayerMacs(specs[i], r.shapes[i + 1])])

LEMMA TotalOneMore ==
  ASSUME NEW n \in Nat, NEW v \in [1..n -> Nat], NEW w \in [1..(n + 1) -> Nat], \A i \in 1..n : w[i] = v[i]
  PROVE  Total(w) = Total(v) + w[n + 1] /\ Total(v) \in Nat
<1>1. PICK t : SumsOf(n + 1, w, t) /\ Total(w) = t[n + 1]
  BY TotalSums
<1>2. t \in [0..(n + 1) -> Nat] /\ t[0] = 0 /\ \A i \in 1..(n + 1) : t[i] = t[i - 1] + w[i]
  BY <1>1 DEF SumsOf
<1> DEFINE u == [i \in 0..n |-> t[i]]
<1>3. SumsOf(n, v, u)
  <2>1. \A i \in 0..n : i \in 0..(n + 1)
    OBVIOUS
  <2>2. u \in [0..n -> Nat] /\ 0 \in 0..n
    BY <1>2, <2>1
  <2>3. ASSUME NEW i \in 1..n PROVE u[i] = u[i - 1] + v[i]
    <3>1. i \in 1..(n + 1) /\ i \in 0..n /\ i - 1 \in 0..n
      OBVIOUS
    <3> QED BY <1>2, <3>1
  <2>4. u[0] = 0
    BY <1>2, <2>2
  <2> HIDE DEF u
  <2> QED BY <2>2, <2>3, <2>4 DEF SumsOf
<1>4. Total(v) = u[n]
  <2> HIDE DEF u
  <2> QED BY <1>3, TotalIs
<1>5. n \in 0..n /\ n + 1 \in 1..(n + 1) /\ (n + 1) - 1 = n /\ n \in 0..(n + 1)
  OBVIOUS
<1> QED BY <1>1, <1>2, <1>4, <1>5

LEMMA NothingTotals == Total(<<>>) = 0 /\ ArenaBytes(<<>>) = 0
<1> DEFINE v == [i \in 1..0 |-> 0]
           t == [i \in 0..0 |-> 0]
<1>1. v \in [1..0 -> Nat] /\ SumsOf(0, v, t)
  <2>1. \A i \in 1..0 : FALSE
    OBVIOUS
  <2>2. t \in [0..0 -> Nat] /\ t[0] = 0
    OBVIOUS
  <2> QED BY <2>1, <2>2 DEF SumsOf
<1>2. Total(v) = t[0]
  <2> HIDE DEF v, t
  <2> QED BY <1>1, TotalIs
<1>3. v = <<>>
  OBVIOUS
<1>4. Total(<<>>) = 0
  BY <1>2, <1>3
<1>5. [i \in DOMAIN <<>> |-> AlignUp(<<>>[i])] = <<>>
  OBVIOUS
<1> QED BY <1>4, <1>5 DEF ArenaBytes

\* What blocks need together they need one after the other.
LEMMA BlocksAdded ==
  ASSUME NEW a \in Seq(Nat), NEW b \in Seq(Nat)
  PROVE  ArenaBytes(a \o b) = ArenaBytes(a) + ArenaBytes(b)
<1> DEFINE n == Len(a)
           m == Len(b)
           v == [i \in 1..n |-> AlignUp(a[i])]
           w == [i \in 1..m |-> AlignUp(b[i])]
           c == a \o b
           x == [i \in 1..(n + m) |-> AlignUp(c[i])]
<1>1. /\ n \in Nat /\ DOMAIN a = 1..n /\ \A i \in 1..n : a[i] \in Nat
      /\ m \in Nat /\ DOMAIN b = 1..m /\ \A i \in 1..m : b[i] \in Nat
  BY Indexed
<1>2. c \in Seq(Nat) /\ Len(c) = n + m /\ (\A k \in 1..n : c[k] = a[k]) /\ \A j \in 1..m : c[n + j] = b[j]
  BY ONLY a \in Seq(Nat), b \in Seq(Nat), Appended
<1>3. DOMAIN c = 1..(n + m) /\ \A i \in 1..(n + m) : c[i] \in Nat
  <2> HIDE DEF c
  <2> QED BY <1>2, Indexed
<1> HIDE DEF n, m, c
<1>4. ArenaBytes(a) = Total(v) /\ ArenaBytes(b) = Total(w) /\ ArenaBytes(c) = Total(x)
  BY <1>1, <1>3 DEF ArenaBytes
<1>5. v \in [1..n -> Nat] /\ w \in [1..m -> Nat] /\ x \in [1..(n + m) -> Nat]
  BY <1>1, <1>3, Aligned
<1>6. \A i \in 1..n : x[i] = v[i]
  <2>1. \A i \in 1..n : i \in 1..(n + m)
    BY <1>1
  <2> QED BY <1>2, <2>1
<1>7. \A i \in 1..m : x[n + i] = w[i]
  <2>1. \A i \in 1..m : n + i \in 1..(n + m)
    BY <1>1
  <2> QED BY <1>2, <2>1
<1> HIDE DEF v, w, x
<1>8. Total(x) = Total(v) + Total(w)
  <2>1. n \in Nat /\ m \in Nat
    BY <1>1
  <2> QED BY ONLY <1>5, <1>6, <1>7, <2>1, TotalJoined, Zenon
<1> QED BY <1>4, <1>8 DEF c

\* No block needs less than it holds.
LEMMA BlocksHold ==
  ASSUME NEW x \in Nat, NEW y \in Nat
  PROVE  x + y <= ArenaBytes(<<x, y>>)
<1> DEFINE b == <<x, y>>
           v == [i \in 1..2 |-> AlignUp(b[i])]
<1>1. DOMAIN b = 1..2 /\ b[1] = x /\ b[2] = y
  OBVIOUS
<1> HIDE DEF b
<1>2. ArenaBytes(b) = Total(v)
  BY <1>1 DEF ArenaBytes
<1>3. AlignUp(x) \in Nat /\ x <= AlignUp(x) /\ AlignUp(y) \in Nat /\ y <= AlignUp(y)
  BY Aligned
<1>4. v \in [1..2 -> Nat] /\ v[1] = AlignUp(x) /\ v[2] = AlignUp(y)
  <2>1. \A i \in 1..2 : i = 1 \/ i = 2
    OBVIOUS
  <2>2. 1 \in 1..2 /\ 2 \in 1..2
    OBVIOUS
  <2> QED BY <1>1, <1>3, <2>1, <2>2
<1>5. PICK t : SumsOf(2, v, t) /\ Total(v) = t[2]
  <2> HIDE DEF v
  <2> QED BY <1>4, TotalSums
<1>6. t[1] = t[0] + v[1] /\ t[2] = t[1] + v[2] /\ t[0] = 0
  <2>1. 1 \in 1..2 /\ 2 \in 1..2 /\ 1 - 1 = 0 /\ 2 - 1 = 1
    OBVIOUS
  <2>2. t[1] = t[1 - 1] + v[1] /\ t[2] = t[2 - 1] + v[2] /\ t[0] = 0
    BY <1>5, <2>1 DEF SumsOf
  <2> QED BY <2>1, <2>2
<1>7. t[2] = AlignUp(x) + AlignUp(y)
  <2> HIDE DEF v
  <2> QED BY <1>3, <1>4, <1>6
<1> QED BY <1>2, <1>3, <1>5, <1>7 DEF b

\* The dimensions of a window that fits are counted.
LEMMA WindowFits ==
  ASSUME NEW x \in Int, NEW k \in Nat, NEW d \in Nat \ {0}, NEW pad \in Nat, ConvOutDim(x, k, d, pad) > 0
  PROVE  ConvOutDim(x, k, d, pad) \in Nat
<1> DEFINE room == x + 2 * pad - k
<1>1. room \in Int /\ ConvOutDim(x, k, d, pad) = (IF room >= 0 THEN room \div d ELSE -((-room) \div d)) + 1
  BY DEF ConvOutDim
<1> HIDE DEF room
<1>2. -room \in Int
  BY <1>1
<1>3. room \div d \in Int /\ (-room) \div d \in Int
  BY <1>1, <1>2
<1> QED BY <1>1, <1>3

LEMMA MacsAreCounted ==
  ASSUME NEW L \in SpecForm, NEW in \in AnyShape, PlanLayer(L, in) # Refused
  PROVE  LayerMacs(L, PlanLayer(L, in)) \in Nat
<1>1. /\ L.a \in Nat /\ L.b \in Nat /\ L.k \in Nat /\ L.stride \in Nat /\ L.pad \in Nat
      /\ L.type = "conv2d" => L.stride # 0
  BY DEF SpecForm
<1>2. \A x, y \in Nat : x * y \in Nat
  OBVIOUS
<1>3. CASE L.type = "conv2d"
  <2> DEFINE oh == ConvOutDim(in.h, L.k, L.stride, L.pad)
             ow == ConvOutDim(in.w, L.k, L.stride, L.pad)
  <2>1. oh > 0 /\ ow > 0 /\ PlanLayer(L, in) = Shape(L.b, oh, ow)
    BY <1>3 DEF PlanLayer
  <2>2. in.h \in Int /\ in.w \in Int
    BY DEF AnyShape
  <2>3. oh \in Nat /\ ow \in Nat
    <3>1. L.stride \in Nat \ {0}
      BY <1>1, <1>3
    <3> DEFINE x == in.h
               y == in.w
    <3>2. x \in Int /\ y \in Int
      BY <2>2
    <3>3. ConvOutDim(x, L.k, L.stride, L.pad) > 0 /\ ConvOutDim(y, L.k, L.stride, L.pad) > 0
      BY <2>1
    <3> HIDE DEF x, y
    <3>4. ConvOutDim(x, L.k, L.stride, L.pad) \in Nat /\ ConvOutDim(y, L.k, L.stride, L.pad) \in Nat
      BY ONLY <1>1, <3>1, <3>2, <3>3, WindowFits
    <3> QED BY <3>4 DEF x, y
  <2> HIDE DEF oh, ow
  <2>4. Shape(L.b, oh, ow).h = oh /\ Shape(L.b, oh, ow).w = ow
    BY DEF Shape
  <2>5. LayerMacs(L, PlanLayer(L, in)) = L.b * oh * ow * L.a * L.k * L.k
    BY <1>3, <2>1, <2>4 DEF LayerMacs
  <2> QED BY <1>1, <1>2, <2>3, <2>5
<1>4. CASE L.type # "conv2d"
  <2>1. L.a * L.b \in Nat
    BY <1>1, <1>2
  <2> QED BY <1>4, <2>1 DEF LayerMacs
<1> QED BY <1>3, <1>4

\* What is inside stays inside when the limits grow.
LEMMA WithinMore ==
  ASSUME NEW r \in ParseState, NEW u \in ParseState, NEW L \in SpecForm, NEW in \in AnyShape, NEW out \in AnyShape,
         Within(r, L, in, out), r.maxAct <= u.maxAct, \A f \in Scratch : r.scratch[f] <= u.scratch[f]
  PROVE  Within(u, L, in, out)
<1>1. /\ \A f \in Scratch : ScratchNeeds(L, in, out)[f] \in Int
      /\ Elems(in) \in Int /\ Elems(out) \in Int
  BY NeedsAreNumbers
<1>2. /\ r.maxAct \in Int /\ u.maxAct \in Int
      /\ \A f \in Scratch : r.scratch[f] \in Int /\ u.scratch[f] \in Int
  BY DEF ParseState
<1>3. \A x, y, z \in Int : x <= y /\ y <= z => x <= z
  OBVIOUS
<1>4. Elems(in) <= u.maxAct /\ Elems(out) <= u.maxAct
  <2>1. Elems(in) <= r.maxAct /\ Elems(out) <= r.maxAct
    BY DEF Within
  <2> QED BY <1>1, <1>2, <1>3, <2>1
<1>5. \A f \in Scratch : ScratchNeeds(L, in, out)[f] <= u.scratch[f]
  <2>1. \A f \in Scratch : ScratchNeeds(L, in, out)[f] <= r.scratch[f]
    BY DEF Within
  <2> QED BY <1>1, <1>2, <1>3, <2>1
<1>6. out = PlanLayer(L, in) /\ out # Refused /\ WithinLimits(L, out)
  BY DEF Within
<1> QED BY <1>4, <1>5, <1>6 DEF Within

LEMMA Grown ==
  ASSUME NEW r \in ParseState, NEW image, NEW L \in SpecForm, NEW out \in AnyShape
  PROVE  LET u == Added(r, image, L, out)
             in == Last(r.shapes)
         IN  /\ r.maxAct <= u.maxAct /\ Elems(in) <= u.maxAct /\ Elems(out) <= u.maxAct
             /\ \A f \in Scratch : r.scratch[f] <= u.scratch[f] /\ ScratchNeeds(L, in, out)[f] <= u.scratch[f]
<1> DEFINE in == Last(r.shapes)
           u == Added(r, image, L, out)
<1>1. in \in AnyShape
  <2>1. r.shapes \in Seq(AnyShape) \ {<<>>}
    BY DEF ParseState
  <2> QED BY <2>1, LastShape
<1>2. u.maxAct = Larger(r.maxAct, Larger(Elems(in), Elems(out)))
      /\ u.scratch = [f \in Scratch |-> Larger(r.scratch[f], ScratchNeeds(L, in, out)[f])]
  BY DEF Added
<1> HIDE DEF in, u
<1>3. /\ \A f \in Scratch : ScratchNeeds(L, in, out)[f] \in Int
      /\ Elems(in) \in Int /\ Elems(out) \in Int
  BY <1>1, NeedsAreNumbers
<1>4. r.maxAct \in Int /\ \A f \in Scratch : r.scratch[f] \in Int
  BY DEF ParseState
<1>5. r.maxAct <= u.maxAct /\ Elems(in) <= u.maxAct /\ Elems(out) <= u.maxAct
  <2> DEFINE x == Elems(in)
             y == Elems(out)
             z == Larger(x, y)
             w == r.maxAct
             v == Larger(w, z)
  <2>1. x \in Int /\ y \in Int /\ w \in Int
    BY <1>3, <1>4
  <2> HIDE DEF x, y, w
  <2>2. z \in Int /\ x <= z /\ y <= z
    BY <2>1, LargerIs
  <2> HIDE DEF z
  <2>3. v \in Int /\ w <= v /\ z <= v
    BY <2>1, <2>2, LargerIs
  <2>4. u.maxAct = v
    BY <1>2 DEF x, y, z, w
  <2> HIDE DEF v
  <2>5. x <= v /\ y <= v /\ w <= v
    BY <2>1, <2>2, <2>3
  <2> QED BY <2>4, <2>5 DEF x, y, w
<1>6. ASSUME NEW f \in Scratch PROVE r.scratch[f] <= u.scratch[f] /\ ScratchNeeds(L, in, out)[f] <= u.scratch[f]
  <2> DEFINE x == r.scratch[f]
             y == ScratchNeeds(L, in, out)[f]
  <2>1. x \in Int /\ y \in Int /\ u.scratch[f] = Larger(x, y)
    BY <1>2, <1>3, <1>4
  <2> HIDE DEF x, y
  <2>2. x <= Larger(x, y) /\ y <= Larger(x, y)
    BY <2>1, LargerIs
  <2> QED BY <2>1, <2>2 DEF x, y
<1> QED BY <1>5, <1>6 DEF in, u

LEMMA OneMoreParsed ==
  ASSUME NEW r, NEW k \in Nat, NEW specs, NEW in, Parsed(r, k, specs, in), NEW L \in SpecForm, L = specs[k + 1],
         \A i \in 1..k : specs[i] \in SpecForm,
         NEW image, NEW out, out = PlanLayer(L, Last(r.shapes)), out # Refused, WithinLimits(L, out)
  PROVE  Parsed(Added(r, image, L, out), k + 1, specs, in)
<1> DEFINE u == Added(r, image, L, out)
           last == Last(r.shapes)
<1>1. /\ r \in ParseState /\ Len(r.layers) = k /\ Len(r.shapes) = k + 1 /\ r.shapes[1] = in
      /\ \A i \in 1..k : r.layers[i] = specs[i] /\ Within(r, specs[i], r.shapes[i], r.shapes[i + 1])
      /\ \A i \in 1..k : LayerMacs(specs[i], r.shapes[i + 1]) \in Nat
      /\ r.required = ArenaBytes(r.blocks) /\ r.weights <= r.required
      /\ r.weights = Total([i \in 1..k |-> Costs(specs[i])])
      /\ r.macs = Total([i \in 1..k |-> LayerMacs(specs[i], r.shapes[i + 1])])
  BY DEF Parsed
<1>2. /\ r.layers \in Seq(SpecForm) /\ r.shapes \in Seq(AnyShape) \ {<<>>} /\ r.blocks \in Seq(Nat)
      /\ r.required \in Nat /\ r.weights \in Nat
  BY <1>1 DEF ParseState
<1>3. r.shapes \in Seq(AnyShape) /\ last = r.shapes[k + 1] /\ last \in AnyShape
      /\ \A i \in 1..(k + 1) : r.shapes[i] \in AnyShape
  <2>1. r.shapes \in Seq(AnyShape)
    BY <1>2
  <2> QED BY <1>1, <1>2, <2>1, LastShape, Indexed
<1>4. out \in AnyShape
  <2> HIDE DEF last
  <2> QED BY <1>3, PlansAreShapes DEF last
<1>5. u \in ParseState
  BY <1>1, <1>4, AddedIsState
<1>6. /\ u.layers = Append(r.layers, L) /\ u.shapes = Append(r.shapes, out)
      /\ u.blocks = r.blocks \o WeightsOf(L) /\ u.required = r.required + ArenaBytes(WeightsOf(L))
      /\ u.weights = r.weights + WeightBytes(L) + 4 * BiasCount(L)
      /\ u.macs = r.macs + LayerMacs(L, out)
  BY DEF Added, WeightsOf
<1>7. /\ r.maxAct <= u.maxAct /\ Elems(last) <= u.maxAct /\ Elems(out) <= u.maxAct
      /\ \A f \in Scratch : r.scratch[f] <= u.scratch[f] /\ ScratchNeeds(L, last, out)[f] <= u.scratch[f]
  BY <1>1, <1>4, Grown
<1> HIDE DEF u, last
<1>8. /\ Len(u.layers) = k + 1 /\ u.layers[k + 1] = L /\ \A i \in 1..k : u.layers[i] = r.layers[i]
  <2> DEFINE s == r.layers
  <2>1. s \in Seq(SpecForm) /\ Len(s) = k
    BY <1>1, <1>2
  <2> HIDE DEF s
  <2>2. Len(Append(s, L)) = k + 1 /\ Append(s, L)[k + 1] = L /\ \A i \in 1..k : Append(s, L)[i] = s[i]
    BY <2>1
  <2> QED BY <1>6, <2>2 DEF s
<1>9. /\ Len(u.shapes) = k + 2 /\ u.shapes[k + 2] = out /\ \A i \in 1..(k + 1) : u.shapes[i] = r.shapes[i]
  <2> DEFINE s == r.shapes
  <2>1. s \in Seq(AnyShape) /\ Len(s) = k + 1
    BY <1>1, <1>3
  <2> HIDE DEF s
  <2>2. Len(Append(s, out)) = k + 2 /\ Append(s, out)[k + 2] = out /\ \A i \in 1..(k + 1) : Append(s, out)[i] = s[i]
    BY <2>1
  <2> QED BY <1>6, <2>2 DEF s
<1>10. \A i \in 1..(k + 1) : i \in 1..k \/ i = k + 1
  OBVIOUS
<1>11. /\ \A i \in 1..k : i \in 1..(k + 1) /\ i + 1 \in 1..(k + 1)
       /\ k + 1 \in 1..(k + 1) /\ (k + 1) + 1 = k + 2 /\ 1 \in 1..(k + 1)
  OBVIOUS
<1>12. ASSUME NEW i \in 1..(k + 1)
       PROVE  u.layers[i] = specs[i] /\ Within(u, specs[i], u.shapes[i], u.shapes[i + 1])
              /\ LayerMacs(specs[i], u.shapes[i + 1]) \in Nat
  <2>1. CASE i \in 1..k
    <3>1. u.shapes[i] = r.shapes[i] /\ u.shapes[i + 1] = r.shapes[i + 1] /\ u.layers[i] = specs[i]
      BY <1>1, <1>8, <1>9, <1>11, <2>1
    <3>2. r.shapes[i] \in AnyShape /\ r.shapes[i + 1] \in AnyShape /\ specs[i] \in SpecForm
      BY <1>3, <1>11, <2>1
    <3>3. Within(u, specs[i], r.shapes[i], r.shapes[i + 1])
      BY <1>1, <1>5, <1>7, <2>1, <3>2, WithinMore
    <3> QED BY <1>1, <2>1, <3>1, <3>3
  <2>2. CASE i = k + 1
    <3>1. u.layers[i] = L /\ specs[i] = L /\ u.shapes[i] = last /\ u.shapes[i + 1] = out
      BY <1>3, <1>8, <1>9, <1>11, <2>2
    <3>2. Within(u, L, last, out)
      BY <1>7 DEF Within, last
    <3>3. LayerMacs(L, out) \in Nat
      BY <1>3, MacsAreCounted DEF last
    <3> QED BY <3>1, <3>2, <3>3
  <2> QED BY <1>10, <2>1, <2>2
<1>13. u.shapes[1] = in
  BY <1>1, <1>9, <1>11
<1>14. WeightsOf(L) \in Seq(Nat) /\ WeightBytes(L) \in Nat /\ 4 * BiasCount(L) \in Nat /\ Costs(L) \in Nat
       /\ ArenaBytes(WeightsOf(L)) \in Nat
  BY WeightsAreBlocks, BytesAreCounted DEF Costs
<1>15. u.required = ArenaBytes(u.blocks)
  <2> DEFINE b == WeightsOf(L)
  <2>1. b \in Seq(Nat)
    BY <1>14
  <2> HIDE DEF b
  <2>2. ArenaBytes(r.blocks \o b) = ArenaBytes(r.blocks) + ArenaBytes(b)
    BY <1>2, <2>1, BlocksAdded
  <2> QED BY <1>1, <1>6, <2>2 DEF b
<1>16. Costs(L) <= ArenaBytes(WeightsOf(L))
  <2>1. CASE L.type \in Weighted
    <3> DEFINE x == WeightBytes(L)
               y == 4 * BiasCount(L)
    <3>1. x \in Nat /\ y \in Nat /\ WeightsOf(L) = <<x, y>> /\ Costs(L) = x + y
      BY <1>14, <2>1 DEF WeightsOf, Costs
    <3> HIDE DEF x, y
    <3> QED BY <3>1, BlocksHold
  <2>2. CASE L.type \notin Weighted
    <3>1. WeightBytes(L) = 0 /\ BiasCount(L) = 0
      BY <2>2, BytesAreCounted
    <3>2. Costs(L) = 0
      BY <3>1 DEF Costs
    <3> QED BY <1>14, <3>2
  <2> QED BY <2>1, <2>2
<1>17. u.weights = r.weights + Costs(L) /\ u.weights <= u.required
  <2> DEFINE x == WeightBytes(L)
             y == 4 * BiasCount(L)
             z == ArenaBytes(WeightsOf(L))
  <2>1. x \in Nat /\ y \in Nat /\ z \in Nat /\ u.weights = r.weights + x + y /\ u.required = r.required + z /\ Costs(L) = x + y
        /\ x + y <= z
    BY <1>6, <1>14, <1>16 DEF Costs
  <2> HIDE DEF x, y, z
  <2> QED BY <1>1, <1>2, <2>1
<1>18. u.weights = Total([i \in 1..(k + 1) |-> Costs(specs[i])])
  <2> DEFINE v == [i \in 1..k |-> Costs(specs[i])]
             w == [i \in 1..(k + 1) |-> Costs(specs[i])]
  <2>1. \A i \in 1..k : Costs(specs[i]) \in Nat
    BY BytesAreCounted DEF Costs
  <2>2. v \in [1..k -> Nat] /\ w \in [1..(k + 1) -> Nat] /\ w[k + 1] = Costs(L) /\ \A i \in 1..k : w[i] = v[i]
    BY <1>10, <1>11, <1>14, <2>1
  <2> HIDE DEF v, w
  <2>3. Total(w) = Total(v) + w[k + 1]
    BY <2>2, TotalOneMore
  <2> QED BY <1>1, <1>17, <2>2, <2>3 DEF v, w
<1>19. u.macs = Total([i \in 1..(k + 1) |-> LayerMacs(specs[i], u.shapes[i + 1])])
  <2> DEFINE v == [i \in 1..k |-> LayerMacs(specs[i], r.shapes[i + 1])]
             w == [i \in 1..(k + 1) |-> LayerMacs(specs[i], u.shapes[i + 1])]
  <2>1. v \in [1..k -> Nat] /\ w \in [1..(k + 1) -> Nat]
    BY <1>1, <1>12
  <2>2. \A i \in 1..k : w[i] = v[i]
    BY <1>9, <1>11
  <2>3. w[k + 1] = LayerMacs(L, out)
    BY <1>9, <1>11
  <2> HIDE DEF v, w
  <2>4. Total(w) = Total(v) + w[k + 1]
    BY <2>1, <2>2, TotalOneMore
  <2> QED BY <1>1, <1>6, <2>3, <2>4 DEF v, w
<1>20. (k + 1) + 1 = k + 2
  OBVIOUS
<1>21. Parsed(u, k + 1, specs, in)
  BY <1>5, <1>8, <1>9, <1>12, <1>13, <1>15, <1>17, <1>18, <1>19, <1>20 DEF Parsed
<1> QED BY <1>21 DEF u

LEMMA ParsedSoFar ==
  ASSUME NEW specs \in Seq(SpecForm), NEW image, NEW at, NEW in \in ShapeForm, Layout(image, specs, Len(specs), at, in),
         NEW R, Parsing(image, specs, Len(specs), in, R)
  PROVE  /\ \A k \in 0..Len(specs) : R[k].ok => Parsed(R[k], k, specs, in) /\ InputFits(in, Len(specs))
         /\ R[0].ok <=> InputFits(in, Len(specs))
         /\ \A k \in 1..Len(specs) :
               LET out == PlanLayer(specs[k], Last(R[k - 1].shapes))
               IN  R[k].ok <=> R[k - 1].ok /\ out # Refused /\ WithinLimits(specs[k], out)
<1> DEFINE N == Len(specs)
           out(k) == PlanLayer(specs[k], Last(R[k - 1].shapes))
           Z == {k \in Nat : k <= N /\ R[k].ok => Parsed(R[k], k, specs, in) /\ InputFits(in, N)}
<1>1. N \in Nat /\ \A i \in 1..N : specs[i] \in SpecForm
  BY Indexed
<1>2. R \in [0..N -> ParseState] /\ R[0] = Start(in, N) /\ \A k \in 1..N : R[k] = PlanAndAdd(R[k - 1], image, specs[k])
  BY DEF Parsing
<1>3. \A i \in 1..N : BlobsMatch(image, 6 + at[i - 1], specs[i])
  BY DEF Layout
<1>4. \A k \in 0..N : R[k].ok => R[k].at = 6 + at[k]
  BY ParsedInPlace
<1> HIDE DEF N
<1>5. \A k \in 1..N : k - 1 \in 0..N /\ (k - 1) + 1 = k /\ k - 1 \in Nat
  BY <1>1
<1>6. ASSUME NEW k \in 1..N
      PROVE  /\ R[k].ok <=> R[k - 1].ok /\ out(k) # Refused /\ WithinLimits(specs[k], out(k))
             /\ R[k].ok => R[k] = Added(R[k - 1], image, specs[k], out(k))
  <2> DEFINE r == R[k - 1]
             L == specs[k]
  <2>1. r \in ParseState /\ R[k] = PlanAndAdd(r, image, L)
    BY <1>2, <1>5
  <2>2. r.ok => BlobsMatch(image, r.at, L)
    BY <1>3, <1>4, <1>5
  <2>3. out(k) = PlanLayer(L, Last(r.shapes))
    OBVIOUS
  <2> HIDE DEF r, L, out
  <2>4. /\ R[k].ok <=> r.ok /\ BlobsMatch(image, r.at, L) /\ out(k) # Refused /\ WithinLimits(L, out(k))
        /\ R[k].ok => R[k] = Added(r, image, L, out(k))
    BY <2>1, <2>3, OneLayer
  <2> QED BY <2>2, <2>4 DEF r, L
<1>7. R[0].ok <=> InputFits(in, N)
  BY <1>2 DEF Start
<1>8. 0 \in Z
  <2> SUFFICES ASSUME R[0].ok PROVE Parsed(R[0], 0, specs, in)
    BY <1>7
  <2> DEFINE r == R[0]
  <2>1. /\ r.layers = <<>> /\ r.shapes = <<in>> /\ r.blocks = <<>> /\ r.required = 0 /\ r.weights = 0 /\ r.macs = 0
    BY <1>2 DEF Start
  <2>2. 0 \in 0..N /\ r \in ParseState
    BY <1>1, <1>2
  <2> HIDE DEF r
  <2>3. Len(r.layers) = 0 /\ Len(r.shapes) = 0 + 1 /\ r.shapes[1] = in
    BY <2>1
  <2>4. r.required = ArenaBytes(r.blocks) /\ r.weights <= r.required
    BY <2>1, NothingTotals
  <2>5. r.weights = Total([i \in 1..0 |-> Costs(specs[i])])
        /\ r.macs = Total([i \in 1..0 |-> LayerMacs(specs[i], r.shapes[i + 1])])
    <3>1. [i \in 1..0 |-> Costs(specs[i])] = <<>> /\ [i \in 1..0 |-> LayerMacs(specs[i], r.shapes[i + 1])] = <<>>
      OBVIOUS
    <3> QED BY <2>1, <3>1, NothingTotals
  <2>6. \A i \in 1..0 : FALSE
    OBVIOUS
  <2>7. Parsed(r, 0, specs, in)
    BY <2>2, <2>3, <2>4, <2>5, <2>6 DEF Parsed
  <2> QED BY <2>7 DEF r
<1>9. ASSUME NEW k \in Nat, k \in Z PROVE k + 1 \in Z
  <2> SUFFICES ASSUME k + 1 <= N, R[k + 1].ok PROVE Parsed(R[k + 1], k + 1, specs, in) /\ InputFits(in, N)
    OBVIOUS
  <2>1. k + 1 \in 1..N /\ (k + 1) - 1 = k /\ k \in 0..N /\ k <= N
    BY <1>1
  <2> DEFINE r == R[k]
             L == specs[k + 1]
             o == out(k + 1)
  <2>2. r.ok /\ o # Refused /\ WithinLimits(L, o) /\ R[k + 1] = Added(r, image, L, o)
    <3> HIDE DEF out
    <3> QED BY <1>6, <2>1
  <2>3. L \in SpecForm /\ o = PlanLayer(L, Last(r.shapes)) /\ L = specs[k + 1]
    BY <1>1, <2>1
  <2>4. Parsed(r, k, specs, in) /\ InputFits(in, N)
    BY <1>9, <2>1, <2>2
  <2>5. \A i \in 1..k : specs[i] \in SpecForm
    BY <1>1, <2>1
  <2> HIDE DEF r, L, o, out
  <2>6. Parsed(Added(r, image, L, o), k + 1, specs, in)
    BY <2>2, <2>3, <2>4, <2>5, OneMoreParsed
  <2> QED BY <2>2, <2>4, <2>6
<1>10. Nat \subseteq Z
  <2> HIDE DEF Z
  <2> QED BY <1>8, <1>9, FromOneToNext
<1>11. \A k \in 0..N : k \in Nat /\ k <= N
  BY <1>1
<1>12. \A k \in 0..N : R[k].ok => Parsed(R[k], k, specs, in) /\ InputFits(in, N)
  BY <1>10, <1>11
<1> HIDE DEF Z
<1> QED BY <1>6, <1>7, <1>12 DEF N

\* What numpy plans, the engine plans the same way.
Positive(s) == s.c > 0 /\ s.h > 0 /\ s.w > 0

LEMMA SameConvolution ==
  ASSUME NEW x \in Int, NEW k \in Nat, NEW d \in Nat \ {0}, NEW pad \in Nat, PyConvOut(x, k, d, pad) > 0
  PROVE  ConvOutDim(x, k, d, pad) = PyConvOut(x, k, d, pad)
<1> DEFINE room == x + 2 * pad - k
<1>1. room \in Int
  OBVIOUS
<1>2. PyConvOut(x, k, d, pad) = room \div d + 1
  BY DEF PyConvOut
<1>3. ConvOutDim(x, k, d, pad) = (IF room >= 0 THEN room \div d ELSE -((-room) \div d)) + 1
  BY DEF ConvOutDim
<1> HIDE DEF room
<1>4. room >= 0
  <2> DEFINE q == room \div d
  <2>1. q \in Int /\ room = q * d + (room % d) /\ room % d \in 0..(d - 1)
    BY <1>1
  <2>2. q >= 0
    <3> HIDE DEF q
    <3>1. q + 1 > 0
      BY <1>2 DEF q
    <3> QED BY <2>1, <3>1
  <2> DEFINE s == room % d
  <2>3. s \in Int /\ s >= 0 /\ room = q * d + s
    BY <2>1
  <2> HIDE DEF q, s
  <2>4. q * d >= 0
    BY <2>1, <2>2
  <2> QED BY <2>1, <2>3, <2>4
<1> QED BY <1>2, <1>3, <1>4

LEMMA SamePool ==
  ASSUME NEW x \in Int, x > 0, NEW k \in Nat \ {0}, x \div k > 0
  PROVE  /\ ConvOutDim(x, k, k, 0) = x \div k
         /\ (x \div k) * k <= x /\ x \div k \in Nat
<1> DEFINE q == x \div k
           s == x % k
<1>1. q \in Int /\ s \in 0..(k - 1) /\ x = q * k + s /\ q > 0
  BY DivMod
<1> DEFINE room == x - k
<1>2. room = (q - 1) * k + s
  <2> HIDE DEF q, s
  <2>1. (q - 1) * k = q * k - k
    BY <1>1
  <2> DEFINE z == q * k
             y == (q - 1) * k
  <2>2. z \in Int /\ y = z - k /\ x = z + s /\ s \in Int
    BY <1>1, <2>1
  <2> HIDE DEF z, y
  <2>3. room = y + s
    BY <2>2
  <2> QED BY <2>3 DEF y
<1>3. q - 1 \in Nat /\ s \in Nat /\ s < k
  <2> HIDE DEF q, s
  <2> QED BY <1>1
<1> DEFINE p == q - 1
<1>4. p * k \in Nat /\ p \in Nat
  <2>1. \A a, b \in Nat : a * b \in Nat
    OBVIOUS
  <2> HIDE DEF q
  <2> QED BY <1>3, <2>1
<1>5. room \in Nat
  <2> DEFINE z == p * k
  <2>1. room = z + s /\ z \in Nat
    BY <1>2, <1>4
  <2> HIDE DEF z, room, s
  <2> QED BY <1>3, <2>1
<1>6. room \div k = p
  <2>1. room = p * k + s
    BY <1>2
  <2> HIDE DEF room, p, s
  <2> DEFINE a == room \div k
             b == room % k
  <2>2. a \in Nat /\ b \in 0..(k - 1) /\ room = a * k + b
    BY <1>5, DivMod
  <2> HIDE DEF a, b
  <2>3. \A i, j \in Nat : i < j => i * k + k <= j * k
    <3> TAKE i, j \in Nat
    <3> SUFFICES ASSUME i < j PROVE i * k + k <= j * k
      OBVIOUS
    <3>1. i + 1 <= j /\ (i + 1) * k = i * k + k
      OBVIOUS
    <3>2. \A u, v \in Nat : u <= v => u * k <= v * k
      OBVIOUS
    <3> QED BY <3>1, <3>2
  <2> DEFINE ak == a * k
             pk == p * k
  <2>4. ak \in Nat /\ pk \in Nat /\ ak + b = pk + s /\ (a < p => ak + k <= pk) /\ (p < a => pk + k <= ak)
    <3>1. \A i \in Nat : i * k \in Nat
      OBVIOUS
    <3> QED BY <1>4, <2>1, <2>2, <2>3, <3>1
  <2> HIDE DEF ak, pk
  <2>5. ~(a < p) /\ ~(p < a)
    BY <1>3, <2>2, <2>4
  <2>6. a = p
    BY <1>4, <2>2, <2>5
  <2> QED BY <2>6 DEF a
<1>7. ConvOutDim(x, k, k, 0) = (IF room >= 0 THEN room \div k ELSE -((-room) \div k)) + 1
  BY DEF ConvOutDim
<1>8. ConvOutDim(x, k, k, 0) = q
  <2> HIDE DEF room
  <2>1. ConvOutDim(x, k, k, 0) = room \div k + 1
    BY <1>5, <1>7
  <2>2. ConvOutDim(x, k, k, 0) = p + 1
    BY <1>6, <2>1
  <2> HIDE DEF q
  <2> QED BY <1>1, <2>2
<1>9. q * k <= x /\ q \in Nat
  <2> DEFINE z == q * k
  <2>1. z \in Int /\ x = z + s
    BY <1>1
  <2> HIDE DEF z, q, s
  <2>2. z <= x
    BY <1>3, <2>1
  <2> QED BY <1>1, <2>2 DEF z
<1> QED BY <1>8, <1>9

LEMMA SamePlan ==
  ASSUME NEW m, NEW L \in LayerForm, NEW in \in AnyShape, Positive(in), Positive(PyShape(L, in))
  PROVE  PlanLayer(SpecOf(m, L), in) = PyShape(L, in) /\ PyShape(L, in) # Refused
<1> DEFINE S == SpecOf(m, L)
<1>1. /\ S.type = L.type /\ S.a = L.a /\ S.b = L.b /\ S.k = L.k /\ S.stride = L.stride /\ S.pad = L.pad
  BY SpecIs
<1>2. /\ L.a \in Nat /\ L.b \in Nat /\ L.k \in Nat /\ L.stride \in Nat /\ L.pad \in Nat
      /\ L.type \in {"conv2d", "maxpool2d"} => L.k # 0 /\ L.stride # 0
      /\ L.type = "maxpool2d" => L.stride = L.k /\ L.pad = 0
      /\ L.type \in {"dense", "conv2d", "maxpool2d", "flatten", "relu"}
  BY DEF LayerForm, Weighted
<1>3. in.c \in Int /\ in.h \in Int /\ in.w \in Int /\ in.c > 0 /\ in.h > 0 /\ in.w > 0
  BY DEF AnyShape, Positive
<1>4. PyShape(L, in) # Refused
  BY DEF Positive, Refused
<1> DEFINE h == in.h
           w == in.w
           oh == ConvOutDim(h, S.k, S.stride, S.pad)
           ow == ConvOutDim(w, S.k, S.stride, S.pad)
<1>5. h \in Int /\ w \in Int /\ h > 0 /\ w > 0
  BY <1>3
<1> HIDE DEF S
<1>6. CASE L.type = "conv2d"
  <2> DEFINE ph == PyConvOut(h, L.k, L.stride, L.pad)
             pw == PyConvOut(w, L.k, L.stride, L.pad)
  <2>1. in.c = L.a /\ PyShape(L, in) = Shape(L.b, ph, pw)
    BY <1>4, <1>6 DEF PyShape
  <2>2. ph > 0 /\ pw > 0
    BY <2>1 DEF Positive, Shape
  <2>3. oh = ph /\ ow = pw
    <3>1. L.stride \in Nat \ {0}
      BY <1>2, <1>6
    <3> HIDE DEF h, w
    <3>2. ConvOutDim(h, L.k, L.stride, L.pad) = ph /\ ConvOutDim(w, L.k, L.stride, L.pad) = pw
      BY <1>2, <1>5, <2>2, <3>1, SameConvolution
    <3> QED BY <1>1, <3>2
  <2> HIDE DEF ph, pw
  <2>4. PlanLayer(S, in) = Shape(S.b, oh, ow)
    BY <1>1, <1>6, <2>1, <2>2, <2>3 DEF PlanLayer
  <2> QED BY <1>1, <1>4, <2>1, <2>3, <2>4 DEF S
<1>7. CASE L.type = "maxpool2d"
  <2>1. PyShape(L, in) = Shape(in.c, h \div L.k, w \div L.k)
    BY <1>7 DEF PyShape
  <2>2. h \div L.k > 0 /\ w \div L.k > 0
    BY <2>1 DEF Positive, Shape
  <2>3. L.k \in Nat \ {0} /\ L.stride = L.k /\ L.pad = 0
    BY <1>2, <1>7
  <2> HIDE DEF h, w
  <2>4. ConvOutDim(h, L.k, L.k, 0) = h \div L.k /\ ConvOutDim(w, L.k, L.k, 0) = w \div L.k
    BY <1>5, <2>2, <2>3, SamePool
  <2>5. oh = h \div L.k /\ ow = w \div L.k
    BY <1>1, <2>3, <2>4
  <2> HIDE DEF oh, ow
  <2>6. PlanLayer(S, in) = Shape(in.c, oh, ow)
    BY <1>1, <1>7, <2>2, <2>5 DEF PlanLayer, oh, ow, h, w
  <2> QED BY <1>4, <2>1, <2>5, <2>6 DEF S
<1>8. CASE L.type = "dense"
  BY <1>1, <1>4, <1>8 DEF PlanLayer, PyShape, S
<1>9. CASE L.type = "flatten"
  BY <1>1, <1>4, <1>9 DEF PlanLayer, PyShape, S
<1>10. CASE L.type = "relu"
  BY <1>1, <1>4, <1>10 DEF PlanLayer, PyShape, S
<1> QED BY <1>2, <1>6, <1>7, <1>8, <1>9, <1>10

LEMMA SameLimits ==
  ASSUME NEW m, NEW L \in LayerForm, NEW out
  PROVE  WithinLimits(SpecOf(m, L), out) <=> WithinLimits(L, out)
<1> DEFINE S == SpecOf(m, L)
<1>1. /\ S.type = L.type /\ S.a = L.a /\ S.b = L.b /\ S.k = L.k /\ S.stride = L.stride /\ S.pad = L.pad
      /\ S.dtype = IF m.quantize /\ L.type \in Weighted THEN "i8" ELSE "f32"
  BY SpecIs
<1>2. L.dtype = "f32"
  BY DEF LayerForm
<1> HIDE DEF S
<1>3. WeightCount(S) = WeightCount(L)
  BY <1>1 DEF WeightCount
<1> DEFINE F == CASE L.type = "dense" -> {"a", "b"}
                  [] L.type = "conv2d" -> {"a", "b", "k", "stride"}
                  [] L.type = "maxpool2d" -> {"k", "stride"}
                  [] OTHER -> {}
<1>4. \A f \in F : S[f] = L[f]
  <2>1. F \subseteq {"a", "b", "k", "stride"}
    OBVIOUS
  <2> HIDE DEF F
  <2> QED BY <1>1, <2>1
<1>5. WithinLimits(L, out) <=> /\ \A f \in F : L[f] \in 1..MaxDim
                               /\ L.pad <= MaxDim
                               /\ WeightCount(L) <= MaxElems /\ Elems(out) <= MaxElems
  BY <1>2 DEF WithinLimits
<1>6. WithinLimits(S, out) <=> /\ \A f \in F : S[f] \in 1..MaxDim
                               /\ S.pad <= MaxDim
                               /\ WeightCount(S) <= MaxElems /\ Elems(out) <= MaxElems
  <2>1. S.type \notin Weighted => S.dtype = "f32"
    BY <1>1
  <2> QED BY <1>1, <2>1 DEF WithinLimits
<1> HIDE DEF F
<1>7. (\A f \in F : S[f] \in 1..MaxDim) <=> (\A f \in F : L[f] \in 1..MaxDim)
  BY <1>4
<1> QED BY <1>1, <1>3, <1>5, <1>6, <1>7 DEF S

\* The shape before layer j of the image: a softmax keeps the last one.
PlannedAt(m, j) == IF j <= Len(m.layers) + 1 THEN PyShapes(m)[j] ELSE Last(PyShapes(m))

LEMMA ShapesAreListed ==
  ASSUME NEW m, ModelForm(m)
  PROVE  /\ Len(PyShapes(m)) = Len(m.layers) + 1 /\ Len(m.layers) \in Nat /\ PyShapes(m) \in Seq(AnyShape)
         /\ PyShapes(m)[1] = m.input /\ m.input \in AnyShape
         /\ \A j \in 1..(Len(m.layers) + 1) : PyShapes(m)[j] \in AnyShape /\ PyShapes(m)[j] \in Range(PyShapes(m))
         /\ \A s \in Range(PyShapes(m)) : \E j \in 1..(Len(m.layers) + 1) : s = PyShapes(m)[j]
         /\ \A j \in 1..Len(m.layers) :
               m.layers[j] \in LayerForm /\ PyShapes(m)[j + 1] = PyShape(m.layers[j], PyShapes(m)[j])
         /\ Last(PyShapes(m)) = PyShapes(m)[Len(m.layers) + 1]
<1> DEFINE n == Len(m.layers)
           s == PyShapes(m)
<1>1. s \in Seq(AnyShape) /\ Len(s) = n + 1 /\ s[1] = m.input /\ \A j \in 1..n : s[j + 1] = PyShape(m.layers[j], s[j])
  BY ShapesPlanned DEF ShapesOf
<1>2. n \in Nat /\ \A j \in 1..n : m.layers[j] \in LayerForm
  <2>1. m.layers \in Seq(LayerForm)
    BY DEF ModelForm
  <2> QED BY <2>1, Indexed
<1> HIDE DEF s, n
<1>3. DOMAIN s = 1..(n + 1) /\ \A j \in 1..(n + 1) : s[j] \in AnyShape
  BY <1>1, Indexed
<1>4. Range(s) = {s[j] : j \in 1..(n + 1)}
  BY <1>3 DEF Range
<1>5. 1 \in 1..(n + 1)
  BY <1>2
<1> QED BY <1>1, <1>2, <1>3, <1>4, <1>5 DEF s, n, Last

LEMMA PlannedTheSame ==
  ASSUME NEW m, ModelForm(m), Planned(m)
  PROVE  LET N == Len(Specs(m))
         IN  /\ PlannedAt(m, 1) = m.input
             /\ \A j \in 1..(N + 1) : PlannedAt(m, j) \in AnyShape /\ Positive(PlannedAt(m, j)) /\ PlannedAt(m, j) # Refused
             /\ \A j \in 1..N : PlannedAt(m, j + 1) = PlanLayer(Specs(m)[j], PlannedAt(m, j))
<1> DEFINE N == Len(Specs(m))
           n == Len(m.layers)
           s == PyShapes(m)
           specs == Specs(m)
<1>1. /\ n \in Nat /\ N = (IF m.softmax THEN n + 1 ELSE n)
      /\ \A i \in 1..n : m.layers[i] \in LayerForm /\ specs[i] = SpecOf(m, m.layers[i])
      /\ \A i \in 1..N : i \notin 1..n => i = n + 1 /\ specs[i] = Softmax
  BY SpecsListed
<1>2. /\ Last(s) = s[n + 1] /\ s[1] = m.input
      /\ \A j \in 1..(n + 1) : s[j] \in AnyShape /\ Positive(s[j])
      /\ \A j \in 1..n : s[j + 1] = PyShape(m.layers[j], s[j])
  <2>1. \A x \in Range(s) : Positive(x)
    BY DEF Planned, Positive
  <2> QED BY <2>1, ShapesAreListed
<1> DEFINE P(j) == IF j <= n + 1 THEN s[j] ELSE s[n + 1]
<1>3. \A j : PlannedAt(m, j) = P(j)
  BY <1>2 DEF PlannedAt
<1> HIDE DEF s, n, N, specs
<1>4. P(1) = m.input
  <2>1. 1 <= n + 1
    BY <1>1
  <2> QED BY <1>2, <2>1
<1>5. ASSUME NEW j \in 1..(N + 1) PROVE P(j) \in AnyShape /\ Positive(P(j)) /\ P(j) # Refused
  <2>1. n + 1 \in 1..(n + 1) /\ (j <= n + 1 => j \in 1..(n + 1))
    BY <1>1
  <2>2. P(j) \in AnyShape /\ Positive(P(j))
    BY <1>2, <2>1
  <2> HIDE DEF P
  <2> QED BY <2>2 DEF Positive, Refused
<1>6. ASSUME NEW j \in 1..N PROVE P(j + 1) = PlanLayer(specs[j], P(j))
  <2>1. CASE j \in 1..n
    <3>1. P(j) = s[j] /\ P(j + 1) = s[j + 1] /\ j \in 1..(n + 1) /\ j + 1 \in 1..(n + 1)
      BY <1>1, <2>1
    <3> DEFINE L == m.layers[j]
               x == s[j]
    <3>2. L \in LayerForm /\ x \in AnyShape /\ Positive(x) /\ Positive(PyShape(L, x)) /\ specs[j] = SpecOf(m, L)
          /\ s[j + 1] = PyShape(L, x)
      BY <1>1, <1>2, <2>1, <3>1
    <3> HIDE DEF L, x
    <3>3. PlanLayer(SpecOf(m, L), x) = PyShape(L, x)
      BY <3>2, SamePlan
    <3> QED BY <3>1, <3>2, <3>3 DEF x
  <2>2. CASE j \notin 1..n
    <3>1. j = n + 1 /\ specs[j] = Softmax
      BY <1>1, <2>2
    <3>2. P(j) = s[n + 1] /\ P(j + 1) = s[n + 1]
      BY <1>1, <3>1
    <3> HIDE DEF P
    <3> QED BY <3>1, <3>2 DEF PlanLayer, Softmax
  <2> QED BY <2>1, <2>2
<1> HIDE DEF P
<1> QED BY <1>3, <1>4, <1>5, <1>6 DEF N, specs

LEMMA SameShapes ==
  ASSUME NEW m, ModelForm(m), Planned(m), NEW k \in 0..Len(Specs(m)), NEW r, Parsed(r, k, Specs(m), m.input)
  PROVE  \A j \in 1..(k + 1) : r.shapes[j] = PlannedAt(m, j)
<1> DEFINE N == Len(Specs(m))
           specs == Specs(m)
           Z == {j \in Nat : j <= k => r.shapes[j + 1] = PlannedAt(m, j + 1)}
<1>1. N \in Nat /\ k \in Nat /\ k <= N
  <2>1. N \in Nat
    BY SpecsListed
  <2> HIDE DEF N
  <2> QED BY <2>1 DEF N
<1>2. r.shapes[1] = m.input /\ \A i \in 1..k : r.shapes[i + 1] = PlanLayer(specs[i], r.shapes[i])
  BY DEF Parsed, Within
<1>3. PlannedAt(m, 1) = m.input /\ \A j \in 1..N : PlannedAt(m, j + 1) = PlanLayer(specs[j], PlannedAt(m, j))
  BY PlannedTheSame
<1> HIDE DEF N, specs
<1>4. 0 \in Z
  <2>1. 0 + 1 = 1
    OBVIOUS
  <2> QED BY <1>2, <1>3, <2>1
<1>5. ASSUME NEW j \in Nat, j \in Z PROVE j + 1 \in Z
  <2> SUFFICES ASSUME j + 1 <= k PROVE r.shapes[(j + 1) + 1] = PlannedAt(m, (j + 1) + 1)
    OBVIOUS
  <2>1. j + 1 \in 1..k /\ j + 1 \in 1..N /\ j <= k
    BY <1>1
  <2> QED BY <1>2, <1>3, <1>5, <2>1
<1>6. Nat \subseteq Z
  <2> HIDE DEF Z
  <2> QED BY <1>4, <1>5, FromOneToNext
<1>7. ASSUME NEW j \in 1..(k + 1) PROVE r.shapes[j] = PlannedAt(m, j)
  <2>1. j - 1 \in Nat /\ j - 1 <= k /\ (j - 1) + 1 = j
    BY <1>1
  <2>2. j - 1 \in Z
    BY <1>6, <2>1
  <2> QED BY <2>1, <2>2
<1> QED BY <1>7

\* The engine refuses what numpy plans for its limits alone.
LEMMA RefusedForLimits ==
  ASSUME NEW m, ModelForm(m), Planned(m), NEW at, NEW image, Layout(image, Specs(m), Len(Specs(m)), at, m.input),
         NEW R, Parsing(image, Specs(m), Len(Specs(m)), m.input, R)
  PROVE  R[Len(Specs(m))].ok <=> InLimits(m)
<1> DEFINE N == Len(Specs(m))
           n == Len(m.layers)
           specs == Specs(m)
           P(j) == PlannedAt(m, j)
<1>1. /\ n \in Nat /\ N = (IF m.softmax THEN n + 1 ELSE n) /\ specs \in Seq(SpecForm)
      /\ \A i \in 1..n : m.layers[i] \in LayerForm /\ specs[i] = SpecOf(m, m.layers[i])
      /\ \A i \in 1..N : i \notin 1..n => i = n + 1 /\ specs[i] = Softmax
  BY SpecsListed
<1>2. N \in Nat /\ n <= N
  <2> HIDE DEF N, n
  <2> QED BY <1>1
<1>3. m.input \in ShapeForm
  BY DEF ModelForm
<1>4. /\ \A k \in 0..N : R[k].ok => Parsed(R[k], k, specs, m.input) /\ InputFits(m.input, N)
      /\ R[0].ok <=> InputFits(m.input, N)
      /\ \A k \in 1..N : R[k].ok <=> R[k - 1].ok /\ PlanLayer(specs[k], Last(R[k - 1].shapes)) # Refused
                                     /\ WithinLimits(specs[k], PlanLayer(specs[k], Last(R[k - 1].shapes)))
  BY <1>1, <1>3, ParsedSoFar
<1>5. \A j \in 1..(n + 1) : P(j) = PyShapes(m)[j]
  <2> HIDE DEF n
  <2> QED BY <1>1 DEF PlannedAt, n
<1>6. /\ \A j \in 1..(N + 1) : P(j) \in AnyShape /\ P(j) # Refused
      /\ \A j \in 1..N : P(j + 1) = PlanLayer(specs[j], P(j))
      /\ P(1) = m.input
  BY PlannedTheSame
<1> HIDE DEF specs, P
<1>7. ASSUME NEW k \in 0..N, R[k].ok
      PROVE  Last(R[k].shapes) = P(k + 1)
  <2>1. Parsed(R[k], k, specs, m.input)
    BY <1>4, <1>7
  <2>2. \A j \in 1..(k + 1) : R[k].shapes[j] = P(j)
    BY <2>1, SameShapes DEF specs, P
  <2>3. Len(R[k].shapes) = k + 1
    BY <2>1 DEF Parsed
  <2>4. k + 1 \in 1..(k + 1)
    <3> HIDE DEF N
    <3> QED BY <1>2
  <2> QED BY <2>2, <2>3, <2>4 DEF Last
<1> HIDE DEF N, n
<1>8. \A i \in 1..n : WithinLimits(specs[i], P(i + 1)) <=> WithinLimits(m.layers[i], PyShapes(m)[i + 1])
  <2>1. \A i \in 1..n : i + 1 \in 1..(n + 1)
    BY <1>1
  <2> QED BY <1>1, <1>5, <2>1, SameLimits
<1>9. ASSUME NEW k \in 1..N
      PROVE  R[k].ok <=> R[k - 1].ok /\ WithinLimits(specs[k], P(k + 1))
  <2>1. k - 1 \in 0..N /\ (k - 1) + 1 = k /\ k + 1 \in 1..(N + 1)
    BY <1>2
  <2>2. R[k - 1].ok => Last(R[k - 1].shapes) = P(k)
    BY <1>7, <2>1
  <2>3. P(k + 1) = PlanLayer(specs[k], P(k)) /\ P(k + 1) # Refused
    BY <1>6, <2>1
  <2> QED BY <1>4, <2>2, <2>3
<1>10. ASSUME R[N].ok PROVE InLimits(m)
  <2> DEFINE Z == {j \in Nat : j <= N => R[N - j].ok /\ \A i \in (N - j + 1)..N : WithinLimits(specs[i], P(i + 1))}
  <2>1. 0 \in Z
    <3>1. N - 0 = N /\ \A i \in (N - 0 + 1)..N : FALSE
      BY <1>2
    <3> QED BY <1>10, <3>1
  <2>2. ASSUME NEW j \in Nat, j \in Z PROVE j + 1 \in Z
    <3> SUFFICES ASSUME j + 1 <= N
                 PROVE  R[N - (j + 1)].ok /\ \A i \in (N - (j + 1) + 1)..N : WithinLimits(specs[i], P(i + 1))
      OBVIOUS
    <3> DEFINE k == N - j
    <3>1. j <= N /\ k \in 1..N /\ N - (j + 1) = k - 1 /\ N - (j + 1) + 1 = k /\ N - j + 1 = k + 1
      BY <1>2
    <3>2. R[k].ok /\ \A i \in (k + 1)..N : WithinLimits(specs[i], P(i + 1))
      BY <2>2, <3>1
    <3> HIDE DEF k
    <3>3. R[k - 1].ok /\ WithinLimits(specs[k], P(k + 1))
      BY <1>9, <3>1, <3>2
    <3>4. \A i \in k..N : i = k \/ i \in (k + 1)..N
      BY <1>2, <3>1
    <3> QED BY <3>1, <3>2, <3>3, <3>4
  <2>3. Nat \subseteq Z
    <3> HIDE DEF Z
    <3> QED BY <2>1, <2>2, FromOneToNext
  <2>4. \A i \in 1..N : WithinLimits(specs[i], P(i + 1))
    <3>1. N \in Z
      BY <1>2, <2>3
    <3>2. N <= N /\ N - N + 1 = 1
      BY <1>2
    <3> QED BY <3>1, <3>2
  <2>5. InputFits(m.input, N)
    <3>1. N \in 0..N
      BY <1>2
    <3> QED BY <1>4, <1>10, <3>1
  <2>6. \A i \in 1..n : i \in 1..N
    BY <1>1, <1>2
  <2>7. DOMAIN m.layers = 1..n
    BY DEF ModelForm, n
  <2> QED BY <1>8, <2>4, <2>5, <2>6, <2>7 DEF InLimits, N
<1>11. ASSUME InLimits(m) PROVE R[N].ok
  <2>1. DOMAIN m.layers = 1..n
    BY DEF ModelForm, n
  <2>2. InputFits(m.input, N) /\ \A i \in 1..n : WithinLimits(specs[i], P(i + 1))
    BY <1>8, <1>11, <2>1 DEF InLimits, N
  <2>3. Elems(P(n + 1)) <= MaxElems
    <3>1. CASE n = 0
      <4>1. P(n + 1) = m.input
        BY <1>6, <3>1
      <4> QED BY <2>2, <4>1 DEF InputFits
    <3>2. CASE n # 0
      <4>1. n \in 1..n
        BY <1>1, <3>2
      <4> QED BY <2>2, <4>1 DEF WithinLimits
    <3> QED BY <3>1, <3>2
  <2>4. ASSUME NEW i \in 1..N, i \notin 1..n PROVE WithinLimits(specs[i], P(i + 1))
    <3>1. i = n + 1 /\ specs[i] = Softmax
      BY <1>1, <2>4
    <3>2. P(i + 1) = P(n + 1)
      <4>1. P(i + 1) = PlanLayer(Softmax, P(i))
        BY <1>6, <3>1
      <4>2. PlanLayer(Softmax, P(i)) = P(i)
        BY DEF PlanLayer, Softmax
      <4> QED BY <3>1, <4>1, <4>2
    <3>3. 0 <= MaxDim /\ 0 <= MaxElems
      BY EngineAssumption
    <3>4. WeightCount(Softmax) = 0
      BY DEF WeightCount, Softmax
    <3>5. Softmax.type = "softmax" /\ Softmax.pad = 0 /\ Softmax.dtype = "f32"
      BY DEF Softmax
    <3>6. Elems(P(i + 1)) <= MaxElems
      BY <2>3, <3>2
    <3> HIDE DEF P
    <3> QED BY <3>1, <3>3, <3>4, <3>5, <3>6 DEF WithinLimits
  <2>5. \A i \in 1..N : WithinLimits(specs[i], P(i + 1))
    BY <2>2, <2>4
  <2> DEFINE Z == {k \in Nat : k <= N => R[k].ok}
  <2>6. 0 \in Z
    BY <1>4, <2>2 DEF N
  <2>7. ASSUME NEW k \in Nat, k \in Z PROVE k + 1 \in Z
    <3> SUFFICES ASSUME k + 1 <= N PROVE R[k + 1].ok
      OBVIOUS
    <3>1. k + 1 \in 1..N /\ (k + 1) - 1 = k /\ k <= N
      BY <1>2
    <3> QED BY <1>9, <2>5, <2>7, <3>1
  <2>8. Nat \subseteq Z
    <3> HIDE DEF Z
    <3> QED BY <2>6, <2>7, FromOneToNext
  <2>9. N \in Z /\ N <= N
    BY <1>2, <2>8
  <2> QED BY <2>9
<1> QED BY <1>10, <1>11 DEF N

\* The blocks behind the weights.
Buffers(r) ==
  <<4 * r.maxAct, 4 * r.maxAct, r.scratch.q_in, r.scratch.cols_i8, 4 * r.scratch.cols_f32, 4 * r.scratch.acc>>

LEMMA BuffersHold ==
  ASSUME NEW r \in ParseState
  PROVE  Buffers(r) \in Seq(Nat) /\ ArenaBytes(Buffers(r)) \in Nat /\ 8 * r.maxAct <= ArenaBytes(Buffers(r))
<1>1. r.maxAct \in Nat /\ r.scratch.q_in \in Nat /\ r.scratch.cols_i8 \in Nat /\ r.scratch.cols_f32 \in Nat
      /\ r.scratch.acc \in Nat
  BY ScratchNames DEF ParseState
<1> DEFINE x == 4 * r.maxAct
           a == r.scratch.q_in
           b == r.scratch.cols_i8
           c == 4 * r.scratch.cols_f32
           d == 4 * r.scratch.acc
           v == <<x, x>>
           w == <<a, b, c, d>>
<1>2. x \in Nat /\ a \in Nat /\ b \in Nat /\ c \in Nat /\ d \in Nat /\ 8 * r.maxAct = x + x
  BY <1>1
<1>3. Buffers(r) = <<x, x, a, b, c, d>>
  BY DEF Buffers
<1> HIDE DEF x, a, b, c, d
<1>4. v \in Seq(Nat) /\ w \in Seq(Nat) /\ <<x, x, a, b, c, d>> = v \o w
  BY <1>2
<1>5. x + x <= ArenaBytes(v)
  BY <1>2, BlocksHold
<1> HIDE DEF v, w
<1>6. ArenaBytes(v \o w) = ArenaBytes(v) + ArenaBytes(w) /\ ArenaBytes(v) \in Nat /\ ArenaBytes(w) \in Nat
      /\ v \o w \in Seq(Nat)
  <2>1. ArenaBytes(v \o w) = ArenaBytes(v) + ArenaBytes(w)
    BY <1>4, BlocksAdded
  <2>2. ArenaBytes(v) \in Nat /\ ArenaBytes(w) \in Nat
    BY <1>4, PlacedWithin
  <2>3. v \o w \in Seq(Nat)
    BY <1>4
  <2> QED BY <2>1, <2>2, <2>3
<1> DEFINE p == ArenaBytes(v)
           q == ArenaBytes(w)
<1>7. p \in Nat /\ q \in Nat /\ 8 * r.maxAct <= p /\ ArenaBytes(Buffers(r)) = p + q /\ Buffers(r) \in Seq(Nat)
  BY <1>2, <1>3, <1>4, <1>5, <1>6
<1> HIDE DEF p, q
<1>8. 8 * r.maxAct <= p + q
  <2> DEFINE z == 8 * r.maxAct
  <2>1. z \in Nat /\ z <= p
    BY <1>1, <1>7
  <2> HIDE DEF z
  <2> QED BY <1>7, <2>1 DEF z
<1> QED BY <1>7, <1>8

\* What load_from_memory returns.
LoadedAs(got, r, image, cap) ==
  /\ got.ok <=> r.ok /\ r.at = Len(image) + 1 /\ (cap = 0 \/ r.required + ArenaBytes(Buffers(r)) <= cap)
  /\ got.layers = r.layers /\ got.shapes = r.shapes /\ got.macs = r.macs /\ got.weights = r.weights
  /\ got.maxAct = r.maxAct /\ got.scratch = r.scratch
  /\ got.blocks = r.blocks \o Buffers(r) /\ got.required = r.required + ArenaBytes(Buffers(r))

LEMMA WhatIsLoaded ==
  ASSUME NEW r \in ParseState, NEW image, NEW cap
  PROVE  LoadedAs(AddBuffers(r, image, cap), r, image, cap)
<1> DEFINE b == Buffers(r)
           q == r.required + ArenaBytes(b)
           k == r.ok /\ r.at = Len(image) + 1 /\ (cap = 0 \/ q <= cap)
           got == [r EXCEPT !.ok = k, !.blocks = r.blocks \o b, !.required = q]
<1>1. AddBuffers(r, image, cap) = got
  BY DEF AddBuffers, WithBuffers, Buffers
<1> HIDE DEF b, q, k
<1>2. /\ got.ok = k /\ got.blocks = r.blocks \o b /\ got.required = q
      /\ got.layers = r.layers /\ got.shapes = r.shapes /\ got.macs = r.macs /\ got.weights = r.weights
      /\ got.maxAct = r.maxAct /\ got.scratch = r.scratch
  BY DEF ParseState
<1> HIDE DEF got
<1> QED BY <1>1, <1>2 DEF LoadedAs, b, q, k

LEMMA ImageIsLoaded ==
  ASSUME NEW m, ModelForm(m)
  PROVE  \E at, R : /\ Layout(EncodeSwm(m), Specs(m), Len(Specs(m)), at, m.input)
                    /\ Parsing(EncodeSwm(m), Specs(m), Len(Specs(m)), m.input, R)
                    /\ \A cap : LoadedAs(LoadFromMemory(EncodeSwm(m), cap), R[Len(Specs(m))], EncodeSwm(m), cap)
                    /\ R[Len(Specs(m))].ok => R[Len(Specs(m))].at = Len(EncodeSwm(m)) + 1
<1> DEFINE image == EncodeSwm(m)
           specs == Specs(m)
           N == Len(specs)
           in == m.input
<1>1. specs \in Seq(SpecForm) /\ N \in Nat
  BY SpecsListed
<1>2. in \in ShapeForm
  BY DEF ModelForm
<1>3. PICK at : Layout(image, specs, N, at, in)
  BY ImageWritten
<1>4. PICK R : Parsing(image, specs, N, in, R)
  BY <1>1, <1>2, ParsingExists
<1> HIDE DEF image, specs, in
<1>5. ParseLayers(image, in) = R[N]
  BY <1>1, <1>3, <1>4, ParsedIsLast
<1>6. Shape(image[3].value, image[4].value, image[5].value) = in
  <2>1. image[3].value = in.c /\ image[4].value = in.h /\ image[5].value = in.w
    BY <1>3 DEF Layout
  <2> QED BY <1>2, <2>1 DEF Shape, ShapeForm
<1>7. R[N] \in ParseState
  <2>1. N \in 0..N
    <3> HIDE DEF N
    <3> QED BY <1>1
  <2> QED BY <1>4, <2>1 DEF Parsing
<1>8. ASSUME NEW cap PROVE LoadedAs(LoadFromMemory(image, cap), R[N], image, cap)
  <2>1. LoadFromMemory(image, cap) = AddBuffers(R[N], image, cap)
    BY <1>5, <1>6 DEF LoadFromMemory
  <2> QED BY <1>7, <2>1, WhatIsLoaded
<1>9. R[N].ok => R[N].at = Len(image) + 1
  <2>1. N \in 0..N
    <3> HIDE DEF N
    <3> QED BY <1>1
  <2>2. R[N].ok => R[N].at = 6 + at[N]
    BY <1>1, <1>3, <1>4, <2>1, ParsedInPlace
  <2>3. Len(image) = 5 + at[N] /\ at[N] \in Nat
    BY <1>3, <2>1 DEF Layout
  <2> QED BY <2>2, <2>3
<1> QED BY <1>3, <1>4, <1>8, <1>9 DEF image, specs, N, in

\* The costs both engines count.
PyMac(L, out) ==
  CASE L.type = "dense" -> WeightCount(L)
    [] L.type = "conv2d" -> WeightCount(L) * out.h * out.w
    [] OTHER -> 0
PyBytes(m, L) == BiasCount(L) * 4 + WeightCount(L) * (IF m.quantize THEN 1 ELSE 4)

LEMMA SameCosts ==
  ASSUME NEW m, NEW L \in LayerForm, NEW out \in AnyShape
  PROVE  LayerMacs(SpecOf(m, L), out) = PyMac(L, out) /\ Costs(SpecOf(m, L)) = PyBytes(m, L)
<1> DEFINE S == SpecOf(m, L)
<1>1. /\ S.type = L.type /\ S.a = L.a /\ S.b = L.b /\ S.k = L.k
      /\ S.dtype = IF m.quantize /\ L.type \in Weighted THEN "i8" ELSE "f32"
  BY SpecIs
<1> HIDE DEF S
<1>2. L.a \in Int /\ L.b \in Int /\ L.k \in Int /\ out.h \in Int /\ out.w \in Int
  BY DEF LayerForm, AnyShape
<1>3. LayerMacs(S, out) = PyMac(L, out)
  <2>1. CASE L.type = "dense"
    BY <1>1, <2>1 DEF LayerMacs, PyMac, WeightCount
  <2>2. CASE L.type = "conv2d"
    <3>1. LayerMacs(S, out) = L.b * out.h * out.w * L.a * L.k * L.k
      BY <1>1, <2>2 DEF LayerMacs
    <3>2. PyMac(L, out) = L.b * L.a * L.k * L.k * out.h * out.w
      BY <2>2 DEF PyMac, WeightCount
    <3>3. \A b, h, w, a, k \in Int : b * h * w * a * k * k = b * a * k * k * h * w
      <4> TAKE b, h, w, a, k \in Int
      <4> DEFINE u == a * k * k
                 v == h * w
      <4>1. u \in Int /\ v \in Int /\ b * h * w * a * k * k = (b * v) * u /\ b * a * k * k * h * w = (b * u) * v
        OBVIOUS
      <4> HIDE DEF u, v
      <4>2. (b * v) * u = (b * u) * v
        BY <4>1
      <4> QED BY <4>1, <4>2
    <3> QED BY <1>2, <3>1, <3>2, <3>3
  <2>3. CASE L.type \notin {"dense", "conv2d"}
    BY <1>1, <2>3 DEF LayerMacs, PyMac
  <2> QED BY <2>1, <2>2, <2>3
<1>4. WeightCount(S) = WeightCount(L) /\ BiasCount(S) = BiasCount(L)
  BY <1>1 DEF WeightCount, BiasCount
<1>5. WeightCount(L) \in Int /\ BiasCount(L) \in Int /\ (L.type \notin Weighted => WeightCount(L) = 0)
  <2>1. S \in SpecForm
    BY SpecIs DEF S
  <2> QED BY <1>1, <1>4, <2>1, BytesAreCounted
<1>6. Costs(S) = PyBytes(m, L)
  <2> DEFINE x == WeightCount(L)
             y == BiasCount(L)
  <2>1. Costs(S) = x * (IF m.quantize /\ L.type \in Weighted THEN 1 ELSE 4) + 4 * y
    BY <1>1, <1>4 DEF Costs, WeightBytes
  <2>2. PyBytes(m, L) = y * 4 + x * (IF m.quantize THEN 1 ELSE 4)
    BY DEF PyBytes
  <2>3. x \in Int /\ y \in Int /\ (L.type \notin Weighted => x = 0)
    BY <1>5
  <2> HIDE DEF x, y
  <2>4. CASE L.type \in Weighted
    BY <2>1, <2>2, <2>3, <2>4
  <2>5. CASE L.type \notin Weighted
    BY <2>1, <2>2, <2>3, <2>5
  <2> QED BY <2>4, <2>5
<1> QED BY <1>3, <1>6 DEF S

LEMMA FirstPart ==
  ASSUME NEW T, NEW s \in Seq(T), NEW t \in Seq(T), Len(t) <= Len(s), \A i \in 1..Len(t) : s[i] = t[i]
  PROVE  SubSeq(s, 1, Len(t)) = t
<1> DEFINE n == Len(t)
           u == SubSeq(s, 1, n)
<1>1. n \in Nat /\ Len(s) \in Nat /\ n <= Len(s)
  OBVIOUS
<1>2. u \in Seq(T) /\ Len(u) = n /\ \A i \in 1..n : u[i] = s[i]
  <2> HIDE DEF n
  <2> QED BY <1>1
<1>3. \A i \in 1..n : u[i] = t[i]
  BY <1>2
<1> HIDE DEF u
<1> QED BY <1>2, <1>3, SeqEqual DEF u

\* What the layers behind numpy's cost nothing.
LEMMA TotalsAgree ==
  ASSUME NEW n \in Nat, NEW N \in {n, n + 1}, NEW v \in [1..n -> Nat], NEW w \in [1..N -> Nat],
         \A i \in 1..n : w[i] = v[i], N = n + 1 => w[n + 1] = 0
  PROVE  Total(w) = Total(v)
<1>1. CASE N = n
  BY <1>1
<1>2. CASE N = n + 1
  <2>1. Total(w) = Total(v) + w[n + 1] /\ Total(v) \in Nat
    BY <1>2, TotalOneMore
  <2> QED BY <1>2, <2>1
<1> QED BY <1>1, <1>2

LEMMA ParsedAgrees ==
  ASSUME NEW m, ModelForm(m), Planned(m), NEW r, Parsed(r, Len(Specs(m)), Specs(m), m.input)
  PROVE  /\ r.layers = Specs(m) /\ SubSeq(r.shapes, 1, Len(m.layers) + 1) = PyShapes(m)
         /\ r.macs = PyMacs(m) /\ r.weights = PyWeightsBytes(m)
<1> DEFINE N == Len(Specs(m))
           n == Len(m.layers)
           specs == Specs(m)
           s == PyShapes(m)
<1>1. /\ n \in Nat /\ N = (IF m.softmax THEN n + 1 ELSE n) /\ specs \in Seq(SpecForm)
      /\ \A i \in 1..n : m.layers[i] \in LayerForm /\ specs[i] = SpecOf(m, m.layers[i])
      /\ \A i \in 1..N : i \notin 1..n => i = n + 1 /\ specs[i] = Softmax
  BY SpecsListed
<1>2. /\ Len(s) = n + 1 /\ s \in Seq(AnyShape) /\ \A j \in 1..(n + 1) : s[j] \in AnyShape
  BY ShapesAreListed
<1>3. /\ r \in ParseState /\ Len(r.layers) = N /\ Len(r.shapes) = N + 1
      /\ \A i \in 1..N : r.layers[i] = specs[i]
      /\ \A i \in 1..N : LayerMacs(specs[i], r.shapes[i + 1]) \in Nat
      /\ r.weights = Total([i \in 1..N |-> Costs(specs[i])])
      /\ r.macs = Total([i \in 1..N |-> LayerMacs(specs[i], r.shapes[i + 1])])
  BY DEF Parsed
<1>4. DOMAIN m.layers = 1..n
  BY DEF ModelForm
<1>5. N \in Nat /\ n <= N /\ N \in {n, n + 1} /\ N \in 0..N
  <2> HIDE DEF N, n
  <2> QED BY <1>1
<1>6. \A j \in 1..(N + 1) : r.shapes[j] = PlannedAt(m, j)
  BY <1>5, SameShapes
<1>7. \A j \in 1..(n + 1) : r.shapes[j] = s[j]
  <2>1. \A j \in 1..(n + 1) : j \in 1..(N + 1) /\ j <= n + 1
    <3> HIDE DEF N, n
    <3> QED BY <1>1, <1>5
  <2> QED BY <1>6, <2>1 DEF PlannedAt
<1>8. r.layers \in Seq(SpecForm) /\ r.shapes \in Seq(AnyShape)
  BY <1>3 DEF ParseState
<1>9. r.layers = specs
  <2> DEFINE l == r.layers
  <2>1. l \in Seq(SpecForm) /\ Len(l) = Len(specs) /\ \A i \in 1..Len(l) : l[i] = specs[i]
    BY <1>3, <1>8
  <2> HIDE DEF l, specs, N
  <2> QED BY <1>1, <2>1, SeqEqual DEF l
<1>10. SubSeq(r.shapes, 1, n + 1) = s
  <2> DEFINE t == r.shapes
  <2>1. t \in Seq(AnyShape) /\ Len(s) <= Len(t) /\ \A i \in 1..Len(s) : t[i] = s[i]
    <3>1. n + 1 <= N + 1
      <4> HIDE DEF N, n
      <4> QED BY <1>1, <1>5
    <3> QED BY <1>2, <1>3, <1>7, <1>8, <3>1
  <2> HIDE DEF t, s, n
  <2>2. SubSeq(t, 1, Len(s)) = s
    BY <1>2, <2>1, FirstPart
  <2> QED BY <1>2, <2>2 DEF t
<1>11. r.macs = PyMacs(m)
  <2> DEFINE w == [i \in 1..N |-> LayerMacs(specs[i], r.shapes[i + 1])]
             v == [i \in 1..n |-> PyMac(m.layers[i], s[i + 1])]
  <2>1. PyMacs(m) = Total(v)
    BY <1>4 DEF PyMacs, PyMac
  <2>2. w \in [1..N -> Nat]
    BY <1>3
  <2> HIDE DEF specs, s, N, n
  <2>3. ASSUME NEW i \in 1..n PROVE w[i] = v[i] /\ i \in 1..N /\ v[i] \in Nat
    <3>1. i \in 1..N /\ i + 1 \in 1..(n + 1)
      BY <1>1, <1>5
    <3>2. w[i] = LayerMacs(SpecOf(m, m.layers[i]), s[i + 1])
      BY <1>1, <1>7, <3>1
    <3>3. w[i] = PyMac(m.layers[i], s[i + 1])
      BY <1>1, <1>2, <3>1, <3>2, SameCosts
    <3> QED BY <2>2, <3>1, <3>3
  <2>4. N = n + 1 => w[n + 1] = 0
    <3> SUFFICES ASSUME N = n + 1 PROVE w[n + 1] = 0
      OBVIOUS
    <3>1. n + 1 \in 1..N /\ n + 1 \notin 1..n
      BY <1>1
    <3>2. w[n + 1] = LayerMacs(Softmax, r.shapes[(n + 1) + 1])
      BY <1>1, <3>1
    <3> HIDE DEF w
    <3> QED BY <3>2 DEF LayerMacs, Softmax
  <2>5. v \in [1..n -> Nat]
    BY <2>3
  <2>6. r.macs = Total(w)
    BY <1>3
  <2> HIDE DEF v, w
  <2>7. Total(w) = Total(v)
    <3>1. n \in Nat /\ N \in {n, n + 1}
      BY <1>1, <1>5
    <3>2. \A i \in 1..n : w[i] = v[i]
      BY <2>3
    <3> QED BY ONLY <3>1, <3>2, <2>2, <2>4, <2>5, TotalsAgree
  <2> QED BY <2>1, <2>6, <2>7
<1>12. r.weights = PyWeightsBytes(m)
  <2> DEFINE w == [i \in 1..N |-> Costs(specs[i])]
             v == [i \in 1..n |-> PyBytes(m, m.layers[i])]
  <2>1. PyWeightsBytes(m) = Total(v)
    BY <1>4 DEF PyWeightsBytes, PyBytes
  <2>2. \A i \in 1..N : specs[i] \in SpecForm
    BY <1>1, Indexed
  <2> HIDE DEF specs, s, N, n
  <2>3. w \in [1..N -> Nat]
    BY <2>2, BytesAreCounted DEF Costs
  <2>4. ASSUME NEW i \in 1..n PROVE w[i] = v[i] /\ i \in 1..N /\ v[i] \in Nat
    <3>1. i \in 1..N /\ 1 \in 1..(n + 1)
      BY <1>1, <1>5
    <3>2. w[i] = Costs(SpecOf(m, m.layers[i]))
      BY <1>1, <3>1
    <3>3. w[i] = PyBytes(m, m.layers[i])
      BY <1>1, <1>2, <3>1, <3>2, SameCosts
    <3> QED BY <2>3, <3>1, <3>3
  <2>5. N = n + 1 => w[n + 1] = 0
    <3> SUFFICES ASSUME N = n + 1 PROVE w[n + 1] = 0
      OBVIOUS
    <3>1. n + 1 \in 1..N /\ n + 1 \notin 1..n
      BY <1>1
    <3>2. w[n + 1] = Costs(Softmax)
      BY <1>1, <3>1
    <3>3. WeightBytes(Softmax) = 0 /\ BiasCount(Softmax) = 0
      <4>1. Softmax \in SpecForm /\ Softmax.type \notin Weighted
        BY DEF Softmax, SpecForm, Weighted
      <4> QED BY <4>1, BytesAreCounted
    <3> HIDE DEF w
    <3> QED BY <3>2, <3>3 DEF Costs
  <2>6. v \in [1..n -> Nat]
    BY <2>4
  <2>7. r.weights = Total(w)
    BY <1>3
  <2> HIDE DEF v, w
  <2>8. Total(w) = Total(v)
    <3>1. n \in Nat /\ N \in {n, n + 1}
      BY <1>1, <1>5
    <3>2. \A i \in 1..n : w[i] = v[i]
      BY <2>4
    <3> QED BY ONLY <3>1, <3>2, <2>3, <2>5, <2>6, TotalsAgree
  <2> QED BY <2>1, <2>7, <2>8
<1> QED BY <1>9, <1>10, <1>11, <1>12

\* Encoder, two readers and two planners agree about every network.
THEOREM EnginesAlwaysAgree ==
  ASSUME NEW m, ModelForm(m)
  PROVE  EnginesAgree(m, EncodeSwm(m))
<1> SUFFICES ASSUME Planned(m)
             PROVE  LET py == ReadSwm(EncodeSwm(m))
                        cpp == LoadFromMemory(EncodeSwm(m), 0)
                    IN  /\ PyLoads(EncodeSwm(m), py) /\ py.layers = Specs(m)
                        /\ (cpp.ok <=> InLimits(m))
                        /\ cpp.ok =>
                              /\ cpp.layers = Specs(m)
                              /\ SubSeq(cpp.shapes, 1, Len(m.layers) + 1) = PyShapes(m)
                              /\ cpp.macs = PyMacs(m)
                              /\ cpp.weights = PyWeightsBytes(m)
  BY DEF EnginesAgree
<1> DEFINE image == EncodeSwm(m)
           specs == Specs(m)
           N == Len(specs)
           py == ReadSwm(image)
           cpp == LoadFromMemory(image, 0)
<1>1. specs \in Seq(SpecForm) /\ N \in Nat
  BY SpecsListed
<1>2. PICK at, R : /\ Layout(image, specs, N, at, m.input) /\ Parsing(image, specs, N, m.input, R)
                   /\ \A cap : LoadedAs(LoadFromMemory(image, cap), R[N], image, cap)
                   /\ R[N].ok => R[N].at = Len(image) + 1
  BY ImageIsLoaded
<1> DEFINE r == R[N]
<1>3. py = [at |-> Len(image) + 1, layers |-> specs, ok |-> TRUE]
  <2> HIDE DEF image, specs
  <2> QED BY <1>1, <1>2, ReadBack
<1>4. \A i \in DOMAIN specs : specs[i].type = "maxpool2d" => specs[i].k = specs[i].stride
  <2>1. \A i \in DOMAIN specs : specs[i] \in SpecForm
    BY <1>1, Indexed
  <2> HIDE DEF specs
  <2> QED BY <2>1 DEF SpecForm
<1>5. PyLoads(image, py) /\ py.layers = specs
  <2> HIDE DEF image, specs, py
  <2> QED BY <1>3, <1>4 DEF PyLoads
<1>6. r.ok <=> InLimits(m)
  BY <1>2, RefusedForLimits
<1>7. LoadedAs(cpp, r, image, 0)
  BY <1>2
<1>8. cpp.ok <=> InLimits(m)
  <2> HIDE DEF cpp, r, image
  <2>1. cpp.ok <=> r.ok /\ r.at = Len(image) + 1
    BY <1>7 DEF LoadedAs
  <2> QED BY <1>2, <1>6, <2>1 DEF r
<1>9. ASSUME cpp.ok PROVE /\ cpp.layers = specs /\ SubSeq(cpp.shapes, 1, Len(m.layers) + 1) = PyShapes(m)
                          /\ cpp.macs = PyMacs(m) /\ cpp.weights = PyWeightsBytes(m)
  <2>1. r.ok
    BY <1>6, <1>8, <1>9
  <2>2. N \in 0..N
    <3> HIDE DEF N
    <3> QED BY <1>1
  <2>3. m.input \in ShapeForm
    BY DEF ModelForm
  <2>4. Parsed(r, N, specs, m.input)
    BY <1>1, <1>2, <2>1, <2>2, <2>3, ParsedSoFar
  <2>5. /\ r.layers = specs /\ SubSeq(r.shapes, 1, Len(m.layers) + 1) = PyShapes(m)
        /\ r.macs = PyMacs(m) /\ r.weights = PyWeightsBytes(m)
    <3> HIDE DEF r
    <3> QED BY <2>4, ParsedAgrees
  <2>6. cpp.layers = r.layers /\ cpp.shapes = r.shapes /\ cpp.macs = r.macs /\ cpp.weights = r.weights
    <3> HIDE DEF cpp, r, image
    <3> QED BY <1>7 DEF LoadedAs
  <2> HIDE DEF cpp, r
  <2> QED BY <2>5, <2>6
<1> HIDE DEF py, cpp
<1> QED BY <1>5, <1>8, <1>9 DEF py, cpp

\* A network the engine accepts, after its last layer.
LEMMA LoadedIsParsed ==
  ASSUME NEW m, ModelForm(m)
  PROVE  LET N == Len(Specs(m))
         IN  \E r : /\ N \in Nat /\ r \in ParseState
                    /\ r.ok => Parsed(r, N, Specs(m), m.input) /\ InputFits(m.input, N) /\ N >= 1
                    /\ \A cap : LoadedAs(LoadFromMemory(EncodeSwm(m), cap), r, EncodeSwm(m), cap)
<1> DEFINE image == EncodeSwm(m)
           specs == Specs(m)
           N == Len(specs)
<1>1. specs \in Seq(SpecForm) /\ N \in Nat /\ m.input \in ShapeForm
  BY SpecsListed DEF ModelForm
<1>2. PICK at, R : /\ Layout(image, specs, N, at, m.input) /\ Parsing(image, specs, N, m.input, R)
                   /\ \A cap : LoadedAs(LoadFromMemory(image, cap), R[N], image, cap)
  BY ImageIsLoaded
<1>3. N \in 0..N
  <2> HIDE DEF N
  <2> QED BY <1>1
<1>4. R[N] \in ParseState
  BY <1>2, <1>3 DEF Parsing
<1>5. R[N].ok => Parsed(R[N], N, specs, m.input) /\ InputFits(m.input, N)
  BY <1>1, <1>2, <1>3, ParsedSoFar
<1>6. InputFits(m.input, N) => N >= 1
  <2> HIDE DEF N
  <2>1. InputFits(m.input, N) => N \in 1..MaxLayers
    BY DEF InputFits
  <2> QED BY <1>1, <2>1, EngineAssumption
<1> DEFINE r == R[N]
<1>7. /\ N \in Nat /\ r \in ParseState
      /\ r.ok => Parsed(r, N, specs, m.input) /\ InputFits(m.input, N) /\ N >= 1
      /\ \A cap : LoadedAs(LoadFromMemory(image, cap), r, image, cap)
  BY <1>1, <1>2, <1>4, <1>5, <1>6
<1> HIDE DEF r
<1> QED BY <1>7

\* The estimate without the engine is no more than the engine needs.
LEMMA EstimateIsLess ==
  ASSUME NEW m, ModelForm(m), Planned(m), NEW r, Parsed(r, Len(Specs(m)), Specs(m), m.input), Len(Specs(m)) >= 1
  PROVE  RamEstimate(m) <= r.required + ArenaBytes(Buffers(r)) /\ RamEstimate(m) \in Nat
<1> DEFINE N == Len(Specs(m))
           n == Len(m.layers)
           s == PyShapes(m)
           E == {Elems(x) : x \in Range(s)}
<1>1. n \in Nat /\ N = (IF m.softmax THEN n + 1 ELSE n)
  BY SpecsListed
<1>2. /\ r \in ParseState /\ r.weights <= r.required
      /\ \A i \in 1..N : Elems(r.shapes[i]) <= r.maxAct /\ Elems(r.shapes[i + 1]) <= r.maxAct
  BY DEF Parsed, Within
<1>3. /\ Len(s) = n + 1 /\ \A j \in 1..(n + 1) : s[j] \in AnyShape /\ s[j] \in Range(s)
      /\ \A x \in Range(s) : \E j \in 1..(n + 1) : x = s[j]
  BY ShapesAreListed
<1>4. \A j \in 1..(N + 1) : r.shapes[j] = PlannedAt(m, j)
  <2>1. N \in 0..N
    <3> HIDE DEF N, n
    <3> QED BY <1>1
  <2> QED BY <2>1, SameShapes
<1>5. r.weights = PyWeightsBytes(m)
  BY ParsedAgrees
<1>6. RamEstimate(m) = PyWeightsBytes(m) + 8 * Max(E)
  BY DEF RamEstimate
<1>7. r.maxAct \in Nat /\ r.weights \in Nat /\ r.required \in Nat
  BY <1>2 DEF ParseState
<1>8. \A j \in 1..(n + 1) : r.shapes[j] = s[j]
  <2>1. \A j \in 1..(n + 1) : j \in 1..(N + 1) /\ j <= n + 1
    <3> HIDE DEF N, n
    <3> QED BY <1>1
  <2> QED BY <1>4, <2>1 DEF PlannedAt
<1>9. N \in Nat /\ N >= 1 /\ n <= N
  <2>1. N >= 1
    OBVIOUS
  <2> HIDE DEF N, n
  <2> QED BY <1>1, <2>1
<1> HIDE DEF N, n, s
<1>10. ASSUME NEW j \in 1..(n + 1) PROVE Elems(s[j]) <= r.maxAct /\ Elems(s[j]) \in Nat
  <2>1. r.shapes[j] = s[j]
    BY <1>8
  <2>2. Elems(s[j]) <= r.maxAct
    <3>1. CASE j = 1
      <4>1. 1 \in 1..N
        BY <1>9
      <4> QED BY <1>2, <2>1, <3>1, <4>1
    <3>2. CASE j # 1
      <4>1. j - 1 \in 1..N /\ (j - 1) + 1 = j
        BY <1>1, <1>9, <3>2
      <4> QED BY <1>2, <2>1, <4>1
    <3> QED BY <3>1, <3>2
  <2>3. Positive(s[j])
    BY <1>3 DEF Planned, Positive, s
  <2>4. s[j].c \in Int /\ s[j].h \in Int /\ s[j].w \in Int
    BY <1>3 DEF AnyShape
  <2> DEFINE c == s[j].c
             h == s[j].h
             w == s[j].w
  <2>5. c \in Nat /\ h \in Nat /\ w \in Nat
    BY <2>3, <2>4 DEF Positive
  <2>6. Elems(s[j]) = c * h * w
    BY DEF Elems
  <2> HIDE DEF c, h, w
  <2>7. \A x, y \in Nat : x * y \in Nat
    OBVIOUS
  <2>8. c * h * w \in Nat
    BY <2>5, <2>7
  <2> QED BY <2>2, <2>6, <2>8
<1>11. \A x \in E : x \in Nat /\ x <= r.maxAct
  <2>1. \A x \in Range(s) : Elems(x) \in Nat /\ Elems(x) <= r.maxAct
    BY <1>3, <1>10
  <2> QED BY <2>1
<1>12. Max(E) \in E
  <2> DEFINE b == r.maxAct
             S == {b - x : x \in E}
  <2>1. b \in Nat /\ S \subseteq Nat
    <3>1. b \in Nat /\ \A x \in E : x \in Nat /\ x <= b
      BY <1>7, <1>11
    <3> HIDE DEF b, E
    <3>2. \A x \in E : b - x \in Nat
      BY <3>1
    <3> QED BY <3>1, <3>2
  <2>2. S # {}
    <3>1. 1 \in 1..(n + 1)
      BY <1>1
    <3>2. Elems(s[1]) \in E
      BY <1>3, <3>1
    <3> HIDE DEF E
    <3> QED BY <3>2
  <2>3. PICK y \in S : \A z \in S : y <= z
    <3> HIDE DEF S
    <3> QED BY <2>1, <2>2, Least
  <2>4. PICK x \in E : y = b - x
    OBVIOUS
  <2>5. ASSUME NEW z \in E PROVE z <= x /\ z \in Int
    <3>1. b - x <= b - z
      BY <2>3, <2>4
    <3>2. x \in Nat /\ z \in Nat
      BY <1>11
    <3> HIDE DEF E, b, S
    <3> QED BY <2>1, <3>1, <3>2
  <2>6. x \in Int
    BY <1>11
  <2> HIDE DEF E
  <2>7. \A z \in E : z \in Int /\ x >= z
    BY <2>5, <2>6
  <2>8. Max(E) = x
    BY <2>6, <2>7, LargestIs
  <2> QED BY <2>8
<1> DEFINE e == Max(E)
           a == ArenaBytes(Buffers(r))
           p == PyWeightsBytes(m)
<1>13. e \in Nat /\ e <= r.maxAct
  BY <1>11, <1>12
<1>14. a \in Nat /\ 8 * r.maxAct <= a
  BY <1>2, BuffersHold
<1>15. p \in Nat /\ p <= r.required /\ RamEstimate(m) = p + 8 * e
  BY <1>2, <1>5, <1>6, <1>7
<1> HIDE DEF e, a, p, E
<1>16. p + 8 * e <= r.required + a /\ p + 8 * e \in Nat
  BY <1>7, <1>13, <1>14, <1>15
<1> QED BY <1>15, <1>16 DEF a

\* A network that is accepted under a cap fits into its memory.
THEOREM PlacementAlwaysFits ==
  ASSUME NEW m, ModelForm(m), NEW cap \in Nat
  PROVE  PlacementFits(m, cap, EncodeSwm(m))
<1> DEFINE image == EncodeSwm(m)
           N == Len(Specs(m))
           got == LoadFromMemory(image, cap)
           arena == Place(got.blocks)
<1> SUFFICES ASSUME got.ok
             PROVE  /\ arena.used <= got.required /\ (cap = 0 \/ got.required <= cap)
                    /\ \A i \in DOMAIN got.blocks :
                          /\ arena.at[i] % Align = 0
                          /\ \A j \in 1..(i - 1) : arena.at[j] + got.blocks[j] <= arena.at[i]
                    /\ (Planned(m) /\ cap # 0) => RamEstimate(m) <= cap
  BY DEF PlacementFits
<1>1. PICK r : /\ N \in Nat /\ r \in ParseState
               /\ r.ok => Parsed(r, N, Specs(m), m.input) /\ N >= 1
               /\ LoadedAs(got, r, image, cap)
  BY LoadedIsParsed
<1> HIDE DEF got
<1>2. /\ r.ok /\ (cap = 0 \/ got.required <= cap)
      /\ got.blocks = r.blocks \o Buffers(r) /\ got.required = r.required + ArenaBytes(Buffers(r))
  BY <1>1 DEF LoadedAs
<1>3. Parsed(r, N, Specs(m), m.input) /\ N >= 1
  BY <1>1, <1>2
<1>4. r.required = ArenaBytes(r.blocks)
  BY <1>3 DEF Parsed
<1>5. r.blocks \in Seq(Nat) /\ Buffers(r) \in Seq(Nat)
  BY <1>1, BuffersHold DEF ParseState
<1> DEFINE a == r.blocks
           b == Buffers(r)
<1>6. a \in Seq(Nat) /\ b \in Seq(Nat) /\ got.blocks = a \o b
  BY <1>2, <1>5
<1>7. got.required = ArenaBytes(a) + ArenaBytes(b)
  BY <1>2, <1>4
<1> HIDE DEF a, b
<1>8. got.blocks \in Seq(Nat) /\ got.required = ArenaBytes(got.blocks)
  BY <1>6, <1>7, BlocksAdded
<1>9. Fitting(got.blocks, got.required, arena)
  BY <1>8, PlacedWithin
<1>10. ASSUME Planned(m), cap # 0 PROVE RamEstimate(m) <= cap
  <2>1. RamEstimate(m) <= got.required /\ RamEstimate(m) \in Nat
    BY <1>2, <1>3, <1>10, EstimateIsLess
  <2>2. got.required <= cap /\ got.required \in Nat
    BY <1>2, <1>8, <1>10, PlacedWithin
  <2> QED BY <2>1, <2>2
<1> HIDE DEF arena
<1> QED BY <1>2, <1>9, <1>10 DEF Fitting

\* The buffers of a layer are never the same.
LEMMA BuffersDiffer ==
  ASSUME NEW n \in Nat, NEW i \in 1..n
  PROVE  Buffer(i - 1, n) # Buffer(i, n)
<1>1. n = i \/ n # i
  OBVIOUS
<1>2. i - 1 # n /\ i # 0 /\ i \in Nat /\ i - 1 \in Nat
  OBVIOUS
<1>3. (i - 1) % 2 = 1 <=> i % 2 # 1
  OBVIOUS
<1>4. CASE i = n
  <2>1. Buffer(i, n) = "output"
    BY <1>2, <1>4 DEF Buffer
  <2>2. Buffer(i - 1, n) \in {"input", "act_a", "act_b"}
    BY <1>2 DEF Buffer
  <2> QED BY <2>1, <2>2
<1>5. CASE i # n
  <2>1. Buffer(i, n) = IF i % 2 = 1 THEN "act_a" ELSE "act_b"
    BY <1>2, <1>5 DEF Buffer
  <2>2. Buffer(i - 1, n) = IF i - 1 = 0 THEN "input" ELSE IF (i - 1) % 2 = 1 THEN "act_a" ELSE "act_b"
    BY <1>2 DEF Buffer
  <2> QED BY <1>3, <2>1, <2>2
<1> QED BY <1>4, <1>5

\* The last value a pooling layer reads is one of its input's.
LEMMA PoolInside ==
  ASSUME NEW c \in Nat \ {0}, NEW h \in Nat \ {0}, NEW w \in Nat \ {0}, NEW row \in Nat, NEW col \in Nat,
         row <= h, col <= w
  PROVE  ((c - 1) * h + row - 1) * w + col <= c * h * w
<1> DEFINE u == (c - 1) * h
           v == c * h
           x == v * w
<1>1. u \in Int /\ v \in Int /\ u = v - h /\ x \in Int
  OBVIOUS
<1> HIDE DEF u, v
<1> DEFINE y == u + row - 1
<1>2. y \in Int /\ y <= v - 1
  BY <1>1
<1> HIDE DEF y
<1> DEFINE z == v - 1
<1>3. z \in Int /\ z * w = x - w
  BY <1>1
<1>4. \A a, b \in Int : a <= b => a * w <= b * w
  <2> TAKE a, b \in Int
  <2> SUFFICES ASSUME a <= b PROVE a * w <= b * w
    OBVIOUS
  <2> DEFINE d == b - a
  <2>1. d \in Nat /\ b = a + d
    OBVIOUS
  <2> HIDE DEF d
  <2> DEFINE aw == a * w
             dw == d * w
  <2>2. aw \in Int /\ dw \in Nat /\ b * w = aw + dw
    <3>1. \A i, j \in Nat : i * j \in Nat
      OBVIOUS
    <3>2. dw \in Nat
      BY <2>1, <3>1
    <3>3. (a + d) * w = aw + dw
      BY <2>1
    <3> QED BY <2>1, <3>2, <3>3
  <2> HIDE DEF aw, dw
  <2> QED BY <2>2 DEF aw
<1> HIDE DEF z
<1>5. y * w <= z * w
  BY <1>2, <1>3, <1>4 DEF z
<1> DEFINE yw == y * w
           zw == z * w
<1>6. yw \in Int /\ zw \in Int /\ yw <= zw /\ zw = x - w
  BY <1>2, <1>3, <1>5
<1> HIDE DEF x, yw, zw
<1>7. yw + col <= x
  BY <1>1, <1>6
<1> QED BY <1>7 DEF yw, y, u, x, v

\* What a layer touches is there.
LEMMA TouchedFits ==
  ASSUME NEW L \in SpecForm, NEW in \in AnyShape, Positive(in), NEW out \in AnyShape, out = PlanLayer(L, in),
         out # Refused, L.type = "maxpool2d" => in.h \div L.k > 0 /\ in.w \div L.k > 0
  PROVE  LET t == Touched(L, in, out)
         IN  /\ t.in <= Elems(in) /\ t.out <= Elems(out)
             /\ \A f \in Scratch : t[f] = ScratchNeeds(L, in, out)[f]
<1> DEFINE t == Touched(L, in, out)
           K == L.a * L.k * L.k
           N == out.h * out.w
           q == L.dtype = "i8"
           conv == L.type = "conv2d"
           dense == L.type = "dense"
           pool == L.type = "maxpool2d"
           e == Elems(in)
           lastRow == (out.h - 1) * L.stride + L.k
           lastCol == (out.w - 1) * L.stride + L.k
           deep == ((in.c - 1) * in.h + lastRow - 1) * in.w + lastCol
           KN == K * N
           bN == L.b * N
           cN == in.c * N
<1>1. t = [in |-> IF dense THEN L.a ELSE IF pool THEN deep ELSE e,
           out |-> IF dense THEN L.b ELSE IF conv THEN bN ELSE IF pool THEN cN ELSE e,
           q_in |-> IF q /\ dense THEN L.a ELSE IF q /\ conv THEN e ELSE 0,
           cols_i8 |-> IF q /\ conv THEN KN ELSE 0,
           cols_f32 |-> IF ~q /\ conv THEN KN ELSE 0,
           acc |-> IF q /\ dense THEN L.b ELSE IF q /\ conv THEN bN ELSE 0]
  BY DEF Touched
<1>2. /\ t.in = (IF dense THEN L.a ELSE IF pool THEN deep ELSE e)
      /\ t.out = (IF dense THEN L.b ELSE IF conv THEN bN ELSE IF pool THEN cN ELSE e)
      /\ t.q_in = (IF q /\ dense THEN L.a ELSE IF q /\ conv THEN e ELSE 0)
      /\ t.cols_i8 = (IF q /\ conv THEN KN ELSE 0)
      /\ t.cols_f32 = (IF ~q /\ conv THEN KN ELSE 0)
      /\ t.acc = (IF q /\ dense THEN L.b ELSE IF q /\ conv THEN bN ELSE 0)
  <2> HIDE DEF t, K, N, e, lastRow, lastCol, deep, KN, bN, cN, q, conv, dense, pool
  <2> QED BY <1>1
<1> DEFINE S == ScratchNeeds(L, in, out)
<1>3. S = (CASE dense /\ q -> [NoScratch EXCEPT !.q_in = L.a, !.acc = L.b]
             [] conv /\ q -> [NoScratch EXCEPT !.q_in = e, !.cols_i8 = KN, !.acc = bN]
             [] conv /\ ~q -> [NoScratch EXCEPT !.cols_f32 = KN]
             [] OTHER -> NoScratch)
  BY DEF ScratchNeeds
<1>4. L.type \in {"dense", "conv2d", "maxpool2d", "flatten", "relu", "softmax"}
      /\ L.a \in Nat /\ L.b \in Nat /\ L.k \in Nat
      /\ (pool => L.k # 0 /\ L.stride = L.k /\ L.pad = 0)
  BY DEF SpecForm, Weighted
<1>5. in.c \in Nat \ {0} /\ in.h \in Nat \ {0} /\ in.w \in Nat \ {0}
  BY DEF AnyShape, Positive
<1>6. ~(dense /\ conv)
  OBVIOUS
<1>7. \A f \in Scratch : t[f] = S[f]
  <2> HIDE DEF t, S, K, N, e, lastRow, lastCol, deep, KN, bN, cN, q, conv, dense, pool
  <2>1. CASE dense /\ q
    <3>1. S = [NoScratch EXCEPT !.q_in = L.a, !.acc = L.b]
      BY <1>3, <1>6, <2>1
    <3> DEFINE la == L.a
               lb == L.b
    <3> HIDE DEF la, lb
    <3>2. S = [q_in |-> la, cols_i8 |-> 0, cols_f32 |-> 0, acc |-> lb]
      BY <3>1 DEF NoScratch, la, lb
    <3>3. t.q_in = la /\ t.cols_i8 = 0 /\ t.cols_f32 = 0 /\ t.acc = lb
      BY <1>2, <1>6, <2>1 DEF la, lb
    <3> QED BY <3>2, <3>3, ScratchNames
  <2>2. CASE conv /\ q
    <3>1. S = [NoScratch EXCEPT !.q_in = e, !.cols_i8 = KN, !.acc = bN]
      BY <1>3, <1>6, <2>2
    <3>2. S = [q_in |-> e, cols_i8 |-> KN, cols_f32 |-> 0, acc |-> bN]
      BY <3>1 DEF NoScratch
    <3>3. t.q_in = e /\ t.cols_i8 = KN /\ t.cols_f32 = 0 /\ t.acc = bN
      BY <1>2, <1>6, <2>2
    <3> QED BY <3>2, <3>3, ScratchNames
  <2>3. CASE conv /\ ~q
    <3>1. S = [NoScratch EXCEPT !.cols_f32 = KN]
      BY <1>3, <1>6, <2>3
    <3>2. S = [q_in |-> 0, cols_i8 |-> 0, cols_f32 |-> KN, acc |-> 0]
      BY <3>1 DEF NoScratch
    <3>3. t.q_in = 0 /\ t.cols_i8 = 0 /\ t.cols_f32 = KN /\ t.acc = 0
      BY <1>2, <1>6, <2>3
    <3> QED BY <3>2, <3>3, ScratchNames
  <2>4. CASE ~(dense /\ q) /\ ~conv
    <3>1. S = NoScratch
      BY <1>3, <2>4
    <3>2. S = [q_in |-> 0, cols_i8 |-> 0, cols_f32 |-> 0, acc |-> 0]
      BY <3>1 DEF NoScratch
    <3>3. t.q_in = 0 /\ t.cols_i8 = 0 /\ t.cols_f32 = 0 /\ t.acc = 0
      BY <1>2, <1>6, <2>4
    <3> QED BY <3>2, <3>3, ScratchNames
  <2> QED BY <2>1, <2>2, <2>3, <2>4
<1> HIDE DEF t, S
<1>8. \A x \in Int : x <= x
  OBVIOUS
<1>9. e \in Int /\ Elems(out) \in Int
  BY NeedsAreNumbers
<1>10. t.in <= e /\ t.out <= Elems(out)
  <2>1. CASE dense
    <3>1. e = L.a /\ out = Flat(L.b)
      BY <2>1 DEF PlanLayer
    <3>2. Elems(out) = L.b
      BY <1>4, <3>1 DEF Elems, Flat, Shape
    <3>3. t.in = L.a /\ t.out = L.b
      BY <1>2, <2>1
    <3> HIDE DEF e
    <3> QED BY <1>8, <1>9, <3>1, <3>2, <3>3
  <2>2. CASE conv
    <3> DEFINE oh == ConvOutDim(in.h, L.k, L.stride, L.pad)
               ow == ConvOutDim(in.w, L.k, L.stride, L.pad)
    <3>1. out = Shape(L.b, oh, ow)
      BY <2>2 DEF PlanLayer
    <3> HIDE DEF oh, ow
    <3>2. out.c = L.b
      BY <3>1 DEF Shape
    <3>3. Elems(out) = bN
      <4>1. L.b \in Int /\ out.h \in Int /\ out.w \in Int
        BY <1>4 DEF AnyShape
      <4>2. \A a, b, c \in Int : a * b * c = a * (b * c)
        OBVIOUS
      <4> QED BY <3>2, <4>1, <4>2 DEF Elems
    <3>4. t.in = e /\ t.out = bN
      BY <1>2, <2>2
    <3> HIDE DEF e, bN
    <3> QED BY <1>8, <1>9, <3>3, <3>4
  <2>3. CASE pool
    <3> DEFINE h == in.h
               w == in.w
               k == L.k
               x == h \div k
               y == w \div k
    <3>1. h \in Nat \ {0} /\ w \in Nat \ {0} /\ k \in Nat \ {0} /\ x > 0 /\ y > 0
      BY <1>4, <1>5, <2>3
    <3>2. L.stride = k /\ L.pad = 0
      BY <1>4, <2>3
    <3>3. /\ ConvOutDim(h, k, k, 0) = x /\ x * k <= h /\ x \in Nat
          /\ ConvOutDim(w, k, k, 0) = y /\ y * k <= w /\ y \in Nat
      <4> HIDE DEF h, w, k
      <4>1. h \in Int /\ h > 0 /\ w \in Int /\ w > 0 /\ h \div k > 0 /\ w \div k > 0
        BY <3>1
      <4> QED BY <3>1, <4>1, SamePool
    <3> HIDE DEF x, y
    <3>4. out = Shape(in.c, x, y)
      BY <2>3, <3>1, <3>2, <3>3 DEF PlanLayer, h, w, k
    <3>5. out.c = in.c /\ out.h = x /\ out.w = y
      BY <3>4 DEF Shape
    <3>6. lastRow = x * k /\ lastCol = y * k /\ x * k \in Nat /\ y * k \in Nat
      <4> HIDE DEF k
      <4>1. lastRow = (x - 1) * k + k /\ lastCol = (y - 1) * k + k
        BY <3>2, <3>5 DEF k
      <4>2. \A a, b \in Nat : a * b \in Nat /\ (a - 1) * b + b = a * b
        OBVIOUS
      <4> QED BY <3>1, <3>3, <4>1, <4>2
    <3>7. deep <= in.c * h * w
      <4> DEFINE row == x * k
                 col == y * k
                 c == in.c
      <4>1. row \in Nat /\ col \in Nat /\ row <= h /\ col <= w /\ c \in Nat \ {0}
        BY <1>5, <3>3, <3>6
      <4>2. deep = ((c - 1) * h + row - 1) * w + col
        BY <3>6
      <4> HIDE DEF row, col, c, h, w, deep
      <4>3. ((c - 1) * h + row - 1) * w + col <= c * h * w
        BY <3>1, <4>1, PoolInside
      <4> QED BY <4>2, <4>3 DEF c
    <3>8. e = in.c * h * w
      BY DEF Elems
    <3>9. Elems(out) = cN
      <4>1. in.c \in Int /\ out.h \in Int /\ out.w \in Int
        BY <1>5 DEF AnyShape
      <4>2. \A a, b, c \in Int : a * b * c = a * (b * c)
        OBVIOUS
      <4> QED BY <3>5, <4>1, <4>2 DEF Elems
    <3>10. t.in = deep /\ t.out = cN
      BY <1>2, <2>3
    <3> HIDE DEF e, deep, cN, h, w
    <3> QED BY <1>8, <1>9, <3>7, <3>8, <3>9, <3>10
  <2>4. CASE ~dense /\ ~conv /\ ~pool
    <3>1. t.in = e /\ t.out = e
      BY <1>2, <2>4
    <3>2. Elems(out) = e
      <4>1. CASE L.type = "flatten"
        <5>1. out = Flat(e)
          BY <4>1 DEF PlanLayer
        <5> HIDE DEF e
        <5> QED BY <1>9, <5>1 DEF Elems, Flat, Shape
      <4>2. CASE L.type # "flatten"
        <5>1. out = in
          BY <2>4, <4>2 DEF PlanLayer
        <5> QED BY <5>1
      <4> QED BY <4>1, <4>2
    <3> HIDE DEF e
    <3> QED BY <1>8, <1>9, <3>1, <3>2
  <2> QED BY <2>1, <2>2, <2>3, <2>4
<1> QED BY <1>7, <1>10 DEF t, S

\* Windows that divide an image reach its last element.
LEMMA PoolFills ==
  ASSUME NEW c \in Nat \ {0}, NEW h \in Nat \ {0}, NEW w \in Nat \ {0}
  PROVE  ((c - 1) * h + h - 1) * w + w = c * h * w
<1> DEFINE u == (c - 1) * h
           v == c * h
<1>1. u \in Int /\ v \in Int /\ u = v - h
  OBVIOUS
<1> HIDE DEF u, v
<1> DEFINE y == u + h - 1
<1>2. y = v - 1
  BY <1>1
<1>3. (v - 1) * w = v * w - w /\ v * w \in Int
  BY <1>1
<1> HIDE DEF y
<1>4. y * w + w = v * w
  BY <1>2, <1>3
<1> QED BY <1>4 DEF y, u, v

\* What a layer is given is touched to its last element, windows that divide
\* it provided.
LEMMA TouchesAll ==
  ASSUME NEW L \in SpecForm, NEW in \in AnyShape, Positive(in), NEW out \in AnyShape, out = PlanLayer(L, in),
         out # Refused, L.type = "maxpool2d" => in.h \div L.k > 0 /\ in.w \div L.k > 0,
         L.type = "maxpool2d" => in.h % L.k = 0 /\ in.w % L.k = 0
  PROVE  Touched(L, in, out).in = Elems(in)
<1> DEFINE t == Touched(L, in, out)
           e == Elems(in)
           lastRow == (out.h - 1) * L.stride + L.k
           lastCol == (out.w - 1) * L.stride + L.k
           deep == ((in.c - 1) * in.h + lastRow - 1) * in.w + lastCol
           h == in.h
           w == in.w
           k == L.k
           x == h \div k
           y == w \div k
<1>1. t.in = (IF L.type = "dense" THEN L.a ELSE IF L.type = "maxpool2d" THEN deep ELSE e)
  BY DEF Touched
<1>2. CASE L.type = "dense"
  <2>1. e = L.a
    BY <1>2 DEF PlanLayer
  <2> HIDE DEF t, e
  <2> QED BY <1>1, <1>2, <2>1 DEF t, e
<1>3. CASE L.type = "maxpool2d"
  <2>1. in.c \in Nat \ {0} /\ h \in Nat \ {0} /\ w \in Nat \ {0} /\ k \in Nat \ {0} /\ L.stride = k /\ L.pad = 0
        /\ x > 0 /\ y > 0 /\ h % k = 0 /\ w % k = 0
    BY <1>3 DEF SpecForm, Weighted, AnyShape, Positive
  <2> HIDE DEF h, w, k
  <2>2. ConvOutDim(h, k, k, 0) = x /\ ConvOutDim(w, k, k, 0) = y /\ x \in Nat /\ y \in Nat
    <3>1. h \in Int /\ h > 0 /\ w \in Int /\ w > 0
      BY <2>1
    <3> QED BY <2>1, <3>1, SamePool
  <2>3. x * k = h /\ y * k = w
    <3>1. h \in Nat /\ w \in Nat
      BY <2>1
    <3>2. h = x * k + (h % k) /\ w = y * k + (w % k)
      BY <2>1, <3>1, DivMod
    <3> DEFINE xk == x * k
               yk == y * k
    <3>3. xk \in Int /\ yk \in Int /\ h = xk + 0 /\ w = yk + 0
      <4>1. \A a, b \in Nat : a * b \in Int
        OBVIOUS
      <4>2. h = xk + 0 /\ w = yk + 0
        BY <2>1, <3>2
      <4> HIDE DEF x, y
      <4> QED BY <2>1, <2>2, <4>1, <4>2
    <3> HIDE DEF xk, yk
    <3>4. xk = h /\ yk = w
      BY <3>3
    <3> QED BY <3>4 DEF xk, yk
  <2> HIDE DEF x, y
  <2>4. out = Shape(in.c, x, y)
    BY <1>3, <2>1, <2>2 DEF PlanLayer, h, w, k
  <2>5. out.h = x /\ out.w = y
    BY <2>4 DEF Shape
  <2>6. lastRow = h /\ lastCol = w
    <3>1. \A a, b \in Nat : (a - 1) * b + b = a * b
      OBVIOUS
    <3>2. lastRow = (x - 1) * k + k /\ lastCol = (y - 1) * k + k
      BY <2>1, <2>5 DEF k
    <3> QED BY <2>1, <2>2, <2>3, <3>1, <3>2
  <2>7. deep = ((in.c - 1) * h + h - 1) * w + w
    BY <2>6 DEF h, w
  <2>8. deep = in.c * h * w
    <3> DEFINE c == in.c
    <3>1. c \in Nat \ {0}
      BY <2>1
    <3> HIDE DEF c
    <3>2. ((c - 1) * h + h - 1) * w + w = c * h * w
      BY <2>1, <3>1, PoolFills
    <3> QED BY <2>7, <3>2 DEF c
  <2>9. e = in.c * h * w
    BY DEF Elems, h, w
  <2>10. t.in = deep
    BY <1>1, <1>3
  <2> HIDE DEF t, e, deep
  <2> QED BY <2>8, <2>9, <2>10 DEF t, e
<1>4. CASE L.type \notin {"dense", "maxpool2d"}
  BY <1>1, <1>4
<1> QED BY <1>2, <1>3, <1>4

\* A pooling layer numpy plans has a window that fits.
LEMMA PoolsFit ==
  ASSUME NEW m, ModelForm(m), Planned(m), NEW i \in 1..Len(Specs(m)), Specs(m)[i].type = "maxpool2d"
  PROVE  PlannedAt(m, i).h \div Specs(m)[i].k > 0 /\ PlannedAt(m, i).w \div Specs(m)[i].k > 0
<1> DEFINE n == Len(m.layers)
           s == PyShapes(m)
           L == m.layers[i]
<1>1. /\ n \in Nat
      /\ \A j \in 1..n : m.layers[j] \in LayerForm /\ Specs(m)[j] = SpecOf(m, m.layers[j])
      /\ i \notin 1..n => Specs(m)[i] = Softmax
  BY SpecsListed
<1>2. i \in 1..n
  BY <1>1 DEF Softmax
<1>3. L \in LayerForm /\ L.type = "maxpool2d" /\ Specs(m)[i].k = L.k
  <2>1. L \in LayerForm /\ Specs(m)[i] = SpecOf(m, L)
    BY <1>1, <1>2
  <2> HIDE DEF L
  <2> QED BY <2>1, SpecIs
<1>4. /\ \A j \in 1..(n + 1) : s[j] \in Range(s)
      /\ \A j \in 1..n : s[j + 1] = PyShape(m.layers[j], s[j])
  BY ShapesAreListed
<1> HIDE DEF n, s
<1>5. i + 1 \in 1..(n + 1) /\ i <= n + 1
  BY <1>1, <1>2
<1>6. Positive(s[i + 1]) /\ PlannedAt(m, i) = s[i]
  BY <1>4, <1>5 DEF Planned, Positive, PlannedAt, s, n
<1>7. s[i + 1] = Shape(s[i].c, s[i].h \div L.k, s[i].w \div L.k)
  <2>1. s[i + 1] = PyShape(L, s[i])
    BY <1>2, <1>4
  <2> HIDE DEF L
  <2> QED BY <1>3, <2>1 DEF PyShape
<1>8. s[i].h \div L.k > 0 /\ s[i].w \div L.k > 0
  BY <1>6, <1>7 DEF Positive, Shape
<1> QED BY <1>3, <1>6, <1>8

\* Where numpy's forward runs a network, the windows of its pools divide.
LEMMA PoolsDivide ==
  ASSUME NEW m, ModelForm(m), Runnable(m), NEW i \in 1..Len(Specs(m)), Specs(m)[i].type = "maxpool2d"
  PROVE  PlannedAt(m, i).h % Specs(m)[i].k = 0 /\ PlannedAt(m, i).w % Specs(m)[i].k = 0
<1> DEFINE n == Len(m.layers)
           s == PyShapes(m)
           L == m.layers[i]
<1>1. /\ n \in Nat
      /\ \A j \in 1..n : m.layers[j] \in LayerForm /\ Specs(m)[j] = SpecOf(m, m.layers[j])
      /\ i \notin 1..n => Specs(m)[i] = Softmax
  BY SpecsListed
<1>2. i \in 1..n
  BY <1>1 DEF Softmax
<1>3. L \in LayerForm /\ L.type = "maxpool2d" /\ Specs(m)[i].k = L.k
  <2>1. L \in LayerForm /\ Specs(m)[i] = SpecOf(m, L)
    BY <1>1, <1>2
  <2> HIDE DEF L
  <2> QED BY <2>1, SpecIs
<1>4. i \in DOMAIN m.layers
  BY <1>2, SpecsListed, Indexed DEF ModelForm
<1>5. s[i].h % L.k = 0 /\ s[i].w % L.k = 0
  BY <1>3, <1>4 DEF Runnable
<1>6. i <= n + 1
  BY <1>1, <1>2
<1> QED BY <1>3, <1>5, <1>6 DEF PlannedAt

\* Running what numpy plans stays inside the buffers.
THEOREM RunsStayInside ==
  ASSUME NEW m, ModelForm(m)
  PROVE  RunStaysInside(m, EncodeSwm(m))
<1> DEFINE image == EncodeSwm(m)
           specs == Specs(m)
           N == Len(specs)
           got == LoadFromMemory(image, 0)
           n == Len(got.layers)
           Holds(i) == IF i = 0 THEN Elems(m.input) ELSE IF i = n THEN Elems(Last(got.shapes)) ELSE got.maxAct
           Uses(i, t) ==
              /\ Buffer(i - 1, n) # Buffer(i, n)
              /\ t.in <= Holds(i - 1) /\ t.in <= Elems(got.shapes[i])
              /\ Runnable(m) => t.in = Elems(got.shapes[i])
              /\ t.out <= Holds(i)
              /\ \A f \in DOMAIN NoScratch : t[f] <= got.scratch[f]
<1> SUFFICES ASSUME Planned(m), got.ok
             PROVE  \A i \in 1..n : Uses(i, Touched(got.layers[i], got.shapes[i], got.shapes[i + 1]))
  BY DEF RunStaysInside
<1>1. PICK r : /\ N \in Nat /\ r \in ParseState
               /\ r.ok => Parsed(r, N, specs, m.input)
               /\ LoadedAs(got, r, image, 0)
  BY LoadedIsParsed
<1> HIDE DEF got
<1>2. /\ r.ok /\ got.layers = r.layers /\ got.shapes = r.shapes /\ got.maxAct = r.maxAct /\ got.scratch = r.scratch
  BY <1>1 DEF LoadedAs
<1>3. Parsed(r, N, specs, m.input)
  BY <1>1, <1>2
<1>4. /\ Len(r.layers) = N /\ Len(r.shapes) = N + 1 /\ r.shapes[1] = m.input
      /\ \A i \in 1..N : r.layers[i] = specs[i] /\ Within(r, specs[i], r.shapes[i], r.shapes[i + 1])
  BY <1>3 DEF Parsed
<1>5. specs \in Seq(SpecForm)
  BY SpecsListed
<1>6. \A i \in 1..N : specs[i] \in SpecForm
  BY <1>5, Indexed
<1>7. \A j \in 1..(N + 1) : r.shapes[j] = PlannedAt(m, j)
  <2>1. N \in 0..N
    <3> HIDE DEF N
    <3> QED BY <1>1
  <2> QED BY <1>3, <2>1, SameShapes
<1>8. \A j \in 1..(N + 1) : PlannedAt(m, j) \in AnyShape /\ Positive(PlannedAt(m, j))
  BY PlannedTheSame
<1>9. \A i \in 1..N : specs[i].type = "maxpool2d" => PlannedAt(m, i).h \div specs[i].k > 0
                                                      /\ PlannedAt(m, i).w \div specs[i].k > 0
  BY PoolsFit
<1>26. \A i \in 1..N : Runnable(m) /\ specs[i].type = "maxpool2d" => PlannedAt(m, i).h % specs[i].k = 0
                                                                  /\ PlannedAt(m, i).w % specs[i].k = 0
  BY PoolsDivide
<1>10. n = N
  BY <1>2, <1>4
<1>11. Last(got.shapes) = r.shapes[N + 1]
  BY <1>2, <1>4 DEF Last
<1> HIDE DEF N, n, specs
<1>12. r.maxAct \in Int /\ \A f \in Scratch : r.scratch[f] \in Int
  BY <1>1 DEF ParseState
<1> HIDE DEF Uses
<1> SUFFICES ASSUME NEW i \in 1..N
             PROVE  Uses(i, Touched(specs[i], r.shapes[i], r.shapes[i + 1]))
  BY <1>2, <1>4, <1>10
<1> DEFINE L == specs[i]
           in == r.shapes[i]
           out == r.shapes[i + 1]
           t == Touched(L, in, out)
<1>13. i \in 1..(N + 1) /\ i + 1 \in 1..(N + 1) /\ i \in Nat /\ i # 0
  BY <1>1
<1>14. L \in SpecForm /\ in \in AnyShape /\ Positive(in) /\ out \in AnyShape
       /\ (L.type = "maxpool2d" => in.h \div L.k > 0 /\ in.w \div L.k > 0)
       /\ (Runnable(m) /\ L.type = "maxpool2d" => in.h % L.k = 0 /\ in.w % L.k = 0)
  BY <1>6, <1>7, <1>8, <1>9, <1>13, <1>26
<1>15. Within(r, L, in, out)
  BY <1>4
<1> HIDE DEF L, in, out
<1>16. /\ out = PlanLayer(L, in) /\ out # Refused
       /\ Elems(in) <= r.maxAct /\ Elems(out) <= r.maxAct
       /\ \A f \in Scratch : ScratchNeeds(L, in, out)[f] <= r.scratch[f]
  BY <1>15 DEF Within
<1>17. /\ t.in <= Elems(in) /\ t.out <= Elems(out)
       /\ \A f \in Scratch : t[f] = ScratchNeeds(L, in, out)[f]
  BY <1>14, <1>16, TouchedFits
<1>27. Runnable(m) => t.in = Elems(in)
  BY <1>14, <1>16, TouchesAll
<1>18. Elems(in) \in Int /\ Elems(out) \in Int
  BY <1>14, NeedsAreNumbers
<1>19. t.in \in Int /\ t.out \in Int
  <2>1. /\ L.a \in Int /\ L.b \in Int /\ L.k \in Int /\ L.stride \in Int
        /\ in.c \in Int /\ in.h \in Int /\ in.w \in Int /\ out.h \in Int /\ out.w \in Int
    BY <1>14 DEF SpecForm, AnyShape
  <2>2. \A x, y \in Int : x * y \in Int /\ x + y \in Int /\ x - 1 \in Int
    OBVIOUS
  <2> DEFINE lastRow == (out.h - 1) * L.stride + L.k
             lastCol == (out.w - 1) * L.stride + L.k
             deep == ((in.c - 1) * in.h + lastRow - 1) * in.w + lastCol
             bN == L.b * (out.h * out.w)
             cN == in.c * (out.h * out.w)
             e == Elems(in)
  <2>3. lastRow \in Int /\ lastCol \in Int
    BY <2>1, <2>2
  <2>4. deep \in Int
    <3> HIDE DEF lastRow, lastCol
    <3> QED BY <2>1, <2>2, <2>3
  <2>5. bN \in Int /\ cN \in Int /\ e \in Int
    BY <1>18, <2>1, <2>2
  <2>6. /\ t.in = (IF L.type = "dense" THEN L.a ELSE IF L.type = "maxpool2d" THEN deep ELSE e)
        /\ t.out = (IF L.type = "dense" THEN L.b ELSE IF L.type = "conv2d" THEN bN
                    ELSE IF L.type = "maxpool2d" THEN cN ELSE e)
    BY DEF Touched
  <2> HIDE DEF deep, bN, cN, e, t
  <2> QED BY <2>1, <2>4, <2>5, <2>6
<1> HIDE DEF t
<1>20. Buffer(i - 1, n) # Buffer(i, n)
  BY <1>1, <1>10, BuffersDiffer
<1>21. Elems(in) <= Holds(i - 1) /\ Holds(i - 1) \in Int
  <2>1. CASE i = 1
    <3>1. Holds(i - 1) = Elems(m.input) /\ in = m.input
      BY <1>4, <2>1 DEF in
    <3> HIDE DEF Holds
    <3> QED BY <1>18, <3>1
  <2>2. CASE i # 1
    <3>1. i - 1 # 0 /\ i - 1 # n
      BY <1>1, <1>10, <2>2
    <3>2. Holds(i - 1) = r.maxAct
      BY <1>2, <3>1
    <3> HIDE DEF Holds
    <3> QED BY <1>12, <1>16, <3>2
  <2> QED BY <2>1, <2>2
<1>22. Elems(out) <= Holds(i) /\ Holds(i) \in Int
  <2>1. CASE i = n
    <3>1. Holds(i) = Elems(out)
      BY <1>10, <1>11, <1>13, <2>1 DEF out
    <3> HIDE DEF Holds
    <3> QED BY <1>18, <3>1
  <2>2. CASE i # n
    <3>1. Holds(i) = r.maxAct
      BY <1>2, <1>13, <2>2
    <3> HIDE DEF Holds
    <3> QED BY <1>12, <1>16, <3>1
  <2> QED BY <2>1, <2>2
<1> HIDE DEF Holds
<1>23. t.in <= Holds(i - 1) /\ t.in <= Elems(in) /\ t.out <= Holds(i)
  BY <1>17, <1>18, <1>19, <1>21, <1>22
<1>24. \A f \in DOMAIN NoScratch : t[f] <= got.scratch[f]
  BY <1>2, <1>16, <1>17 DEF Scratch
<1>25. Uses(i, t)
  BY <1>2, <1>20, <1>23, <1>24, <1>27 DEF Uses, in
<1> QED BY <1>25 DEF t, L, in, out

\* What networks the two engines accept, what they need and how they run: the
\* property the runs check, for every question.
THEOREM EnginesAreExact == Asked => EnginesExact
<1> SUFFICES ASSUME Asked PROVE EnginesExact
  OBVIOUS
<1>1. input.kind = "model" => ModelForm(input.m) /\ input.caps \subseteq Nat
  BY DEF Asked
<1>2. input.kind = "gemm" => {input.M, input.N, input.K} \subseteq Nat
  BY DEF Asked
<1>3. ASSUME input.kind = "model" PROVE ModelExact(input.m, input.caps, EncodeSwm(input.m))
  <2>1. ModelForm(input.m) /\ \A cap \in input.caps : cap \in Nat
    BY <1>1, <1>3
  <2> QED BY <2>1, EnginesAlwaysAgree, RunsStayInside, PlacementAlwaysFits DEF ModelExact
<1>4. ASSUME input.kind = "gemm" PROVE TilesExact(input.M, input.N, input.K)
  <2>1. input.M \in Nat /\ input.N \in Nat /\ input.K \in Nat
    BY <1>2, <1>4
  <2> QED BY <2>1, TilesAreExact
<1> QED BY <1>3, <1>4 DEF EnginesExact
=============================================================================
