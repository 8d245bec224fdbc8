-------------------------------- MODULE Recon --------------------------------
(***************************************************************************)
(* One episode of the arena's survey (arena/recon.py): drones that find    *)
(* targets with their cameras and report them once their finder is in the  *)
(* radio chain of the lead, drone 0.  Flight and detail are left out: who  *)
(* hears whom, what a camera recognises and when the map is complete are   *)
(* arbitrary.  An episode that is over goes on being stepped as long as    *)
(* others of its batch last.                                               *)
(***************************************************************************)
EXTENDS Integers, FiniteSets

CONSTANTS Drones,        \* how many; drone 0 is the lead
          Targets,
          SurveyTime,    \* steps until the episode is over
          MaxSurvey      \* steps the longest episode of the batch takes

ASSUME ReconAssumption ==
    /\ {Drones, SurveyTime, MaxSurvey} \subseteq Nat \ {0} /\ SurveyTime <= MaxSurvey
    /\ IsFiniteSet(Targets)

VARIABLES
    due,         \* of the loop in play_recon: the decision comes next
    linked,      \* drones in the lead's chain
    cam,         \* drones whose camera is on
    covered,     \* the map is complete: cov >= 0.999
    finder, foundT, reported, reportT,
    tick,        \* steps
    ended, endT  \* done, t_end

reconVars == <<due, linked, cam, covered, finder, foundT, reported, reportT, tick, ended, endT>>

DroneIds == 0..(Drones - 1)
Links == {p \in DroneIds \X DroneIds : p[1] # p[2]}
Missing == -1
Found == {k \in Targets : finder[k] # Missing}

\* Mutant: the chain has one hop less than there are friends.
ShortChain(heard) ==
    LET reach[n \in Nat] ==
          IF n = 0 THEN {0} ELSE reach[n - 1] \cup {i \in DroneIds : \E j \in reach[n - 1] : <<i, j>> \in heard}
    IN  reach[Drones - 2]

\* _radio: whoever hears a drone of the chain joins it, hop by hop.
Chain(heard) ==
    LET reach[n \in Nat] ==
          IF n = 0 THEN {0} ELSE reach[n - 1] \cup {i \in DroneIds : \E j \in reach[n - 1] : <<i, j>> \in heard}
    IN  reach[Drones - 1]

\* What can become of a step's radio: any of the one-way links may be up.
Chains == {Chain(heard) : heard \in SUBSET Links}

ReconInit ==
    /\ due = TRUE /\ linked \in Chains
    /\ cam = {} /\ covered = FALSE
    /\ finder = [k \in Targets |-> Missing] /\ foundT = finder
    /\ reported = {} /\ reportT = finder
    /\ tick = 0 /\ ended = FALSE /\ endT = Missing

\* observe, the brain and apply; a brain may be due less often than a step.
Decide ==
    /\ due /\ tick < MaxSurvey /\ due' = FALSE
    /\ \E on \in SUBSET DroneIds : cam' = IF ended THEN cam ELSE on
    /\ UNCHANGED <<linked, covered, finder, foundT, reported, reportT, tick, ended, endT>>

\* Mutant: the finder of a target nobody has found is the lead.
DeliverableUnfound(finders, chain) ==
    {k \in Targets \ reported : (IF finders[k] = Missing THEN 0 ELSE finders[k]) \in chain}

\* store and forward: a report gets out once its finder is in the chain.
Deliverable(finders, chain) ==
    {k \in Targets \ reported : finders[k] # Missing /\ finders[k] \in chain}

\* Mutant: a target is found again by whoever sees it next.
Refound(k) == TRUE
Unfound(k) == finder[k] = Missing

\* Mutant: the cameras of an episode that is over go on finding targets.
AllCameras == cam
Cameras == IF ended THEN {} ELSE cam

\* step and _targets: sees names, of the drones that recognise a target in
\* this step, the closest.
Survey ==
    /\ ~due /\ due' = TRUE /\ tick' = tick + 1
    /\ \E chain \in Chains, sees \in [Targets -> Cameras \cup {Missing}], complete \in BOOLEAN :
       LET new == {k \in Targets : sees[k] # Missing /\ Unfound(k)}
           delivered == IF ended THEN {} ELSE Deliverable(finder', chain)
           ends == ~ended /\ (tick' = SurveyTime \/ (covered' /\ reported' = Targets))
       IN  /\ linked' = chain
           /\ covered' = (covered \/ (complete /\ ~ended))
           /\ finder' = [k \in Targets |-> IF k \in new THEN sees[k] ELSE finder[k]]
           /\ foundT' = [k \in Targets |-> IF k \in new THEN tick' ELSE foundT[k]]
           /\ reported' = reported \cup delivered
           /\ reportT' = [k \in Targets |-> IF k \in delivered THEN tick' ELSE reportT[k]]
           /\ ended' = (ended \/ ends)
           /\ endT' = IF ends THEN tick' ELSE endT
    /\ UNCHANGED cam

ReconNext == Decide \/ Survey

-----------------------------------------------------------------------------
(* Properties.                                                             *)

\* The chain is the smallest set that has the lead and whoever hears one of
\* its members: as many hops as it takes.
ChainExact(heard) ==
    LET Closed(set) == 0 \in set /\ \A p \in heard : p[2] \in set => p[1] \in set
    IN  Closed(Chain(heard)) /\ \A s \in SUBSET DroneIds : Closed(s) => Chain(heard) \subseteq s

\* Only what was found is reported, not before it was found nor after the
\* episode; a report that could get out is never kept; and an episode that
\* ends early has nothing left to survey or to report.
NoReportKept ==
    /\ reported \subseteq Found
    /\ \A k \in reported : foundT[k] <= reportT[k]
    /\ ended => /\ \A k \in Targets : foundT[k] <= endT /\ reportT[k] <= endT
                /\ endT = SurveyTime \/ (covered /\ reported = Targets)
    /\ (~ended \/ tick = endT) => \A k \in Found \ reported : finder[k] \notin linked

\* What a survey finds and reports, over whatever radio there is.
ChainsExact == \A heard \in SUBSET Links : ChainExact(heard)
ReportsExact == NoReportKept /\ ChainsExact
=============================================================================
