-------------------------------- MODULE Lease -------------------------------
(***************************************************************************)
(* What HardwareGuard promises the robot: outputs are driven only under a  *)
(* grant that ends at a known time and that only a fresh command extends;  *)
(* a revoked grant stops the outputs, or a failed stop is on record; a     *)
(* grant that runs out is a fault; and after a fault nothing is driven     *)
(* again.                                                                  *)
(***************************************************************************)
EXTENDS Naturals

CONSTANT Watchdog   \* the longest grant, profile.watchdog_s

VARIABLES
  now,      \* monotonic time
  mode,     \* "safe", "granted" or "faulted"
  until,    \* end of the grant, 0 without one
  driven,   \* the outputs are driven
  unsure,   \* a requested stop failed
  newest    \* the number of the newest command, 0 before the first

leaseVars == <<now, mode, until, driven, unsure, newest>>

Init == /\ now \in Nat /\ mode = "safe" /\ until = 0
        /\ driven = FALSE /\ unsure = FALSE /\ newest = 0

\* A local operator grants control.
Grant == /\ mode = "safe" /\ mode' = "granted"
         /\ until' = now + Watchdog
         /\ UNCHANGED <<now, driven, unsure, newest>>

\* A command within the grant, newer than every one before it, in this grant
\* or another, drives the outputs and replaces the grant's end.
Drive == /\ mode = "granted" /\ now < until
         /\ until' \in (now + 1)..(now + Watchdog)
         /\ driven' = TRUE
         /\ newest' \in Nat /\ newest' > newest
         /\ UNCHANGED <<now, mode, unsure>>

\* The grant ends: the outputs stop, unless the stop itself fails.  One that
\* has run out ends in a fault: no new grant follows it.
Revoke == /\ mode = "granted"
          /\ until' = 0
          /\ mode' = "faulted" \/ (mode' = "safe" /\ now < until)
          /\ \/ driven' = FALSE /\ unsure' = unsure
             \/ mode' = "faulted" /\ driven' \in {driven, FALSE} /\ unsure' = TRUE
          /\ UNCHANGED <<now, newest>>

\* A fault outside a grant is final; it asks for one more stop.
Fault == /\ mode \in {"safe", "faulted"} /\ mode' = "faulted"
         /\ driven' \in {driven, FALSE}
         /\ unsure' \in {unsure, TRUE}
         /\ UNCHANGED <<now, until, newest>>

Tick == now' > now /\ now' \in Nat /\ UNCHANGED <<mode, until, driven, unsure, newest>>

Next == Grant \/ Drive \/ Revoke \/ Fault \/ Tick

Spec == Init /\ [][Next]_leaseVars
=============================================================================
