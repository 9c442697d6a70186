------------------------- MODULE ThreeStateBreaker -------------------------
(***************************************************************************)
(* The circuit breaker that ADR-0004 decides on, with no word about the    *)
(* calls that overlap: closed until FailureThreshold failures in a row,    *)
(* open for RecoveryTimeout, then one probe whose success closes it and    *)
(* whose failure opens it again.  It leaves open which errors count as a   *)
(* failure, which the ADR decides too: MissingCoinsDoNotTrip of Provider   *)
(* is about that.                                                          *)
(***************************************************************************)
EXTENDS Integers

CONSTANTS FailureThreshold, RecoveryTimeout

VARIABLES mode,    \* "closed", "open" or "half_open"
          fails,   \* failures in a row while closed, 0 otherwise
          open,    \* how long it has been open, 0 when it is not
          probe    \* whether the probe is out

vars == <<mode, fails, open, probe>>

Init == mode = "closed" /\ fails = 0 /\ open = 0 /\ probe = FALSE

CallSucceeds == /\ mode = "closed"
                /\ fails' = 0
                /\ UNCHANGED <<mode, open, probe>>

CallFails == /\ mode = "closed"
             /\ fails + 1 < FailureThreshold
             /\ fails' = fails + 1
             /\ UNCHANGED <<mode, open, probe>>

Trip == /\ mode = "closed"
        /\ fails + 1 = FailureThreshold
        /\ mode' = "open"
        /\ fails' = 0
        /\ open' = 0
        /\ UNCHANGED probe

CoolDown == /\ mode = "open"
            /\ open < RecoveryTimeout
            /\ open' = open + 1
            /\ UNCHANGED <<mode, fails, probe>>

StartProbe == /\ ~probe
              /\ (mode = "open" /\ open = RecoveryTimeout) \/ mode = "half_open"
              /\ mode' = "half_open"
              /\ open' = 0
              /\ probe' = TRUE
              /\ UNCHANGED fails

\* A probe that ends with a client-side condition says nothing: probe again.
ProbeIgnored == probe /\ probe' = FALSE /\ UNCHANGED <<mode, fails, open>>

ProbeSucceeds == probe /\ probe' = FALSE /\ mode' = "closed" /\ UNCHANGED <<fails, open>>

ProbeFails == probe /\ probe' = FALSE /\ mode' = "open" /\ UNCHANGED <<fails, open>>

Next == \/ CallSucceeds \/ CallFails \/ Trip \/ CoolDown
        \/ StartProbe \/ ProbeIgnored \/ ProbeSucceeds \/ ProbeFails

Spec == Init /\ [][Next]_vars
=============================================================================
