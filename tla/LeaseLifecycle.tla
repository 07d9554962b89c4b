--------------------------- MODULE LeaseLifecycle ---------------------------
(***************************************************************************)
(* What a lease promises to the people who use it, without clock, handlers  *)
(* or database: a lease is requested, perhaps signed off or denied, and is  *)
(* over for good once its window has closed or it was revoked.  Nothing     *)
(* leads out of "over", and nothing but "over" leads out of "denied" or     *)
(* "approved".  AccessService is shown to implement this module.            *)
(***************************************************************************)
CONSTANT LeaseIds

VARIABLE phase

Phases == {"unused", "pending", "approved", "denied", "over"}

PhaseTypeOK == phase \in [LeaseIds -> Phases]

LifecycleInit == phase = [l \in LeaseIds |-> "unused"]

\* A lease is filed.  A non-positive duration files one that is already over.
File(l) ==
    /\ phase[l] = "unused"
    /\ \E ph \in {"pending", "approved", "over"} : phase' = [phase EXCEPT ![l] = ph]

\* The second sign-off, given at most once.
Decide(l) ==
    /\ phase[l] = "pending"
    /\ \E ph \in {"approved", "denied"} : phase' = [phase EXCEPT ![l] = ph]

\* One lease is revoked, or the windows of several close at the same moment.
Close(S) ==
    /\ \A l \in S : phase[l] # "unused"
    /\ phase' = [l \in LeaseIds |-> IF l \in S THEN "over" ELSE phase[l]]

LifecycleNext ==
    \/ \E l \in LeaseIds : File(l) \/ Decide(l)
    \/ \E S \in SUBSET LeaseIds : Close(S)

LifecycleSpec == LifecycleInit /\ [][LifecycleNext]_phase
=============================================================================
