----------------------------- MODULE MCAnalytics -----------------------------
(* TLC instances of Analytics. *)
EXTENDS Analytics, TLC

\* Users are interchangeable, and so are hosts.
Symmetric == Permutations(Users) \cup Permutations(Hosts)
=============================================================================
