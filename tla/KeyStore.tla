------------------------------ MODULE KeyStore ------------------------------
(***************************************************************************)
(* What the key registry promises to those who send keys, without process,  *)
(* schema or statements: a call files its key in one step or is refused and  *)
(* files none, what was filed stays, and the demo key comes into an empty    *)
(* store only, at a time when nobody calls.  The one thing that can be seen   *)
(* of a call before it has filed its key is that its user exists.            *)
(* KeyRegistry is shown to implement this module.                            *)
(***************************************************************************)
CONSTANTS Names, Keys, Requests

VARIABLES users, keys, call, acked

storeVars == <<users, keys, call, acked>>

NoCall == [phase |-> "idle", user |-> "-", key |-> "-"]

\* A new file, or one that is in use.
StoreInit ==
    /\ users \in SUBSET Names
    /\ keys \in SUBSET [user : users, key : Keys]
    /\ call = [r \in Requests |-> NoCall]
    /\ acked = {}

RowOf(r) == [user |-> call[r].user, key |-> call[r].key]

Ask(r) ==
    /\ call[r] = NoCall
    /\ \E u \in Names, k \in Keys :
         call' = [call EXCEPT ![r] = [phase |-> "open", user |-> u, key |-> k]]
    /\ UNCHANGED <<users, keys, acked>>

\* A new user becomes known, by the hand of one call.
Join(r) ==
    /\ call[r].phase = "open"
    /\ call[r].user \notin users
    /\ users' = users \cup {call[r].user}
    /\ UNCHANGED <<keys, call, acked>>

\* The moment at which the call takes effect.
File(r) ==
    /\ call[r].phase = "open"
    /\ call[r].user \in users
    /\ keys' = keys \cup {RowOf(r)}
    /\ call' = [call EXCEPT ![r].phase = "filed"]
    /\ UNCHANGED <<users, acked>>

Refuse(r) ==
    /\ call[r].phase = "open"
    /\ call' = [call EXCEPT ![r].phase = "refused"]
    /\ UNCHANGED <<users, keys, acked>>

Answer(r) ==
    /\ call[r].phase \in {"filed", "refused"}
    /\ acked' = IF call[r].phase = "filed" THEN acked \cup {RowOf(r)} ELSE acked
    /\ call' = [call EXCEPT ![r] = NoCall]
    /\ UNCHANGED <<users, keys>>

\* Whoever is calling gets no answer, whether or not the key was filed.
HangUp ==
    /\ call' = [r \in Requests |-> NoCall]
    /\ UNCHANGED <<users, keys, acked>>

\* The demo user and its key.
Seed ==
    /\ users = {} /\ keys = {}
    /\ \A r \in Requests : call[r] = NoCall
    /\ \E u \in Names, k \in Keys : users' = {u} /\ keys' = {[user |-> u, key |-> k]}
    /\ UNCHANGED <<call, acked>>

StoreNext ==
    \/ HangUp \/ Seed
    \/ \E r \in Requests : Ask(r) \/ Join(r) \/ File(r) \/ Refuse(r) \/ Answer(r)

StoreSpec == StoreInit /\ [][StoreNext]_storeVars
=============================================================================
