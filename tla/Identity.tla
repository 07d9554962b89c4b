------------------------------- MODULE Identity -------------------------------
(***************************************************************************)
(* Who the server takes a caller for, with OpenID Connect on: the login     *)
(* flow and the session cookie of internal/oidc, the role derived from it   *)
(* (internal/api/rbac.go) and the command-line tokens minted from a session *)
(* (user_tokens.go, database/tokens.go).  One user, one browser with        *)
(* several tabs; the user's membership of the administrators' group changes *)
(* at the identity provider, which never tells the server.                  *)
(***************************************************************************)
EXTENDS Integers, Sequences

CONSTANTS
    Tabs,        \* browser tabs
    SessionTTL,  \* lifetime of a session cookie (8 h)
    TokenTTL,    \* lifetime of a token (30 days)
    Patience,    \* assumed: ticks that pass at most while one handler runs
    MaxLogins,   \* bound: logins started
    MaxTokens,   \* bound: tokens minted
    MaxTime      \* bound: the clock stops here

ASSUME IdentityAssumption ==
    /\ SessionTTL \in Nat /\ TokenTTL \in Nat /\ Patience \in Nat
    /\ MaxLogins \in Nat /\ MaxTokens \in Nat /\ MaxTime \in Nat

VARIABLES
    now,     \* the clock
    member,  \* is the user in the administrators' group now?
    lastIn,  \* history: when the user was last seen in it by the clock
    logins,  \* history: logins started; numbers the random states
    jar,     \* the browser's cookies
    tab,     \* what each tab is waiting for
    tokens   \* user_tokens

vars == <<now, member, lastIn, logins, jar, tab, tokens>>

Never == -1 - (SessionTTL + TokenTTL + 2 * Patience)

Roles == {"user", "admin"}

\* A session cookie: the groups of the ID token and the expiry, signed.
Session == [admin : BOOLEAN, expires : Int]
NoSession == [admin |-> FALSE, expires |-> 0]

\* State 0 stands for no state cookie.
Jar == [state : 0 .. MaxLogins, session : Session]

Stages == {"idle", "provider", "exchanged", "guarded", "named", "roled"}

\* A tab's request: the state of its login, the cookie the request carries, the
\* membership and the role the handler has read, and how long it has run.
Tab == [pc : Stages, state : 0 .. MaxLogins, cookie : Session,
        admin : BOOLEAN, role : Roles \cup {""}, ran : 0 .. Patience]
IdleTab == [pc |-> "idle", state |-> 0, cookie |-> NoSession, admin |-> FALSE,
            role |-> "", ran |-> 0]

Token == [role : Roles, expires : Int, of : Roles]

Init ==
    /\ now = 0
    /\ member \in BOOLEAN
    /\ lastIn = IF member THEN 0 ELSE Never
    /\ logins = 0
    /\ jar = [state |-> 0, session |-> NoSession]
    /\ tab = [t \in Tabs |-> IdleTab]
    /\ tokens = <<>>

Wait(t, r) == tab' = [tab EXCEPT ![t] = r]

-----------------------------------------------------------------------------
(* Login: HandleLogin, HandleCallback, HandleLogout. *)

\* A fresh random state goes into the cookie, over the one of any other login.
HandleLogin(t) ==
    /\ tab[t].pc = "idle"
    /\ logins < MaxLogins
    /\ logins' = logins + 1
    /\ jar' = [jar EXCEPT !.state = logins + 1]
    /\ Wait(t, [IdleTab EXCEPT !.pc = "provider", !.state = logins + 1])
    /\ UNCHANGED <<now, member, lastIn, tokens>>

\* checkState passes and the code is exchanged for the claims of the moment.
Exchange(t) ==
    /\ tab[t].pc = "provider"
    /\ jar.state = tab[t].state
    /\ Wait(t, [IdleTab EXCEPT !.pc = "exchanged", !.admin = member])
    /\ UNCHANGED <<now, member, lastIn, logins, jar, tokens>>

\* checkState fails: another login has taken the cookie, or it is gone.
StateMismatch(t) ==
    /\ tab[t].pc = "provider"
    /\ jar.state # tab[t].state
    /\ Wait(t, IdleTab)
    /\ UNCHANGED <<now, member, lastIn, logins, jar, tokens>>

\* Faulty variant: the session of an earlier login is prolonged, claims and all.
ProlongSession(t) ==
    /\ tab[t].pc = "exchanged"
    /\ jar' = [state |-> 0,
               session |-> [admin |-> tab[t].admin \/ jar.session.admin,
                            expires |-> now + SessionTTL]]
    /\ Wait(t, IdleTab)
    /\ UNCHANGED <<now, member, lastIn, logins, tokens>>

\* The response sets the session cookie and deletes the state cookie, whichever
\* login that belongs to by now.
SetSession(t) ==
    /\ tab[t].pc = "exchanged"
    /\ jar' = [state |-> 0,
               session |-> [admin |-> tab[t].admin, expires |-> now + SessionTTL]]
    /\ Wait(t, IdleTab)
    /\ UNCHANGED <<now, member, lastIn, logins, tokens>>

\* The provider refused, or the exchange or the verification failed.
CallbackFails(t) ==
    /\ tab[t].pc = "exchanged"
    /\ jar' = [jar EXCEPT !.state = 0]
    /\ Wait(t, IdleTab)
    /\ UNCHANGED <<now, member, lastIn, logins, tokens>>

HandleLogout ==
    /\ jar' = [jar EXCEPT !.session = NoSession]
    /\ UNCHANGED <<now, member, lastIn, logins, tab, tokens>>

\* The state cookie lives for ten minutes.
StateExpires ==
    /\ jar' = [jar EXCEPT !.state = 0]
    /\ UNCHANGED <<now, member, lastIn, logins, tab, tokens>>

-----------------------------------------------------------------------------
(* POST /api/v1/user-tokens: handleCreateUserToken. *)

\* Faulty variant: the expiry of the cookie is not looked at.
Signed(session) == session # NoSession

\* Session.verify
Valid(session) == session.expires > now

\* RequireSession lets the request pass.
BeginMint(t) ==
    /\ tab[t].pc = "idle"
    /\ Len(tokens) < MaxTokens
    /\ Valid(jar.session)
    /\ Wait(t, [IdleTab EXCEPT !.pc = "guarded", !.cookie = jar.session])
    /\ UNCHANGED <<now, member, lastIn, logins, jar, tokens>>

\* currentUserName verifies the cookie again; without a name the answer is 403.
ReadName(t) ==
    /\ tab[t].pc = "guarded"
    /\ Wait(t, IF Valid(tab[t].cookie) THEN [tab[t] EXCEPT !.pc = "named"] ELSE IdleTab)
    /\ UNCHANGED <<now, member, lastIn, logins, jar, tokens>>

\* roleForGroupList
RoleOf(session) == IF session.admin THEN "admin" ELSE "user"

\* currentUserRole verifies it once more: an expired cookie has the role "".
ReadRole(t) ==
    /\ tab[t].pc = "named"
    /\ Wait(t, [tab[t] EXCEPT !.pc = "roled",
                              !.role = IF Valid(tab[t].cookie) THEN RoleOf(tab[t].cookie)
                                       ELSE ""])
    /\ UNCHANGED <<now, member, lastIn, logins, jar, tokens>>

\* Faulty variants: the role is stored as it is; and a missing role is taken for
\* the one of the local administrator.
StoredAsIs(role) == role
StoredAsLocal(role) == IF role = "" THEN "admin" ELSE role

\* CreateUserToken defaults a missing role ...
StoredRole(role) == IF role = "" THEN "user" ELSE role

\* ... and freezes it.  of is history: the role of the session.
CreateUserToken(t) ==
    /\ tab[t].pc = "roled"
    /\ Len(tokens) < MaxTokens
    /\ tokens' = Append(tokens, [role |-> StoredRole(tab[t].role),
                                 expires |-> now + TokenTTL,
                                 of |-> RoleOf(tab[t].cookie)])
    /\ Wait(t, IdleTab)
    /\ UNCHANGED <<now, member, lastIn, logins, jar>>

\* The INSERT failed, or the browser went away.
MintFails(t) ==
    /\ tab[t].pc = "roled"
    /\ Wait(t, IdleTab)
    /\ UNCHANGED <<now, member, lastIn, logins, jar, tokens>>

-----------------------------------------------------------------------------
Regroup ==
    /\ member' = ~ member
    /\ lastIn' = IF member' THEN now ELSE lastIn
    /\ UNCHANGED <<now, logins, jar, tab, tokens>>

Running(t) == tab[t].pc \notin {"idle", "provider"}

Tick ==
    /\ now < MaxTime
    /\ \A t \in Tabs : Running(t) => tab[t].ran < Patience
    /\ now' = now + 1
    /\ lastIn' = IF member THEN now + 1 ELSE lastIn
    /\ tab' = [t \in Tabs |-> IF Running(t) THEN [tab[t] EXCEPT !.ran = @ + 1] ELSE tab[t]]
    /\ UNCHANGED <<member, logins, jar, tokens>>

Next ==
    \/ \E t \in Tabs :
          \/ HandleLogin(t) \/ Exchange(t) \/ StateMismatch(t)
          \/ SetSession(t) \/ CallbackFails(t)
          \/ BeginMint(t) \/ ReadName(t) \/ ReadRole(t)
          \/ CreateUserToken(t) \/ MintFails(t)
    \/ HandleLogout \/ StateExpires \/ Regroup \/ Tick

Spec == Init /\ [][Next]_vars

-----------------------------------------------------------------------------
TypeOK ==
    /\ now \in 0 .. MaxTime
    /\ member \in BOOLEAN
    /\ lastIn \in {Never} \cup 0 .. MaxTime
    /\ logins \in 0 .. MaxLogins
    /\ jar \in Jar
    /\ tab \in [Tabs -> Tab]
    /\ tokens \in Seq(Token) /\ Len(tokens) <= MaxTokens

\* ValidateUserToken accepts a token up to and including its expiry.
Accepted(token) == now <= token.expires

\* The administrator's role outlives the membership it came from, but not for
\* ever: by at most a session's lifetime in the browser, and by a session's and a
\* token's on the command line, however logins, mints and changes of group
\* interleave (roleForGroupList, CreateUserToken).
StaleAdminIsBounded ==
    /\ jar.session.admin /\ Valid(jar.session) =>
          now - lastIn < SessionTTL + Patience
    /\ \A k \in DOMAIN tokens :
          tokens[k].role = "admin" /\ Accepted(tokens[k]) =>
             now - lastIn < SessionTTL + TokenTTL + 2 * Patience

\* No token carries more than the session it was minted from, also when the cookie
\* expires between two of the handler's reads of it (handleCreateUserToken,
\* CreateUserToken).
TokenWithinSession ==
    \A k \in DOMAIN tokens : tokens[k].role = "admin" => tokens[k].of = "admin"
=============================================================================
