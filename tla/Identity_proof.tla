---------------------------- MODULE Identity_proof ----------------------------
(***************************************************************************)
(* Proofs about sessions, roles and tokens, for any number of tabs, logins   *)
(* and tokens and for any lifetimes.                                         *)
(***************************************************************************)
EXTENDS Identity, TLAPS

-----------------------------------------------------------------------------
(* The inductive invariant. *)

\* An administrator's session ends a session's lifetime after the claims it was made
\* from, which were at most Patience ticks old.
SessionOK(s) == s.admin => s.expires - lastIn <= SessionTTL + Patience

\* What a tab's handler has read, and how long ago at most.
TabOK(q) ==
    /\ q.pc = "exchanged" /\ q.admin => now - lastIn <= q.ran
    /\ SessionOK(q.cookie)
    /\ q.pc \in {"guarded", "named", "roled"} => now - q.ran < q.cookie.expires
    /\ q.role = "admin" => q.cookie.admin

TokenOK(token) ==
    token.role = "admin" =>
       /\ token.of = "admin"
       /\ token.expires - lastIn < SessionTTL + TokenTTL + 2 * Patience

IdentityInv ==
    /\ TypeOK
    /\ lastIn <= now
    /\ member => lastIn = now
    /\ SessionOK(jar.session)
    /\ \A t \in Tabs : TabOK(tab[t])
    /\ \A k \in DOMAIN tokens : TokenOK(tokens[k])

-----------------------------------------------------------------------------
(* Lemmas about the records. *)

\* The fields of a tab's record.
LEMMA TabFields ==
    ASSUME NEW q \in Tab
    PROVE  /\ q.pc \in Stages /\ q.state \in 0 .. MaxLogins /\ q.cookie \in Session
           /\ q.admin \in BOOLEAN /\ q.role \in Roles \cup {""} /\ q.ran \in 0 .. Patience
           /\ q.cookie.admin \in BOOLEAN /\ q.cookie.expires \in Int
  BY DEF Tab, Session

\* A tab that waits for nothing.
LEMMA IdleIsGood ==
    /\ IdleTab \in Tab /\ TabOK(IdleTab)
    /\ IdleTab.pc = "idle" /\ IdleTab.role = "" /\ IdleTab.ran = 0
    /\ IdleTab.cookie = NoSession /\ NoSession \in Session /\ SessionOK(NoSession)
  <1>1. NoSession \in Session /\ NoSession.admin = FALSE
    BY DEF NoSession, Session
  <1>2. /\ IdleTab.pc = "idle" /\ IdleTab.role = "" /\ IdleTab.ran = 0
        /\ IdleTab.cookie = NoSession /\ IdleTab \in Tab
    BY <1>1, IdentityAssumption DEF IdleTab, Tab, Stages, Roles
  <1>3. SessionOK(NoSession)
    BY <1>1 DEF SessionOK
  <1> QED
    BY <1>1, <1>2, <1>3 DEF TabOK

\* Nothing is signed or minted at first.
LEMMA IdentityInit == Init => IdentityInv
  <1> SUFFICES ASSUME Init PROVE IdentityInv
    OBVIOUS
  <1>1. now = 0 /\ logins = 0 /\ tokens = <<>> /\ member \in BOOLEAN
    BY DEF Init
  <1>2. (member => lastIn = 0) /\ lastIn \in {Never, 0}
    BY DEF Init
  <1>3. Never \in Int /\ Never < 0
    BY IdentityAssumption DEF Never
  <1>4. jar = [state |-> 0, session |-> NoSession] /\ tab = [t \in Tabs |-> IdleTab]
    BY DEF Init
  <1>5. jar \in Jar /\ jar.session = NoSession
    <2>1. 0 \in 0 .. MaxLogins
      BY IdentityAssumption
    <2> QED
      BY <1>4, <2>1, IdleIsGood DEF Jar
  <1>6. tab \in [Tabs -> Tab] /\ \A t \in Tabs : TabOK(tab[t])
    BY <1>4, IdleIsGood
  <1>7. tokens \in Seq(Token) /\ Len(tokens) <= MaxTokens /\ DOMAIN tokens = {}
    BY <1>1, IdentityAssumption
  <1>8. lastIn \in {Never} \cup 0 .. MaxTime /\ lastIn <= now
    BY <1>1, <1>2, <1>3, IdentityAssumption
  <1>9. now \in 0 .. MaxTime /\ logins \in 0 .. MaxLogins
    BY <1>1, IdentityAssumption
  <1>10. TypeOK
    BY <1>1, <1>5, <1>6, <1>7, <1>8, <1>9 DEF TypeOK
  <1> QED
    BY <1>1, <1>2, <1>5, <1>6, <1>7, <1>8, <1>10, IdleIsGood DEF IdentityInv

-----------------------------------------------------------------------------
(* One step of one tab. *)

\* A tab's handler moves on: its new record, the cookies and the tokens are good.
LEMMA TabStep ==
    ASSUME IdentityInv, NEW t \in Tabs, NEW q \in Tab, Wait(t, q), TabOK(q),
           UNCHANGED <<now, member, lastIn>>,
           logins' \in 0 .. MaxLogins, jar' \in Jar, SessionOK(jar'.session),
           tokens' \in Seq(Token), Len(tokens') <= MaxTokens,
           \A k \in DOMAIN tokens' : TokenOK(tokens'[k])
    PROVE  IdentityInv'
  <1>1. now' = now /\ member' = member /\ lastIn' = lastIn
    OBVIOUS
  <1>2. tab' = [tab EXCEPT ![t] = q] /\ tab \in [Tabs -> Tab]
    BY DEF Wait, IdentityInv, TypeOK
  <1>3. tab' \in [Tabs -> Tab]
    BY <1>2
  <1>4. TypeOK'
    BY <1>1, <1>3 DEF IdentityInv, TypeOK
  <1>5. \A u \in Tabs : TabOK(tab'[u])
    BY <1>2 DEF IdentityInv
  <1>6. \A u \in Tabs : TabOK(tab[u])'
    BY <1>1, <1>5 DEF TabOK, SessionOK
  <1>7. SessionOK(jar.session)'
    BY <1>1 DEF SessionOK
  <1>8. \A k \in DOMAIN tokens' : TokenOK(tokens[k])'
    BY <1>1 DEF TokenOK
  <1>9. (lastIn <= now)' /\ (member => lastIn = now)'
    BY <1>1 DEF IdentityInv
  <1> QED
    BY <1>4, <1>6, <1>7, <1>8, <1>9 DEF IdentityInv

\* What TabStep asks of the parts a step leaves alone.
LEMMA Kept ==
    ASSUME IdentityInv
    PROVE  /\ logins \in 0 .. MaxLogins /\ jar \in Jar /\ SessionOK(jar.session)
           /\ jar.session \in Session /\ jar.state \in 0 .. MaxLogins
           /\ tokens \in Seq(Token) /\ Len(tokens) <= MaxTokens
           /\ \A k \in DOMAIN tokens : TokenOK(tokens[k])
           /\ tab \in [Tabs -> Tab] /\ \A t \in Tabs : tab[t] \in Tab /\ TabOK(tab[t])
           /\ now \in Int /\ lastIn \in Int /\ lastIn <= now /\ (member => lastIn = now)
  <1>1. Never \in Int
    BY IdentityAssumption DEF Never
  <1> QED
    BY <1>1, IdentityAssumption DEF IdentityInv, TypeOK, Jar

\* A token that is minted at time n from a cookie that was good r ticks ago.
LEMMA TokenAge ==
    ASSUME NEW n \in Int, NEW seen \in Int, NEW expires \in Int, NEW r \in 0 .. Patience,
           expires - seen <= SessionTTL + Patience, n - r < expires
    PROVE  n + TokenTTL - seen < SessionTTL + TokenTTL + 2 * Patience
  BY IdentityAssumption

\* A login begins without claims.
LEMMA HandleLoginKeeps ==
    ASSUME IdentityInv, NEW t \in Tabs, HandleLogin(t)
    PROVE  IdentityInv'
  <1> DEFINE q == [IdleTab EXCEPT !.pc = "provider", !.state = logins + 1]
  <1>1. /\ Wait(t, q) /\ logins < MaxLogins /\ logins' = logins + 1
        /\ jar' = [jar EXCEPT !.state = logins + 1]
        /\ UNCHANGED <<now, member, lastIn>> /\ tokens' = tokens
    BY DEF HandleLogin
  <1>2. logins + 1 \in 0 .. MaxLogins
    BY <1>1, Kept, IdentityAssumption
  <1>3. q \in Tab /\ q.pc = "provider" /\ q.cookie = NoSession /\ q.role = ""
    BY <1>2, IdleIsGood DEF Tab, Stages
  <1>4. TabOK(q)
    BY <1>3, IdleIsGood DEF TabOK
  <1>5. jar' \in Jar /\ jar'.session = jar.session
    BY <1>1, <1>2, Kept DEF Jar
  <1> HIDE DEF q
  <1> QED
    BY <1>1, <1>2, <1>3, <1>4, <1>5, Kept, TabStep

\* The claims that are read are as fresh as the membership.
LEMMA ExchangeKeeps ==
    ASSUME IdentityInv, NEW t \in Tabs, Exchange(t)
    PROVE  IdentityInv'
  <1> DEFINE q == [IdleTab EXCEPT !.pc = "exchanged", !.admin = member]
  <1>1. Wait(t, q) /\ UNCHANGED <<now, member, lastIn, logins, jar, tokens>>
    BY DEF Exchange
  <1>2. member \in BOOLEAN
    BY DEF IdentityInv, TypeOK
  <1>3. /\ q \in Tab /\ q.pc = "exchanged" /\ q.cookie = NoSession /\ q.role = ""
        /\ q.ran = 0
    BY <1>2, IdleIsGood DEF Tab, Stages
  <1>4. q.admin = member
    BY IdleIsGood DEF Tab
  <1>5. member => now - lastIn <= 0
    BY Kept
  <1>6. q.admin => now - lastIn <= q.ran
    <2> HIDE DEF q
    <2>1. q.admin => member
      BY <1>4, Zenon
    <2> QED
      BY <1>3, <1>5, <2>1
  <1> HIDE DEF q
  <1>7. TabOK(q)
    BY <1>3, <1>6, IdleIsGood DEF TabOK
  <1> QED
    BY <1>1, <1>3, <1>7, Kept, TabStep

\* A tab that is done, or that is refused.
LEMMA BackToIdle ==
    ASSUME IdentityInv, NEW t \in Tabs, Wait(t, IdleTab),
           UNCHANGED <<now, member, lastIn, logins, tokens>>,
           jar' \in Jar, SessionOK(jar'.session)
    PROVE  IdentityInv'
  BY IdleIsGood, Kept, TabStep

\* A refused callback.
LEMMA StateMismatchKeeps ==
    ASSUME IdentityInv, NEW t \in Tabs, StateMismatch(t)
    PROVE  IdentityInv'
  BY Kept, BackToIdle DEF StateMismatch

\* A callback that fails.
LEMMA CallbackFailsKeeps ==
    ASSUME IdentityInv, NEW t \in Tabs, CallbackFails(t)
    PROVE  IdentityInv'
  <1>1. 0 \in 0 .. MaxLogins
    BY IdentityAssumption
  <1>2. jar' \in Jar /\ jar'.session = jar.session
    BY <1>1, Kept DEF CallbackFails, Jar
  <1> QED
    BY <1>2, Kept, BackToIdle DEF CallbackFails

\* The session takes over the claims, with their age.
LEMMA SetSessionKeeps ==
    ASSUME IdentityInv, NEW t \in Tabs, SetSession(t)
    PROVE  IdentityInv'
  <1> DEFINE s == [admin |-> tab[t].admin, expires |-> now + SessionTTL]
  <1>1. /\ tab[t].pc = "exchanged" /\ jar' = [state |-> 0, session |-> s]
        /\ Wait(t, IdleTab) /\ UNCHANGED <<now, member, lastIn, logins, tokens>>
    BY DEF SetSession
  <1>2. tab[t] \in Tab /\ TabOK(tab[t]) /\ now \in Int /\ lastIn \in Int
    BY Kept
  <1>3. tab[t].admin \in BOOLEAN /\ tab[t].ran \in 0 .. Patience
    BY <1>2, TabFields
  <1>4. now + SessionTTL \in Int
    BY <1>2, IdentityAssumption
  <1>5. s \in Session /\ s.expires = now + SessionTTL
    BY <1>3, <1>4 DEF Session
  <1>6. s.admin => tab[t].admin
    OBVIOUS
  <1>7. tab[t].admin => now - lastIn <= tab[t].ran
    BY <1>1, <1>2 DEF TabOK
  <1>8. tab[t].admin => now + SessionTTL - lastIn <= SessionTTL + Patience
    BY <1>2, <1>3, <1>7, IdentityAssumption
  <1> HIDE DEF s
  <1>9. SessionOK(s)
    BY <1>2, <1>4, <1>5, <1>6, <1>8, IdentityAssumption DEF SessionOK
  <1>10. 0 \in 0 .. MaxLogins
    BY IdentityAssumption
  <1>11. jar' \in Jar /\ jar'.session = s
    BY <1>1, <1>5, <1>10 DEF Jar
  <1> QED
    BY <1>1, <1>9, <1>11, BackToIdle

-----------------------------------------------------------------------------
(* Minting: the cookie is verified three times. *)

\* The first look at the cookie.
LEMMA BeginMintKeeps ==
    ASSUME IdentityInv, NEW t \in Tabs, BeginMint(t)
    PROVE  IdentityInv'
  <1> DEFINE q == [IdleTab EXCEPT !.pc = "guarded", !.cookie = jar.session]
  <1>1. /\ Wait(t, q) /\ now < jar.session.expires
        /\ UNCHANGED <<now, member, lastIn, logins, jar, tokens>>
    BY Kept DEF BeginMint, Valid, Session
  <1>2. /\ q \in Tab /\ q.pc = "guarded" /\ q.cookie = jar.session /\ q.role = ""
        /\ q.ran = 0
    BY IdleIsGood, Kept DEF Tab, Stages
  <1> HIDE DEF q
  <1>3. now - q.ran < q.cookie.expires
    <2>1. now \in Int /\ jar.session.expires \in Int
      BY Kept DEF Session
    <2>2. now - 0 < jar.session.expires
      BY <1>1, <2>1
    <2> QED
      BY <1>2, <2>2, Zenon
  <1>4. TabOK(q)
    BY <1>2, <1>3, Kept DEF TabOK
  <1> QED
    BY <1>1, <1>2, <1>4, Kept, TabStep

\* The second look at the cookie.
LEMMA ReadNameKeeps ==
    ASSUME IdentityInv, NEW t \in Tabs, ReadName(t)
    PROVE  IdentityInv'
  <1>1. /\ tab[t].pc = "guarded" /\ UNCHANGED <<now, member, lastIn, logins, jar, tokens>>
        /\ tab[t] \in Tab /\ TabOK(tab[t])
    BY Kept DEF ReadName
  <1>2. CASE Wait(t, IdleTab)
    BY <1>1, <1>2, Kept, BackToIdle
  <1>3. CASE Wait(t, [tab[t] EXCEPT !.pc = "named"])
    <2> DEFINE q == [tab[t] EXCEPT !.pc = "named"]
    <2>1. /\ q \in Tab /\ q.pc = "named" /\ q.cookie = tab[t].cookie
          /\ q.role = tab[t].role /\ q.ran = tab[t].ran
      BY <1>1 DEF Tab, Stages
    <2> HIDE DEF q
    <2>2. TabOK(q)
      BY <1>1, <2>1 DEF TabOK
    <2> QED
      BY <1>1, <1>3, <2>1, <2>2, Kept, TabStep DEF q
  <1> QED
    BY <1>2, <1>3 DEF ReadName

\* The third look at the cookie, which the role comes from.
LEMMA ReadRoleKeeps ==
    ASSUME IdentityInv, NEW t \in Tabs, ReadRole(t)
    PROVE  IdentityInv'
  <1> DEFINE role == IF Valid(tab[t].cookie) THEN RoleOf(tab[t].cookie) ELSE ""
             q == [tab[t] EXCEPT !.pc = "roled", !.role = role]
  <1>1. /\ tab[t].pc = "named" /\ UNCHANGED <<now, member, lastIn, logins, jar, tokens>>
        /\ Wait(t, q) /\ tab[t] \in Tab /\ TabOK(tab[t])
    BY Kept DEF ReadRole
  <1>2. role \in Roles \cup {""} /\ (role = "admin" => tab[t].cookie.admin)
    BY DEF RoleOf, Roles
  <1> HIDE DEF role
  <1>3. /\ q \in Tab /\ q.pc = "roled" /\ q.cookie = tab[t].cookie
        /\ q.role = role /\ q.ran = tab[t].ran
    BY <1>1, <1>2 DEF Tab, Stages
  <1> HIDE DEF q
  <1>4. TabOK(q)
    BY <1>1, <1>2, <1>3 DEF TabOK
  <1> QED
    BY <1>1, <1>3, <1>4, Kept, TabStep

\* The cookie was good when the handler began, Patience ticks ago at most.
LEMMA CreateUserTokenKeeps ==
    ASSUME IdentityInv, NEW t \in Tabs, CreateUserToken(t)
    PROVE  IdentityInv'
  <1> DEFINE cookie == tab[t].cookie
             token == [role |-> StoredRole(tab[t].role), expires |-> now + TokenTTL,
                       of |-> RoleOf(cookie)]
  <1>1. /\ tab[t].pc = "roled" /\ Len(tokens) < MaxTokens
        /\ tokens' = Append(tokens, token) /\ Wait(t, IdleTab)
        /\ UNCHANGED <<now, member, lastIn, logins, jar>>
    BY DEF CreateUserToken
  <1>2. tab[t] \in Tab /\ TabOK(tab[t]) /\ now \in Int /\ lastIn \in Int
    BY Kept
  <1>3. /\ tab[t].role \in Roles \cup {""} /\ tab[t].ran \in 0 .. Patience
        /\ cookie.expires \in Int
    BY <1>2, TabFields
  <1>4. StoredRole(tab[t].role) \in Roles /\ RoleOf(cookie) \in Roles
    BY <1>3 DEF StoredRole, RoleOf, Roles
  <1>5. StoredRole(tab[t].role) = "admin" => cookie.admin
    BY <1>2 DEF StoredRole, TabOK
  <1>6. cookie.admin => RoleOf(cookie) = "admin"
    BY DEF RoleOf
  <1>7. now - tab[t].ran < cookie.expires
        /\ (cookie.admin => cookie.expires - lastIn <= SessionTTL + Patience)
    BY <1>1, <1>2 DEF TabOK, SessionOK
  <1> HIDE DEF cookie, token
  <1>8. cookie.admin => now + TokenTTL - lastIn < SessionTTL + TokenTTL + 2 * Patience
    <2> SUFFICES ASSUME cookie.admin
                 PROVE  now + TokenTTL - lastIn < SessionTTL + TokenTTL + 2 * Patience
      OBVIOUS
    <2>1. cookie.expires - lastIn <= SessionTTL + Patience /\ now - tab[t].ran < cookie.expires
      BY <1>7
    <2>2. tab[t].ran \in 0 .. Patience /\ cookie.expires \in Int
      BY <1>3
    <2> QED
      BY <1>2, <2>1, <2>2, TokenAge
  <1>9. now + TokenTTL \in Int
    BY <1>2, IdentityAssumption
  <1>10. token \in Token
    BY <1>4, <1>9 DEF Token, token
  <1>11. TokenOK(token)
    <2>1. /\ token.role = StoredRole(tab[t].role) /\ token.expires = now + TokenTTL
          /\ token.of = RoleOf(cookie)
      BY DEF token
    <2>2. token.role = "admin" => now + TokenTTL - lastIn < SessionTTL + TokenTTL + 2 * Patience
      BY <1>5, <1>8, <2>1
    <2>3. token.role = "admin" =>
            token.expires - lastIn < SessionTTL + TokenTTL + 2 * Patience
      BY <2>1, <2>2, <1>9, <1>2, IdentityAssumption
    <2>4. token.role = "admin" => token.of = "admin"
      BY <1>5, <1>6, <2>1, Zenon
    <2> QED
      BY <2>3, <2>4 DEF TokenOK
  <1>12. tokens' \in Seq(Token) /\ Len(tokens') <= MaxTokens
    BY <1>1, <1>10, Kept, IdentityAssumption
  <1>13. \A k \in DOMAIN tokens' : TokenOK(tokens'[k])
    BY <1>1, <1>10, <1>11, Kept
  <1> QED
    BY <1>1, <1>12, <1>13, IdleIsGood, Kept, TabStep

\* A token that is not minted.
LEMMA MintFailsKeeps ==
    ASSUME IdentityInv, NEW t \in Tabs, MintFails(t)
    PROVE  IdentityInv'
  BY Kept, BackToIdle DEF MintFails

-----------------------------------------------------------------------------
(* The browser, the provider and the clock. *)

\* A cookie that is lost takes nothing else along.
LEMMA CookiesGo ==
    ASSUME IdentityInv, HandleLogout \/ StateExpires
    PROVE  IdentityInv'
  <1>1. UNCHANGED <<now, member, lastIn, logins, tab, tokens>>
    BY DEF HandleLogout, StateExpires
  <1>2. 0 \in 0 .. MaxLogins
    BY IdentityAssumption
  <1>3. jar' \in Jar /\ SessionOK(jar'.session)
    <2>1. CASE HandleLogout
      <3>1. jar' \in Jar /\ jar'.session = NoSession
        BY <2>1, Kept, IdleIsGood DEF HandleLogout, Jar
      <3> QED
        BY <3>1, IdleIsGood
    <2>2. CASE StateExpires
      <3>1. jar' \in Jar /\ jar'.session = jar.session
        BY <1>2, <2>2, Kept DEF StateExpires, Jar
      <3> QED
        BY <3>1, Kept
    <2> QED
      BY <2>1, <2>2
  <1>4. TypeOK'
    BY <1>1, <1>3 DEF IdentityInv, TypeOK
  <1>5. /\ (lastIn <= now)' /\ (member => lastIn = now)'
        /\ (\A t \in Tabs : TabOK(tab[t]))'
        /\ (\A k \in DOMAIN tokens : TokenOK(tokens[k]))'
    BY <1>1 DEF IdentityInv, TabOK, SessionOK, TokenOK
  <1>6. SessionOK(jar.session)'
    BY <1>1, <1>3 DEF SessionOK
  <1> QED
    BY <1>4, <1>5, <1>6 DEF IdentityInv

\* lastIn only grows, so every bound measured from it goes on holding.
LEMMA LaterStillGood ==
    ASSUME IdentityInv, lastIn' \in Int, lastIn <= lastIn', UNCHANGED tokens
    PROVE  /\ \A s \in Session : SessionOK(s) => SessionOK(s)'
           /\ \A k \in DOMAIN tokens : TokenOK(tokens[k]) => TokenOK(tokens[k])'
  <1>1. lastIn \in Int
    BY Kept
  <1>2. \A s \in Session : SessionOK(s) => SessionOK(s)'
    <2> SUFFICES ASSUME NEW s \in Session, SessionOK(s), s.admin
                 PROVE  s.expires - lastIn' <= SessionTTL + Patience
      BY DEF SessionOK
    <2>1. s.expires \in Int /\ s.expires - lastIn <= SessionTTL + Patience
      BY DEF SessionOK, Session
    <2> QED
      BY <1>1, <2>1, IdentityAssumption
  <1>3. ASSUME NEW k \in DOMAIN tokens, TokenOK(tokens[k]) PROVE TokenOK(tokens[k])'
    <2>1. tokens[k] \in Token
      BY <1>3, Kept
    <2>2. tokens[k].expires \in Int
      BY <2>1 DEF Token
    <2> SUFFICES ASSUME tokens'[k].role = "admin"
                 PROVE  /\ tokens'[k].of = "admin"
                        /\ tokens'[k].expires - lastIn' < SessionTTL + TokenTTL + 2 * Patience
      BY DEF TokenOK
    <2>3. tokens' = tokens
      OBVIOUS
    <2>4. /\ tokens[k].of = "admin"
          /\ tokens[k].expires - lastIn < SessionTTL + TokenTTL + 2 * Patience
      BY <1>3, <2>3 DEF TokenOK
    <2> QED
      BY <1>1, <2>2, <2>3, <2>4, IdentityAssumption
  <1> QED
    BY <1>2, <1>3

\* The provider changes its mind: lastIn is brought up to date, or stays.
LEMMA RegroupKeeps ==
    ASSUME IdentityInv, Regroup
    PROVE  IdentityInv'
  <1>1. /\ UNCHANGED <<now, logins, jar, tab, tokens>> /\ member' = ~ member
        /\ lastIn' = IF member' THEN now ELSE lastIn
    BY DEF Regroup
  <1>2. /\ now \in Int /\ lastIn \in Int /\ lastIn <= now /\ now \in 0 .. MaxTime
        /\ lastIn \in {Never} \cup 0 .. MaxTime
    BY Kept DEF IdentityInv, TypeOK
  <1>3. lastIn' \in Int /\ lastIn <= lastIn' /\ lastIn' <= now
    BY <1>1, <1>2
  <1>4. member' \in BOOLEAN /\ (member' => lastIn' = now)
    BY <1>1, Zenon
  <1>5. lastIn' \in {Never} \cup 0 .. MaxTime
    BY <1>1, <1>2, Zenon
  <1>6. TypeOK'
    BY <1>1, <1>4, <1>5 DEF IdentityInv, TypeOK
  <1>7. SessionOK(jar.session)' /\ (\A k \in DOMAIN tokens : TokenOK(tokens[k]))'
    BY <1>1, <1>3, Kept, LaterStillGood
  <1>8. ASSUME NEW t \in Tabs PROVE TabOK(tab[t])'
    <2>1. tab[t] \in Tab /\ TabOK(tab[t]) /\ tab'[t] = tab[t]
      BY <1>1, Kept
    <2>2. tab[t].cookie \in Session /\ tab[t].ran \in 0 .. Patience
      BY <2>1, TabFields
    <2>3. SessionOK(tab[t].cookie)'
      BY <1>1, <1>3, <2>1, <2>2, LaterStillGood DEF TabOK
    <2>4. tab[t].pc = "exchanged" /\ tab[t].admin => now - lastIn' <= tab[t].ran
      <3> SUFFICES ASSUME tab[t].pc = "exchanged", tab[t].admin
                   PROVE  now - lastIn' <= tab[t].ran
        OBVIOUS
      <3>1. now - lastIn <= tab[t].ran
        BY <2>1 DEF TabOK
      <3> QED
        BY <1>2, <1>3, <2>2, <3>1, IdentityAssumption
    <2> QED
      BY <1>1, <2>1, <2>3, <2>4 DEF TabOK
  <1> QED
    BY <1>1, <1>3, <1>4, <1>6, <1>7, <1>8 DEF IdentityInv

\* The clock moves on, and with it the age of every handler under way.
LEMMA TickKeeps ==
    ASSUME IdentityInv, Tick
    PROVE  IdentityInv'
  <1>1. /\ UNCHANGED <<member, logins, jar, tokens>> /\ now < MaxTime /\ now' = now + 1
        /\ lastIn' = IF member THEN now + 1 ELSE lastIn
        /\ tab' = [t \in Tabs |-> IF Running(t) THEN [tab[t] EXCEPT !.ran = @ + 1] ELSE tab[t]]
        /\ \A t \in Tabs : Running(t) => tab[t].ran < Patience
    BY DEF Tick
  <1>2. /\ now \in Int /\ lastIn \in Int /\ lastIn <= now /\ now \in 0 .. MaxTime
        /\ lastIn \in {Never} \cup 0 .. MaxTime /\ member \in BOOLEAN
    BY Kept DEF IdentityInv, TypeOK
  <1>3. now' \in Int /\ lastIn' \in Int /\ lastIn <= lastIn' /\ lastIn' <= now'
    BY <1>1, <1>2
  <1>4. member' => lastIn' = now'
    BY <1>1
  <1>5. now' \in 0 .. MaxTime /\ lastIn' \in {Never} \cup 0 .. MaxTime
    <2>1. now + 1 \in 0 .. MaxTime
      BY <1>1, <1>2, IdentityAssumption
    <2> QED
      BY <1>1, <1>2, <2>1, Zenon
  <1>6. ASSUME NEW t \in Tabs PROVE tab'[t] \in Tab /\ TabOK(tab[t])'
    <2>1. tab[t] \in Tab /\ TabOK(tab[t])
      BY Kept
    <2>2. /\ tab[t].cookie \in Session /\ tab[t].ran \in 0 .. Patience
          /\ tab[t].cookie.expires \in Int
      BY <2>1, TabFields
    <2>3. \A n \in 0 .. Patience : n \in Int
      BY IdentityAssumption
    <2>4. tab[t].cookie.admin => tab[t].cookie.expires - lastIn' <= SessionTTL + Patience
      <3> SUFFICES ASSUME tab[t].cookie.admin
                   PROVE  tab[t].cookie.expires - lastIn' <= SessionTTL + Patience
        OBVIOUS
      <3>1. tab[t].cookie.expires - lastIn <= SessionTTL + Patience
        BY <2>1 DEF TabOK, SessionOK
      <3> QED
        BY <1>2, <1>3, <2>2, <3>1, IdentityAssumption
    <2>5. CASE Running(t)
      <3>1. tab'[t] = [tab[t] EXCEPT !.ran = tab[t].ran + 1] /\ tab[t].ran < Patience
        BY <1>1, <2>5
      <3>2. tab[t].ran + 1 \in 0 .. Patience
        BY <2>2, <3>1, IdentityAssumption
      <3>3. /\ tab'[t] \in Tab
            /\ tab'[t].pc = tab[t].pc /\ tab'[t].cookie = tab[t].cookie
            /\ tab'[t].admin = tab[t].admin /\ tab'[t].role = tab[t].role
            /\ tab'[t].ran = tab[t].ran + 1
        BY <2>1, <3>1, <3>2 DEF Tab
      <3>4. tab[t].pc = "exchanged" /\ tab[t].admin => now' - lastIn' <= tab[t].ran + 1
        <4> SUFFICES ASSUME tab[t].pc = "exchanged", tab[t].admin
                     PROVE  now' - lastIn' <= tab[t].ran + 1
          OBVIOUS
        <4>1. now - lastIn <= tab[t].ran
          BY <2>1 DEF TabOK
        <4> QED
          BY <1>1, <1>2, <1>3, <2>2, <2>3, <4>1
      <3>5. tab[t].pc \in {"guarded", "named", "roled"} =>
              now' - (tab[t].ran + 1) < tab[t].cookie.expires
        <4> SUFFICES ASSUME tab[t].pc \in {"guarded", "named", "roled"}
                     PROVE  now' - (tab[t].ran + 1) < tab[t].cookie.expires
          OBVIOUS
        <4>1. now - tab[t].ran < tab[t].cookie.expires
          BY <2>1 DEF TabOK
        <4> QED
          BY <1>1, <1>2, <2>2, <2>3, <4>1
      <3>6. tab[t].role = "admin" => tab[t].cookie.admin
        BY <2>1 DEF TabOK
      <3> QED
        BY <2>4, <3>3, <3>4, <3>5, <3>6 DEF TabOK, SessionOK
    <2>6. CASE ~ Running(t)
      <3>1. tab'[t] = tab[t] /\ tab[t].pc \in {"idle", "provider"}
        BY <1>1, <2>6 DEF Running
      <3> QED
        BY <2>1, <2>4, <3>1 DEF TabOK, SessionOK
    <2> QED
      BY <2>5, <2>6
  <1>7. tab' \in [Tabs -> Tab]
    BY <1>1, <1>6
  <1>8. TypeOK'
    BY <1>1, <1>5, <1>7 DEF IdentityInv, TypeOK
  <1>9. SessionOK(jar.session)' /\ (\A k \in DOMAIN tokens : TokenOK(tokens[k]))'
    BY <1>1, <1>3, Kept, LaterStillGood
  <1> QED
    BY <1>3, <1>4, <1>6, <1>8, <1>9 DEF IdentityInv

-----------------------------------------------------------------------------
(* The theorems. *)

\* Every step keeps the invariant.
LEMMA IdentityNextInv == IdentityInv /\ [Next]_vars => IdentityInv'
  <1> SUFFICES ASSUME IdentityInv, [Next]_vars PROVE IdentityInv'
    OBVIOUS
  <1>1. CASE UNCHANGED vars
    <2>1. UNCHANGED <<now, member, lastIn, logins, jar, tab, tokens>>
      BY <1>1 DEF vars
    <2> QED
      BY <2>1 DEF IdentityInv, TypeOK, TabOK, SessionOK, TokenOK
  <1>2. CASE Next
    BY <1>2, HandleLoginKeeps, ExchangeKeeps, StateMismatchKeeps, SetSessionKeeps,
       CallbackFailsKeeps, BeginMintKeeps, ReadNameKeeps, ReadRoleKeeps,
       CreateUserTokenKeeps, MintFailsKeeps, CookiesGo, RegroupKeeps, TickKeeps DEF Next
  <1> QED
    BY <1>1, <1>2

\* The inductive invariant of sessions, roles and tokens.
LEMMA IdentityInvariant == Spec => []IdentityInv
  BY IdentityInit, IdentityNextInv, PTL DEF Spec

\* Types of cookies, tabs and tokens (SetSession, CreateUserToken).
THEOREM IdentityTypeCorrect == Spec => []TypeOK
  <1>1. IdentityInv => TypeOK
    BY DEF IdentityInv
  <1> QED
    BY <1>1, IdentityInvariant, PTL

\* A token never carries more than the session it was minted from, at whichever of the
\* handler's three looks at it the cookie expires (handleCreateUserToken).
THEOREM TokensWithinSessions == Spec => []TokenWithinSession
  <1>1. IdentityInv => TokenWithinSession
    BY DEF IdentityInv, TokenOK, TokenWithinSession
  <1> QED
    BY <1>1, IdentityInvariant, PTL

\* Whoever leaves the administrators' group is no administrator any more after a
\* session's, and on the command line a session's and a token's, lifetime, for any
\* lifetimes and any number of tabs, logins and tokens (roleForGroupList,
\* CreateUserToken).
THEOREM StaleAdminEnds == Spec => []StaleAdminIsBounded
  <1>1. IdentityInv => StaleAdminIsBounded
    <2> SUFFICES ASSUME IdentityInv PROVE StaleAdminIsBounded
      OBVIOUS
    <2>1. ASSUME jar.session.admin, Valid(jar.session)
          PROVE  now - lastIn < SessionTTL + Patience
      <3>1. jar.session.expires \in Int /\ now \in Int /\ lastIn \in Int
        BY Kept DEF Session
      <3>2. jar.session.expires - lastIn <= SessionTTL + Patience
        BY <2>1, Kept DEF SessionOK
      <3>3. now < jar.session.expires
        BY <2>1, <3>1 DEF Valid
      <3> QED
        BY <3>1, <3>2, <3>3, IdentityAssumption
    <2>2. ASSUME NEW k \in DOMAIN tokens, tokens[k].role = "admin", Accepted(tokens[k])
          PROVE  now - lastIn < SessionTTL + TokenTTL + 2 * Patience
      <3>1. tokens[k] \in Token /\ TokenOK(tokens[k])
        BY Kept
      <3>2. tokens[k].expires \in Int /\ now \in Int /\ lastIn \in Int
        BY <3>1, Kept DEF Token
      <3>3. /\ tokens[k].expires - lastIn < SessionTTL + TokenTTL + 2 * Patience
            /\ now <= tokens[k].expires
        BY <2>2, <3>1 DEF TokenOK, Accepted
      <3> QED
        BY <3>2, <3>3, IdentityAssumption
    <2> QED
      BY <2>1, <2>2 DEF StaleAdminIsBounded
  <1> QED
    BY <1>1, IdentityInvariant, PTL
=============================================================================
