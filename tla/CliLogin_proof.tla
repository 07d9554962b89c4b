---------------------------- MODULE CliLogin_proof ----------------------------
(* Proofs about CliLogin, for any number of terminals, ports, logins and tokens. *)
EXTENDS CliLogin, TLAPS

Token == [owner : Owners, for : LoginIds]

\* A configuration that holds a token of the server and a user that goes with it.
PairOf(cfg, toks) ==
    cfg.token # 0 =>
        /\ cfg.token \in 1 .. Len(toks)
        /\ cfg.user \in {toks[cfg.token].owner, "other"}

\* A command between two steps: a login that waits or has a token listens, a command that
\* has ended does not, and a token that a login has was minted for its own state.
CommandOK(r, toks) ==
    /\ r \in Command
    /\ (r.pc = "waiting" \/ r.token # 0) => r.port # "none"
    /\ r.pc = "idle" => r.port = "none"
    /\ r.token # 0 => r.token \in 1 .. Len(toks) /\ toks[r.token].for = r.state
    /\ r.pc = "got" \/ r.result = "token" => r.token # 0

CommandsOK == cmd \in [Terminals -> Command] /\ \A c \in Terminals : CommandOK(cmd[c], tokens)

\* A token under way carries the state of the login it was minted for, so a callback
\* that passes the comparison of states takes the right one.
SentOK == sent \subseteq Redirect /\ \A r \in sent : r.token \in 1 .. Len(tokens)
                                                     /\ tokens[r.token].for = r.state

\* While no two commands have written at once, pairs are all that is written.
PairsOK ==
    ~ overlaid => PairOf(file.cfg, tokens) /\ \A c \in Terminals : PairOf(cmd[c].cfg, tokens)

ServerOK == tokens \in Seq(Token) /\ Len(tokens) <= MaxTokens

LoginInv ==
    /\ file \in File /\ overlaid \in BOOLEAN
    /\ logins \in 0 .. MaxLogins /\ pages \subseteq Page
    /\ ServerOK /\ SentOK /\ CommandsOK /\ PairsOK

-----------------------------------------------------------------------------
\* The constant records are good ones.
LEMMA ConstantShapes ==
    /\ DefaultConfig \in Config /\ Empty \in File /\ Torn \in File
    /\ \A cfg \in Config : Whole(cfg) \in File
    /\ Idle \in Command
    /\ \A toks : PairOf(DefaultConfig, toks) /\ CommandOK(Idle, toks) /\ PairOf(Idle.cfg, toks)
BY CliLoginAssumption
   DEF DefaultConfig, Config, Empty, Torn, File, Whole, Idle, Command, Stages, PairOf,
       CommandOK, TokenIds, LoginIds

\* A step that puts a good command into one terminal leaves all commands good.
LEMMA SetKeepsCommands ==
    ASSUME CommandsOK, UNCHANGED tokens, NEW c \in Terminals, NEW r, CommandOK(r, tokens), Set(c, r)
    PROVE  /\ CommandsOK'
           /\ \A d \in Terminals : cmd'[d] = IF d = c THEN r ELSE cmd[d]
<1>1. r \in Command BY DEF CommandOK
<1>2. \A d \in Terminals : cmd'[d] = IF d = c THEN r ELSE cmd[d]
  BY DEF Set, CommandsOK
<1>3. cmd' \in [Terminals -> Command] BY <1>1 DEF Set, CommandsOK
<1>4. \A d \in Terminals : CommandOK(cmd'[d], tokens') BY <1>2 DEF CommandsOK
<1>. QED BY <1>2, <1>3, <1>4 DEF CommandsOK

\* The same for the pairs, the file being left alone or replaced by another pair.
LEMMA SetKeepsPairs ==
    ASSUME CommandsOK, PairsOK, UNCHANGED tokens, overlaid' = FALSE => overlaid = FALSE,
           overlaid' \in BOOLEAN, overlaid \in BOOLEAN,
           NEW c \in Terminals, NEW r, Set(c, r), CommandOK(r, tokens),
           ~ overlaid' => PairOf(r.cfg, tokens) /\ PairOf(file'.cfg, tokens)
    PROVE  PairsOK'
<1>1. \A d \in Terminals : cmd'[d] = IF d = c THEN r ELSE cmd[d]
  BY SetKeepsCommands
<1>. QED BY <1>1 DEF PairsOK

\* No command runs at first.
LEMMA InitLoginInv == Init => LoginInv
<1>. SUFFICES ASSUME Init PROVE LoginInv OBVIOUS
<1>1. /\ file = Empty /\ overlaid = FALSE /\ cmd = [c \in Terminals |-> Idle]
      /\ logins = 0 /\ pages = {} /\ sent = {} /\ tokens = <<>>
  BY DEF Init
<1>2. ServerOK BY <1>1, CliLoginAssumption DEF ServerOK
<1>3. SentOK BY <1>1 DEF SentOK
<1>4. CommandsOK BY <1>1, ConstantShapes DEF CommandsOK
<1>5. PairsOK BY <1>1, ConstantShapes DEF PairsOK, Empty
<1>6. file \in File /\ overlaid \in BOOLEAN BY <1>1, ConstantShapes
<1>7. logins \in 0 .. MaxLogins /\ pages \subseteq Page BY <1>1, CliLoginAssumption
<1>. QED BY <1>2, <1>3, <1>4, <1>5, <1>6, <1>7 DEF LoginInv

-----------------------------------------------------------------------------
\* What a command does keeps the invariant.
LEMMA CommandStep ==
    ASSUME LoginInv, UNCHANGED tokens, NEW c \in Terminals, NEW r, Set(c, r),
           CommandOK(r, tokens), file' \in File, overlaid' \in BOOLEAN, overlaid => overlaid',
           ~ overlaid' => PairOf(r.cfg, tokens) /\ PairOf(file'.cfg, tokens),
           logins' \in 0 .. MaxLogins, pages' \subseteq Page, sent' \subseteq sent
    PROVE  LoginInv'
<1>1. CommandsOK /\ PairsOK /\ ServerOK /\ SentOK /\ overlaid \in BOOLEAN BY DEF LoginInv
<1>2. CommandsOK' BY <1>1, SetKeepsCommands
<1>3. PairsOK' BY <1>1, SetKeepsPairs
<1>4. ServerOK' BY <1>1 DEF ServerOK
<1>5. SentOK' BY <1>1 DEF SentOK
<1>. QED BY <1>2, <1>3, <1>4, <1>5 DEF LoginInv

\* A new login has a state of its own.
LEMMA StartLoginKeeps ==
    ASSUME LoginInv, NEW c \in Terminals, NEW port \in Ports, StartLogin(c, port)
    PROVE  LoginInv'
<1> DEFINE r == [Idle EXCEPT !.pc = "waiting", !.port = port, !.state = logins + 1]
<1>1. logins' = logins + 1 /\ logins + 1 \in LoginIds /\ logins' \in 0 .. MaxLogins
  BY CliLoginAssumption DEF StartLogin, LoginInv, LoginIds
<1>2. pages' \subseteq Page BY <1>1 DEF StartLogin, LoginInv, Page
<1>3. CommandOK(r, tokens) /\ PairOf(r.cfg, tokens)
  BY <1>1, CliLoginAssumption, ConstantShapes DEF CommandOK, Idle, Command, Stages, PairOf, DefaultConfig
<1>4. Set(c, r) /\ UNCHANGED <<file, overlaid, sent, tokens>> BY DEF StartLogin
<1>5. ~ overlaid => PairOf(file.cfg, tokens) BY DEF LoginInv, PairsOK
<1>. QED BY <1>1, <1>2, <1>3, <1>4, <1>5, CommandStep DEF LoginInv

\* A result goes into the channel of a login that waits: an error, or a token minted for
\* the state of the login.
LEMMA DeliverKeeps ==
    ASSUME LoginInv, NEW c \in Terminals, NEW result \in {"error", "token"}, NEW token,
           result = "error" => token = 0,
           result = "token" => /\ token \in TokenIds /\ token \in 1 .. Len(tokens)
                               /\ tokens[token].for = cmd[c].state,
           Deliver(c, result, token), sent' \subseteq sent,
           UNCHANGED <<file, overlaid, logins, pages, tokens>>
    PROVE  LoginInv'
<1> DEFINE r == [cmd[c] EXCEPT !.result = result, !.token = token]
<1>1. CommandOK(cmd[c], tokens) /\ (~ overlaid => PairOf(cmd[c].cfg, tokens) /\ PairOf(file.cfg, tokens))
  BY DEF LoginInv, CommandsOK, PairsOK
<1>2. CASE UNCHANGED cmd
  BY <1>2 DEF LoginInv, CommandsOK, PairsOK, ServerOK, SentOK
<1>3. CASE Set(c, r) /\ cmd[c].pc = "waiting"
  <2>1. 0 \notin TokenIds BY DEF TokenIds
  <2>2. r \in Command BY <1>1 DEF CommandOK, Command
  <2>3. /\ r.pc = "waiting" /\ r.port = cmd[c].port /\ r.state = cmd[c].state
        /\ r.result = result /\ r.token = token /\ r.cfg = cmd[c].cfg
    BY <1>1, <1>3 DEF CommandOK, Command
  <2>4. CommandOK(r, tokens) BY <1>1, <1>3, <2>1, <2>2, <2>3 DEF CommandOK
  <2> HIDE DEF r
  <2>. QED BY <1>1, <1>3, <2>3, <2>4, CommandStep DEF LoginInv
<1>. QED BY <1>2, <1>3 DEF Deliver

\* The callback compares the state, so that what it delivers is the login's own.
LEMMA CallbackKeeps ==
    ASSUME LoginInv, NEW c \in Terminals, NEW q \in sent, Callback(c, q)
    PROVE  LoginInv'
<1>1. q \in Redirect /\ q.token \in 1 .. Len(tokens) /\ tokens[q.token].for = q.state
  BY DEF LoginInv, SentOK
<1>2. sent' \subseteq sent /\ UNCHANGED <<file, overlaid, logins, pages, tokens>> BY DEF Callback
<1>3. q.token \in TokenIds BY <1>1 DEF Redirect
<1>4. CASE StateMatches(c, q) /\ Deliver(c, "token", q.token)
  BY <1>1, <1>2, <1>3, <1>4, DeliverKeeps DEF StateMatches
<1>5. CASE Deliver(c, "error", 0) BY <1>2, <1>5, DeliverKeeps
<1>. QED BY <1>4, <1>5 DEF Callback

\* A request of nobody's brings an error.
LEMMA StrayCallbackKeeps ==
    ASSUME LoginInv, NEW c \in Terminals, StrayCallback(c)
    PROVE  LoginInv'
BY DeliverKeeps DEF StrayCallback

\* Received, given up, interrupted: the command goes on with its token, or ends.
LEMMA ReceiveKeeps ==
    ASSUME LoginInv, NEW c \in Terminals, Receive(c)
    PROVE  LoginInv'
<1>1. CommandOK(cmd[c], tokens) /\ (~ overlaid => PairOf(cmd[c].cfg, tokens) /\ PairOf(file.cfg, tokens))
  BY DEF LoginInv, CommandsOK, PairsOK
<1>2. UNCHANGED <<file, overlaid, logins, pages, sent, tokens>> BY DEF Receive
<1>3. CASE Set(c, Idle)
  BY <1>1, <1>2, <1>3, ConstantShapes, CommandStep DEF LoginInv
<1>4. CASE cmd[c].result = "token" /\ Set(c, [cmd[c] EXCEPT !.pc = "got"])
  <2> DEFINE r == [cmd[c] EXCEPT !.pc = "got"]
  <2>1. CommandOK(r, tokens) /\ r.cfg = cmd[c].cfg BY <1>1, <1>4 DEF CommandOK, Command, Stages
  <2>. QED BY <1>1, <1>2, <1>4, <2>1, CommandStep DEF LoginInv
<1>. QED BY <1>3, <1>4 DEF Receive

\* Ends of a command.
LEMMA EndingKeeps ==
    ASSUME LoginInv, NEW c \in Terminals, Timeout(c) \/ Interrupt(c)
    PROVE  LoginInv'
<1>1. Set(c, Idle) /\ UNCHANGED <<file, overlaid, logins, pages, sent, tokens>>
  BY DEF Timeout, Interrupt
<1>2. ~ overlaid => PairOf(file.cfg, tokens) BY DEF LoginInv, PairsOK
<1>. QED BY <1>1, <1>2, ConstantShapes, CommandStep DEF LoginInv

\* saveToken puts the token and its user in together: no token is minted without one.
LEMMA LoadForTokenKeeps ==
    ASSUME LoginInv, NEW c \in Terminals, LoadForToken(c)
    PROVE  LoginInv'
<1>1. CommandOK(cmd[c], tokens) /\ file \in File /\ ServerOK
      /\ (~ overlaid => PairOf(file.cfg, tokens))
  BY DEF LoginInv, CommandsOK, PairsOK
<1>2. cmd[c].pc = "got" /\ UNCHANGED <<file, overlaid, logins, pages, sent, tokens>>
  BY DEF LoadForToken
<1>3. CASE Set(c, Idle) BY <1>1, <1>2, <1>3, ConstantShapes, CommandStep DEF LoginInv
<1>4. CASE Set(c, [cmd[c] EXCEPT !.pc = "save", !.cfg = MergeToken(file.cfg, cmd[c].token)])
  <2> DEFINE cfg == MergeToken(file.cfg, cmd[c].token)
             r == [cmd[c] EXCEPT !.pc = "save", !.cfg = cfg]
  <2>1. cmd[c].token \in 1 .. Len(tokens) /\ cmd[c].token \in {0} \cup TokenIds
    BY <1>1, <1>2 DEF CommandOK, Command
  <2>2. tokens[cmd[c].token] \in Token BY <1>1, <2>1 DEF ServerOK
  <2>3. file.cfg \in Config BY <1>1 DEF File
  <2>4. cfg \in Config /\ PairOf(cfg, tokens)
    BY <2>1, <2>2, <2>3, NamedAssumption DEF Config, MergeToken, PairOf, Token
  <2>5. r \in Command BY <1>1, <2>4 DEF CommandOK, Command, Stages
  <2>6. CommandOK(r, tokens) /\ r.cfg = cfg
    BY <1>1, <1>2, <2>5 DEF CommandOK, Command
  <2>. QED BY <1>1, <1>2, <1>4, <2>4, <2>6, CommandStep DEF LoginInv
<1>. QED BY <1>3, <1>4 DEF LoadForToken

\* What "config set" is about to write is what it read, with another user or token.
LEMMA LoadForSetKeeps ==
    ASSUME LoginInv, NEW c \in Terminals, NEW cfg \in Edits(file.cfg), LoadForSet(c, cfg)
    PROVE  LoginInv'
<1> DEFINE r == [Idle EXCEPT !.pc = "save", !.cfg = cfg]
<1>1. file.cfg \in Config /\ (~ overlaid => PairOf(file.cfg, tokens))
  BY DEF LoginInv, PairsOK, File
<1>2. cfg \in Config BY <1>1 DEF Edits, Config
<1>3. ~ overlaid => PairOf(cfg, tokens) BY <1>1 DEF Edits, PairOf, Config
<1>4. CommandOK(r, tokens) /\ r.cfg = cfg
  BY <1>2, ConstantShapes DEF CommandOK, Idle, Command, Stages
<1>5. Set(c, r) /\ UNCHANGED <<file, overlaid, logins, pages, sent, tokens>> BY DEF LoadForSet
<1>. QED BY <1>1, <1>3, <1>4, <1>5, CommandStep DEF LoginInv

\* The first half of a write.
LEMMA TruncateKeeps ==
    ASSUME LoginInv, NEW c \in Terminals, Truncate(c)
    PROVE  LoginInv'
<1> DEFINE r == [cmd[c] EXCEPT !.pc = "truncated"]
<1>1. CommandOK(cmd[c], tokens) /\ (~ overlaid => PairOf(cmd[c].cfg, tokens))
  BY DEF LoginInv, CommandsOK, PairsOK
<1>2. cmd[c].pc = "save" /\ file' = Empty /\ Set(c, r)
      /\ UNCHANGED <<overlaid, logins, pages, sent, tokens>>
  BY DEF Truncate
<1>3. CommandOK(r, tokens) /\ r.cfg = cmd[c].cfg BY <1>1, <1>2 DEF CommandOK, Command, Stages
<1>4. PairOf(file'.cfg, tokens) BY <1>2, ConstantShapes DEF Empty
<1>. QED BY <1>1, <1>2, <1>3, <1>4, ConstantShapes, CommandStep DEF LoginInv

\* A text written into an empty file is the pair it was; any other is an overlay.
LEMMA WriteKeeps ==
    ASSUME LoginInv, NEW c \in Terminals, Write(c)
    PROVE  LoginInv'
<1>1. /\ cmd[c].cfg \in Config /\ file \in File /\ file.cfg \in Config /\ overlaid \in BOOLEAN
      /\ ~ overlaid => PairOf(cmd[c].cfg, tokens)
  BY DEF LoginInv, CommandsOK, CommandOK, Command, PairsOK, File
<1>2. Set(c, Idle) /\ UNCHANGED <<logins, pages, sent, tokens>>
      /\ overlaid' = (overlaid \/ file.is # "empty")
  BY DEF Write
<1>3. file' \in File
  <2>1. \A t \in {file.cfg.token} : [cmd[c].cfg EXCEPT !.token = t] \in Config
    BY <1>1 DEF Config
  <2>. QED BY <1>1, <2>1, ConstantShapes DEF Write, Overlays
<1>4. ASSUME ~ overlaid' PROVE PairOf(file'.cfg, tokens)
  <2>1. ~ overlaid /\ file.is = "empty" BY <1>2, <1>4
  <2>2. file' = Whole(cmd[c].cfg) BY <2>1 DEF Write
  <2>3. file'.cfg = cmd[c].cfg BY <2>2 DEF Whole
  <2>. QED BY <1>1, <2>1, <2>3
<1>. QED BY <1>1, <1>2, <1>3, <1>4, ConstantShapes, CommandStep DEF LoginInv

\* A write that breaks off in an empty file leaves no token.
LEMMA WriteFailsKeeps ==
    ASSUME LoginInv, NEW c \in Terminals, WriteFails(c)
    PROVE  LoginInv'
<1>1. /\ cmd[c].cfg \in Config /\ file \in File /\ file.cfg \in Config /\ overlaid \in BOOLEAN
  BY DEF LoginInv, CommandsOK, CommandOK, Command, File
<1>2. Set(c, Idle) /\ UNCHANGED <<logins, pages, sent, tokens>>
      /\ overlaid' = (overlaid \/ file.is # "empty")
  BY DEF WriteFails
<1>3. \A u \in {cmd[c].cfg.user, file.cfg.user, "other"}, t \in {cmd[c].cfg.token, file.cfg.token, 0} :
         [user |-> u, token |-> t] \in Config
  BY <1>1 DEF Config
<1>4. file' \in Beginnings(cmd[c].cfg) \/ file' \in Mixtures(cmd[c].cfg)
  BY DEF WriteFails
<1>5. file' \in File
  BY <1>3, <1>4, ConstantShapes DEF Beginnings, Mixtures
<1>6. ASSUME ~ overlaid' PROVE PairOf(file'.cfg, tokens)
  <2>1. file' \in Beginnings(cmd[c].cfg) BY <1>2, <1>6 DEF WriteFails
  <2>2. file'.cfg.token = 0
    BY <2>1 DEF Beginnings, Empty, Torn, Whole, DefaultConfig
  <2>. QED BY <2>2 DEF PairOf
<1>. QED BY <1>2, <1>5, <1>6, ConstantShapes, CommandStep DEF LoginInv

-----------------------------------------------------------------------------
\* A new token disturbs nothing that is known of the old ones.
LEMMA ApproveKeeps ==
    ASSUME LoginInv, NEW page \in pages, NEW u \in Owners, Approve(page, u)
    PROVE  LoginInv'
<1> DEFINE new == [owner |-> u, for |-> page.state]
<1>1. /\ tokens' = Append(tokens, new) /\ Len(tokens) < MaxTokens
      /\ sent' = sent \cup {[port |-> page.port, state |-> page.state, token |-> Len(tokens) + 1]}
      /\ UNCHANGED <<file, overlaid, cmd, logins, pages>>
  BY DEF Approve
<1>2. page \in Page /\ tokens \in Seq(Token) /\ Len(tokens) \in Nat BY DEF LoginInv, ServerOK
<1>3. new \in Token BY <1>2 DEF Token, Page
<1>4. /\ tokens' \in Seq(Token) /\ Len(tokens') = Len(tokens) + 1 /\ tokens'[Len(tokens) + 1] = new
      /\ \A k \in 1 .. Len(tokens) : tokens'[k] = tokens[k] /\ k \in 1 .. Len(tokens')
  BY <1>1, <1>2, <1>3
<1>5. ServerOK' BY <1>1, <1>2, <1>4, CliLoginAssumption DEF ServerOK
<1>6. SentOK'
  <2>1. Len(tokens) + 1 \in TokenIds BY <1>1, <1>2, CliLoginAssumption DEF TokenIds
  <2>2. [port |-> page.port, state |-> page.state, token |-> Len(tokens) + 1] \in Redirect
    BY <1>2, <2>1 DEF Redirect, Page
  <2>3. \A r \in sent' : r.token \in 1 .. Len(tokens') /\ tokens'[r.token].for = r.state
    BY <1>1, <1>2, <1>4 DEF LoginInv, SentOK
  <2>. QED BY <1>1, <2>2, <2>3 DEF SentOK, LoginInv
<1>7. CommandsOK' BY <1>1, <1>4 DEF LoginInv, CommandsOK, CommandOK
<1>8. PairsOK' BY <1>1, <1>4 DEF LoginInv, PairsOK, PairOf
<1>. QED BY <1>1, <1>5, <1>6, <1>7, <1>8 DEF LoginInv

\* What the browser and the user do.
LEMMA EnvironmentKeeps ==
    ASSUME LoginInv,
           \/ \E page \in pages : ClosePage(page)
           \/ \E r \in sent : Unreachable(r)
           \/ UNCHANGED vars
    PROVE  LoginInv'
<1>1. UNCHANGED <<file, overlaid, cmd, logins, tokens>> /\ sent' \subseteq sent /\ pages' \subseteq pages
  BY DEF ClosePage, Unreachable, vars
<1>. QED BY <1>1 DEF LoginInv, CommandsOK, PairsOK, ServerOK, SentOK

\* A torn file that is replaced by hand.
LEMMA RepairKeeps == LoginInv /\ Repair => LoginInv'
BY ConstantShapes DEF Repair, LoginInv, CommandsOK, PairsOK, ServerOK, SentOK, Empty

\* Every step keeps the invariant.
LEMMA NextLoginInv == LoginInv /\ [Next]_vars => LoginInv'
<1>. SUFFICES ASSUME LoginInv, [Next]_vars PROVE LoginInv' OBVIOUS
<1>1. CASE \E c \in Terminals, port \in Ports : StartLogin(c, port) BY <1>1, StartLoginKeeps
<1>2. CASE \E c \in Terminals, r \in sent : Callback(c, r) BY <1>2, CallbackKeeps
<1>3. CASE \E c \in Terminals : \E cfg \in Edits(file.cfg) : LoadForSet(c, cfg)
  BY <1>3, LoadForSetKeeps
<1>4. CASE \E c \in Terminals : Run(c) \/ StrayCallback(c) \/ WriteFails(c) \/ Interrupt(c)
  BY <1>4, ReceiveKeeps, EndingKeeps, LoadForTokenKeeps, TruncateKeeps, WriteKeeps,
     StrayCallbackKeeps, WriteFailsKeeps
     DEF Run
<1>5. CASE \E page \in pages, u \in Owners : Approve(page, u) BY <1>5, ApproveKeeps
<1>6. CASE Repair BY <1>6, RepairKeeps
<1>7. CASE \/ \E page \in pages : ClosePage(page)
           \/ \E r \in sent : Unreachable(r)
           \/ UNCHANGED vars
  BY <1>7, EnvironmentKeeps
<1>. QED BY <1>1, <1>2, <1>3, <1>4, <1>5, <1>6, <1>7 DEF Next

\* The inductive invariant of logins and configuration, which the theorems below rest on.
THEOREM LoginInvariant == Spec => []LoginInv
BY InitLoginInv, NextLoginInv, PTL DEF Spec

-----------------------------------------------------------------------------
\* Files, commands, pages, redirections and tokens are what they are declared to be,
\* a login that waits or has a token keeps its listener, also while it reads and writes the
\* file, and no command that has ended does (runLogin's deferred Close).
THEOREM LoginTypeCorrect == Spec => []TypeOK
<1>1. LoginInv => TypeOK
  BY DEF LoginInv, ServerOK, SentOK, CommandsOK, CommandOK, TypeOK, Token
<1>. QED BY <1>1, LoginInvariant, PTL

\* The state compared in the callback is enough: whatever ports are used again and
\* whoever approves old pages, a login takes no token but its own.
THEOREM LoginsTakeTheirOwn == Spec => []OwnTokenOnly
<1>1. LoginInv => OwnTokenOnly BY DEF LoginInv, CommandsOK, CommandOK, OwnTokenOnly
<1>. QED BY <1>1, LoginInvariant, PTL

\* Reading, changing and writing back without a lock loses changes but splits no pair of
\* token and user, unless two commands write at once.
THEOREM PairsStayWhole == Spec => []PairIntact
<1>1. LoginInv => PairIntact BY DEF LoginInv, PairsOK, PairOf, PairIntact
<1>. QED BY <1>1, LoginInvariant, PTL

-----------------------------------------------------------------------------
\* The stages a command has still before it, at most.
StepsLeft(r) ==
    CASE r.pc = "waiting" -> 4
      [] r.pc = "got" -> 3
      [] r.pc = "save" -> 2
      [] r.pc = "truncated" -> 1
      [] OTHER -> 0

\* Nothing that happens around a command under way, callbacks and other commands
\* included, sends it back, and each of its own steps takes it further
\* (runLogin, saveToken, saveConfig).  With the fairness of Run this is why
\* CommandsEnd holds.
ForwardStep ==
    \A c \in Terminals : cmd[c].pc # "idle" =>
        /\ StepsLeft(cmd'[c]) <= StepsLeft(cmd[c])
        /\ Run(c) => StepsLeft(cmd'[c]) < StepsLeft(cmd[c])

\* One command moves at most, and only forward.
LEMMA CommandsMoveForward ==
    ASSUME CommandsOK, Next
    PROVE  ForwardStep
<1>1. \A r : /\ StepsLeft(r) \in Nat
             /\ r.pc = "waiting" => StepsLeft(r) = 4
             /\ r.pc = "got" => StepsLeft(r) = 3
             /\ r.pc = "save" => StepsLeft(r) = 2
             /\ r.pc = "truncated" => StepsLeft(r) = 1
             /\ r.pc = "idle" => StepsLeft(r) = 0
  BY DEF StepsLeft
<1>2. ASSUME NEW c \in Terminals, NEW r, Set(c, r)
      PROVE  cmd'[c] = r /\ \A d \in Terminals \ {c} : cmd'[d] = cmd[d]
  BY <1>2 DEF Set, CommandsOK
<1>3. cmd \in [Terminals -> Command] BY DEF CommandsOK
<1>4. ASSUME NEW c \in Terminals, Run(c)
      PROVE  /\ \A d \in Terminals \ {c} : cmd'[d] = cmd[d]
             /\ \/ cmd[c].pc = "waiting" /\ cmd'[c].pc \in {"got", "idle"}
                \/ cmd[c].pc = "got" /\ cmd'[c].pc \in {"save", "idle"}
                \/ cmd[c].pc = "save" /\ cmd'[c].pc = "truncated"
                \/ cmd[c].pc = "truncated" /\ cmd'[c].pc = "idle"
  <2>1. cmd[c] \in Command BY <1>3
  <2>2. \A d \in Terminals \ {c} : cmd'[d] = cmd[d]
    BY <1>2, <1>4 DEF Run, Receive, Timeout, LoadForToken, Truncate, Write
  <2>3. CASE Receive(c)
    <3> DEFINE r == [cmd[c] EXCEPT !.pc = "got"]
    <3>1. r.pc = "got" BY <2>1 DEF Command
    <3>2. cmd[c].pc = "waiting" /\ (Set(c, r) \/ Set(c, Idle)) BY <2>3 DEF Receive
    <3> HIDE DEF r
    <3>. QED BY <1>2, <2>2, <3>1, <3>2 DEF Idle
  <2>4. CASE Timeout(c) BY <1>2, <2>2, <2>4 DEF Timeout, Idle
  <2>5. CASE LoadForToken(c)
    <3> DEFINE r == [cmd[c] EXCEPT !.pc = "save",
                                   !.cfg = MergeToken(file.cfg, cmd[c].token)]
    <3>1. r.pc = "save" BY <2>1 DEF Command
    <3>2. cmd[c].pc = "got" /\ (Set(c, r) \/ Set(c, Idle)) BY <2>5 DEF LoadForToken
    <3> HIDE DEF r
    <3>. QED BY <1>2, <2>2, <3>1, <3>2 DEF Idle
  <2>6. CASE Truncate(c) BY <1>2, <2>1, <2>2, <2>6 DEF Truncate, Command
  <2>7. CASE Write(c) BY <1>2, <2>2, <2>7 DEF Write, Idle
  <2>. QED BY <1>4, <2>3, <2>4, <2>5, <2>6, <2>7 DEF Run
<1>5. ASSUME NEW c \in Terminals, NEW port \in Ports, StartLogin(c, port)
      PROVE  cmd[c].pc = "idle" /\ \A d \in Terminals \ {c} : cmd'[d] = cmd[d]
  BY <1>2, <1>5 DEF StartLogin
<1>6. ASSUME NEW c \in Terminals, NEW cfg, LoadForSet(c, cfg)
      PROVE  cmd[c].pc = "idle" /\ \A d \in Terminals \ {c} : cmd'[d] = cmd[d]
  BY <1>2, <1>6 DEF LoadForSet
<1>7. ASSUME NEW c \in Terminals, StrayCallback(c) \/ \E q \in sent : Callback(c, q)
      PROVE  \A d \in Terminals : cmd'[d].pc = cmd[d].pc
  <2>1. PICK result, token : Deliver(c, result, token) BY <1>7 DEF StrayCallback, Callback
  <2> DEFINE r == [cmd[c] EXCEPT !.result = result, !.token = token]
  <2>2. r.pc = cmd[c].pc BY <1>3 DEF Command
  <2>3. Set(c, r) \/ UNCHANGED cmd BY <2>1 DEF Deliver
  <2> HIDE DEF r
  <2>. QED BY <1>2, <2>2, <2>3
<1>8. ASSUME NEW c \in Terminals, Interrupt(c) \/ WriteFails(c)
      PROVE  cmd'[c].pc = "idle" /\ \A d \in Terminals \ {c} : cmd'[d] = cmd[d]
  BY <1>2, <1>8 DEF Interrupt, WriteFails, Idle
<1>9. CASE UNCHANGED cmd
  <2>1. \A c \in Terminals : ~ Run(c) \/ cmd[c].pc = "idle"
    BY <1>4, <1>9
  <2>. QED BY <1>1, <1>9, <2>1 DEF ForwardStep
<1>10. ASSUME NEW c \in Terminals, NEW d \in Terminals, cmd[d].pc # "idle",
              \/ Run(c) \/ Interrupt(c) \/ WriteFails(c)
              \/ StrayCallback(c) \/ (\E q \in sent : Callback(c, q))
              \/ (\E port \in Ports : StartLogin(c, port))
              \/ \E cfg \in Edits(file.cfg) : LoadForSet(c, cfg)
       PROVE  /\ StepsLeft(cmd'[d]) <= StepsLeft(cmd[d])
              /\ Run(d) => StepsLeft(cmd'[d]) < StepsLeft(cmd[d])
  <2>1. cmd[d].pc \in Stages BY <1>3 DEF Command
  <2>2. Run(d) => StepsLeft(cmd'[d]) < StepsLeft(cmd[d])
    BY <1>1, <1>4
  <2>3. \/ cmd'[d].pc = cmd[d].pc \/ cmd'[d].pc = "idle" \/ Run(d)
    BY <1>4, <1>5, <1>6, <1>7, <1>8, <1>10
  <2>. QED BY <1>1, <2>1, <2>2, <2>3 DEF Stages
<1>11. (\A c \in Terminals : ~ Run(c) /\ ~ Interrupt(c) /\ ~ WriteFails(c)
             /\ ~ StrayCallback(c) /\ (\A q \in sent : ~ Callback(c, q))
             /\ (\A port \in Ports : ~ StartLogin(c, port))
             /\ \A cfg \in Edits(file.cfg) : ~ LoadForSet(c, cfg))
          => UNCHANGED cmd
  BY DEF Next, ClosePage, Approve, Unreachable, Repair
<1>. QED BY <1>9, <1>10, <1>11 DEF ForwardStep

\* Commands only go forward, however many terminals there are and whatever they do to
\* each other's file and port.
THEOREM CommandsGoForward == Spec => [][ForwardStep]_vars
<1>1. LoginInv /\ [Next]_vars => [ForwardStep]_vars
  BY CommandsMoveForward DEF LoginInv
<1>. QED BY <1>1, LoginInvariant, PTL DEF Spec
=============================================================================
